-------------------------- MODULE HeapSpacesProofs --------------------------
(***************************************************************************)
(* Proofs about HeapSpaces, for all sizes of the heaps.                    *)
(***************************************************************************)
EXTENDS HeapSpaces, SequenceTheorems, TLAPS

(* growLispHeaps asks for more than the cells it was called for.            *)
LEMMA MegExceeds ==
    ASSUME NEW c \in Nat
    PROVE  RoundToMeg(c) \in Nat /\ RoundToMeg(c) > c
<1>1. PICK q \in Nat, r \in 0..(Meg - 1) : c = Meg * q + r /\ q = c \div Meg
  <2>1. c \div Meg \in Nat /\ c % Meg \in 0..(Meg - 1) /\ c = Meg * (c \div Meg) + (c % Meg)
    BY SizesAssumption
  <2> QED BY <2>1
<1>2. RoundToMeg(c) = Meg * q + Meg
  BY <1>1, SizesAssumption DEF RoundToMeg
<1>3. Meg * q \in Nat
  BY SizesAssumption
<1> QED BY <1>1, <1>2, <1>3, SizesAssumption

(* initializeGarbageCollector clips the size of E2: still a number.        *)
LEMMA E2SizeType == E2Size \in Nat
BY SizesAssumption DEF E2Size

(* The fields of the four heaps are numbers.                                *)
LEMMA HeapFields ==
    ASSUME NEW f \in [Heaps -> Nat]
    PROVE  f["E1"] \in Nat /\ f["E2"] \in Nat /\ f["L1"] \in Nat /\ f["L2"] \in Nat
BY DEF Heaps

(* A field of one heap, or of two of them, is assigned.                     *)
LEMMA AssignOne ==
    ASSUME NEW f \in [Heaps -> Nat], NEW h \in Heaps, NEW v \in Nat
    PROVE  /\ [f EXCEPT ![h] = v] \in [Heaps -> Nat]
           /\ [f EXCEPT ![h] = v][h] = v
           /\ \A g \in Heaps : g # h => [f EXCEPT ![h] = v][g] = f[g]
OBVIOUS

(* The same for two heaps, as a copy assigns its source and its target.     *)
LEMMA AssignTwo ==
    ASSUME NEW f \in [Heaps -> Nat], NEW h \in Heaps, NEW v \in Nat,
           NEW k \in Heaps, NEW w \in Nat, h # k
    PROVE  /\ [f EXCEPT ![h] = v, ![k] = w] \in [Heaps -> Nat]
           /\ [f EXCEPT ![h] = v, ![k] = w][h] = v
           /\ [f EXCEPT ![h] = v, ![k] = w][k] = w
           /\ \A g \in Heaps : g # h /\ g # k => [f EXCEPT ![h] = v, ![k] = w][g] = f[g]
OBVIOUS

(* What growLispHeaps does to the fields of the heaps.                      *)
LEMMA GrowFacts ==
    ASSUME TypeOK, NEW c \in Nat, GrowLispHeaps(c)
    PROVE  /\ size' \in [Heaps -> Nat] /\ over' \in [Heaps -> Nat]
           /\ sizeMem' \in [Heaps -> Nat]
           /\ growFailed' \in BOOLEAN /\ swapped' = swapped /\ mapped' = mapped
           /\ size'["E1"] = size["E1"] /\ size'["E2"] = size["E2"]
           /\ over'["E2"] = over["E2"]
           /\ (growFailed => growFailed')
           /\ (\A h \in Semispaces : sizeMem[h] <= Reserve[h]) =>
                 \A h \in Semispaces : sizeMem'[h] <= Reserve[h]
           /\ ~growFailed' =>
                 \E b \in Nat : /\ b > c
                                /\ \A h \in Semispaces :
                                      /\ size'[h] = size[h] + b
                                      /\ over'[h] = over[h] + b
                                      /\ sizeMem'[h] = sizeMem[h] + b
<1> DEFINE b == RoundToMeg(c)
<1>1. b \in Nat /\ b > c
  BY MegExceeds
<1> HIDE DEF b
<1>2. /\ size' = GrownBy(size, HeapsThatGrow(b), b)
      /\ over' = GrownBy(over, HeapsThatGrow(b), b)
      /\ sizeMem' = GrownBy(sizeMem, HeapsThatGrow(b), b)
      /\ growFailed' = (growFailed \/ HeapsThatGrow(b) # Semispaces)
      /\ swapped' = swapped /\ mapped' = mapped
  BY DEF GrowLispHeaps, Grow, b
<1>3. HeapsThatGrow(b) \subseteq Semispaces
  BY DEF HeapsThatGrow, Semispaces
<1>4. "E1" \notin HeapsThatGrow(b) /\ "E2" \notin HeapsThatGrow(b)
  BY <1>3 DEF Semispaces
<1>5. \A h \in HeapsThatGrow(b) : sizeMem[h] + b <= Reserve[h]
  BY DEF HeapsThatGrow, CanGrow, Semispaces
<1>6. size' \in [Heaps -> Nat] /\ over' \in [Heaps -> Nat] /\ sizeMem' \in [Heaps -> Nat]
  BY <1>1, <1>2 DEF GrownBy, TypeOK
<1>7. size'["E1"] = size["E1"] /\ size'["E2"] = size["E2"] /\ over'["E2"] = over["E2"]
  BY <1>2, <1>4 DEF GrownBy, Heaps
<1>8. growFailed' \in BOOLEAN /\ (growFailed => growFailed')
  BY <1>2
<1>9. ASSUME \A h \in Semispaces : sizeMem[h] <= Reserve[h]
      PROVE  \A h \in Semispaces : sizeMem'[h] <= Reserve[h]
  BY <1>2, <1>5, <1>9 DEF GrownBy, Heaps, Semispaces
<1>10. ASSUME ~growFailed'
       PROVE  \A h \in Semispaces : /\ size'[h] = size[h] + b
                                     /\ over'[h] = over[h] + b
                                     /\ sizeMem'[h] = sizeMem[h] + b
  <2>1. HeapsThatGrow(b) = Semispaces
    BY <1>2, <1>10
  <2> QED BY <1>2, <2>1 DEF GrownBy, Heaps, Semispaces
<1> QED BY <1>1, <1>2, <1>6, <1>7, <1>8, <1>9, <1>10

(* What the call of garbageCollect does, from any operation.                *)
LEMMA CallFacts ==
    ASSUME CapacityInv, ~Bootstrapping, NEW lev \in 0..3, NEW op \in Request,
           MayRequest(op.n), CallGarbageCollect(lev, op),
           op.kind = "vector" =>
              phase = "running" /\ op.n \in SmallSizes \cup {LocalHeapCells},
           op.kind = "load" => phase = "running"
    PROVE  CapacityInv'
<1> USE DEF CapacityInv
<1>1. phase' = "wave1" /\ level' = lev /\ pending' = Append(pending, op)
  BY DEF CallGarbageCollect
<1>2. /\ used' = used /\ growFailed' = growFailed /\ size' = size /\ over' = over
      /\ sizeMem' = sizeMem /\ swapped' = swapped /\ mapped' = mapped
  BY DEF CallGarbageCollect, capacity
<1>3. budget' \in Nat /\ budget' <= HookBudget
  BY RequestsAssumption DEF CallGarbageCollect, MayRequest, TypeOK, EphemeralInv, Request
<1>4. TypeOK'
  BY <1>1, <1>2, <1>3 DEF TypeOK, Phases
<1>5. EphemeralInv'
  BY <1>1, <1>2, <1>3 DEF EphemeralInv, MayRequest
<1>6. SemispaceInv'
  BY <1>1, <1>2 DEF SemispaceInv, Semispaces
<1>7. PendingInv'
  <2>1. Len(pending') = Len(pending) + 1 /\ pending'[Len(pending) + 1] = op
    BY <1>1 DEF TypeOK
  <2>2. \A i \in 1..Len(pending) : pending'[i] = pending[i]
    BY <1>1 DEF TypeOK
  <2>3. phase = "running" => Len(pending) = 0
    BY DEF PendingInv
  <2>4. \A i \in 1..Len(pending') :
          /\ pending'[i].kind = "vector" =>
                i = 1 /\ pending'[i].n \in SmallSizes \cup {LocalHeapCells}
          /\ pending'[i].kind = "load" => i = 1
    <3> SUFFICES ASSUME NEW i \in 1..Len(pending')
                 PROVE  /\ pending'[i].kind = "vector" =>
                              i = 1 /\ pending'[i].n \in SmallSizes \cup {LocalHeapCells}
                        /\ pending'[i].kind = "load" => i = 1
      OBVIOUS
    <3>1. CASE i \in 1..Len(pending)
      BY <2>2, <3>1 DEF PendingInv
    <3>2. CASE i = Len(pending) + 1
      BY <2>1, <2>3, <3>2
    <3> QED BY <2>1, <3>1, <3>2 DEF TypeOK
  <2>5. pending' # <<>>
    BY <2>1 DEF TypeOK
  <2> QED BY <1>1, <2>4, <2>5 DEF PendingInv
<1> QED BY <1>4, <1>5, <1>6, <1>7

(* _AllocVectorImpl and LoadLocalHeap; a hook never needs a collection.     *)
LEMMA SmallStep ==
    ASSUME CapacityInv, ~Bootstrapping, HooksFit,
           NEW n \in SmallSizes \cup {LocalHeapCells}, AllocSmall(n)
    PROVE  CapacityInv'
<1> USE DEF CapacityInv
<1>0. n \in Nat /\ n <= E1Size /\ HookBudget + n <= E1Size /\ E1Size \in Nat
  BY SizesAssumption, RequestsAssumption DEF HooksFit
<1>1. CASE used["E1"] + n <= size["E1"] /\ Bump("E1", n) /\ Charge(n)
           /\ UNCHANGED <<phase, level, pending, growFailed>> /\ UNCHANGED capacity
  <2>1. used' \in [Heaps -> Nat] /\ used'["E1"] = used["E1"] + n
        /\ \A h \in {"E2", "L1", "L2"} : used'[h] = used[h]
    <3>1. used \in [Heaps -> Nat] /\ used["E1"] + n \in Nat
      BY <1>0, HeapFields DEF TypeOK
    <3>2. used' = [used EXCEPT !["E1"] = used["E1"] + n]
      BY <1>1 DEF Bump
    <3> QED BY <3>1, <3>2, AssignOne DEF Heaps
  <2>2. phase = "hooks" => budget' = budget - n /\ n <= budget
    BY <1>1 DEF Charge, AllocSmall, MayRequest
  <2>3. phase # "hooks" => budget' = budget /\ phase = "running"
    BY <1>1 DEF Charge, AllocSmall, MayRequest
  <2>4. budget' \in Nat
    BY <1>0, <2>2, <2>3 DEF TypeOK
  <2>5. TypeOK'
    BY <1>1, <2>1, <2>4 DEF TypeOK, capacity
  <2>6. EphemeralInv'
    <3>1. used["E1"] \in Nat /\ used["E2"] \in Nat /\ budget \in Nat /\ HookBudget \in Nat
      BY HeapFields, RequestsAssumption DEF TypeOK
    <3>2. size' = size /\ over' = over /\ phase' = phase
      BY <1>1 DEF capacity
    <3> QED BY <1>0, <1>1, <2>1, <2>2, <2>3, <2>4, <3>1, <3>2 DEF EphemeralInv
  <2>7. SemispaceInv'
    BY <1>1, <2>1 DEF SemispaceInv, capacity, Semispaces
  <2>8. PendingInv'
    BY <1>1 DEF PendingInv
  <2> QED BY <2>5, <2>6, <2>7, <2>8
<1>2. CASE used["E1"] + n > size["E1"]
           /\ CallGarbageCollect(0, [kind |-> "vector", n |-> n])
  <2> DEFINE op == [kind |-> "vector", n |-> n]
  <2>1. phase # "hooks"
    <3>1. used["E1"] \in Nat /\ budget \in Nat /\ HookBudget \in Nat
      BY HeapFields, RequestsAssumption DEF TypeOK
    <3> QED BY <1>0, <1>2, <3>1 DEF AllocSmall, MayRequest, EphemeralInv
  <2>2. phase = "running"
    BY <2>1 DEF AllocSmall, MayRequest
  <2>3. op \in Request /\ op.kind = "vector" /\ op.n = n
    BY <1>0 DEF Request, Kinds
  <2> HIDE DEF op
  <2> QED BY <1>2, <2>2, <2>3, CallFacts DEF MayRequest, op
<1> QED BY <1>1, <1>2 DEF AllocSmall

(* AllocLargeVector bumps L1 up to its overflow mark, or asks for a         *)
(* collection of level 2.                                                  *)
LEMMA LargeStep ==
    ASSUME CapacityInv, ~Bootstrapping, NEW n \in LargeSizes, AllocLargeVector(n)
    PROVE  CapacityInv'
<1> USE DEF CapacityInv
<1>0. n \in Nat
  BY RequestsAssumption
<1>1. CASE used["L1"] + n <= over["L1"] /\ Bump("L1", n) /\ Charge(n)
           /\ UNCHANGED <<phase, level, pending, growFailed>> /\ UNCHANGED capacity
  <2>1. used' \in [Heaps -> Nat] /\ used'["L1"] = used["L1"] + n
        /\ \A h \in {"E1", "E2", "L2"} : used'[h] = used[h]
    <3>1. used \in [Heaps -> Nat] /\ used["L1"] + n \in Nat
      BY <1>0, HeapFields DEF TypeOK
    <3>2. used' = [used EXCEPT !["L1"] = used["L1"] + n]
      BY <1>1 DEF Bump
    <3> QED BY <3>1, <3>2, AssignOne DEF Heaps
  <2>2. phase = "hooks" => budget' = budget - n /\ n <= budget
    BY <1>1 DEF Charge, AllocLargeVector, MayRequest
  <2>3. phase # "hooks" => budget' = budget /\ phase = "running"
    BY <1>1 DEF Charge, AllocLargeVector, MayRequest
  <2>4. budget' \in Nat /\ budget' <= budget
    BY <1>0, <2>2, <2>3 DEF TypeOK
  <2>5. TypeOK'
    BY <1>1, <2>1, <2>4 DEF TypeOK, capacity
  <2>6. EphemeralInv'
    <3>1. used["E1"] \in Nat /\ budget \in Nat /\ HookBudget \in Nat
      BY HeapFields, RequestsAssumption DEF TypeOK
    <3>2. size' = size /\ over' = over /\ phase' = phase
      BY <1>1 DEF capacity
    <3> QED BY <1>1, <2>1, <2>2, <2>3, <2>4, <3>1, <3>2 DEF EphemeralInv
  <2>7. SemispaceInv'
    <3>1. /\ E1Size \in Nat /\ E2Size \in Nat /\ over["L1"] \in Nat
          /\ used["L1"] \in Nat
      BY E2SizeType, SizesAssumption, HeapFields DEF TypeOK
    <3>2. /\ size' = size /\ over' = over /\ sizeMem' = sizeMem /\ mapped' = mapped
          /\ phase' = phase /\ level' = level /\ growFailed' = growFailed
      BY <1>1 DEF capacity
    <3> QED BY <1>0, <1>1, <2>1, <2>3, <3>1, <3>2 DEF SemispaceInv, Semispaces
  <2>8. PendingInv'
    BY <1>1 DEF PendingInv
  <2> QED BY <2>5, <2>6, <2>7, <2>8
<1>2. CASE CallGarbageCollect(2, [kind |-> "large", n |-> n])
  <2> DEFINE op == [kind |-> "large", n |-> n]
  <2>1. op \in Request /\ op.kind = "large" /\ op.n = n
    BY <1>0 DEF Request, Kinds
  <2>2. MayRequest(op.n)
    BY <2>1 DEF AllocLargeVector
  <2> HIDE DEF op
  <2> QED BY <1>2, <2>1, <2>2, CallFacts DEF op
<1> QED BY <1>1, <1>2 DEF AllocLargeVector

(* The Lisp function GC, from the program or from a hook.                   *)
LEMMA LispGCStep ==
    ASSUME CapacityInv, ~Bootstrapping, NEW lev \in 0..3, LispGC(lev)
    PROVE  CapacityInv'
<1> DEFINE op == [kind |-> "gc", n |-> 1]
<1>1. op \in Request /\ op.kind = "gc" /\ op.n = 1
  BY DEF Request, Kinds
<1>2. MayRequest(op.n) /\ CallGarbageCollect(lev, op)
  BY <1>1 DEF LispGC
<1> HIDE DEF op
<1> QED BY <1>1, <1>2, CallFacts

(* An image is loaded: readHeap starts with a collection of level 3.        *)
LEMMA ReadHeapStep ==
    ASSUME CapacityInv, ~Bootstrapping, NEW n \in ImageSizes, ReadHeap(n)
    PROVE  CapacityInv'
<1> DEFINE op == [kind |-> "load", n |-> n]
<1>1. op \in Request /\ op.kind = "load" /\ op.n = n
  BY RequestsAssumption DEF Request, Kinds
<1>2. phase = "running" /\ CallGarbageCollect(3, op)
  BY DEF ReadHeap
<1> HIDE DEF op
<1> QED BY <1>1, <1>2, CallFacts DEF MayRequest

(* E1 is copied into E2, which has room for all of it.                      *)
LEMMA Wave1Step ==
    ASSUME CapacityInv, Wave1
    PROVE  CapacityInv'
<1> USE DEF CapacityInv
<1>1. PICK live \in 0..used["E1"] :
         CopyInto("E2", "E1", live,
                  IF used["E2"] + live > over["E2"] \/ level > 0 THEN "wave2" ELSE "finish")
  BY DEF Wave1
<1>2. phase = "wave1" /\ live \in Nat /\ used["E1"] \in Nat /\ used["E2"] \in Nat
      /\ E1Size \in Nat /\ E2Size \in Nat
  BY SizesAssumption, E2SizeType, HeapFields DEF Wave1, TypeOK
<1>3. used["E2"] + live <= E1Size + E2Size
  BY <1>2 DEF EphemeralInv
<1>4. PhysicalReserve("E2") = E1Size + E2Size
  BY DEF PhysicalReserve, Reserve, Heaps
<1>5. /\ used' = [used EXCEPT !["E1"] = 0, !["E2"] = @ + live]
      /\ phase' = IF used["E2"] + live > over["E2"] \/ level > 0 THEN "wave2" ELSE "finish"
  BY <1>1, <1>3, <1>4 DEF CopyInto
<1>6. /\ used' \in [Heaps -> Nat] /\ used'["E1"] = 0 /\ used'["E2"] = used["E2"] + live
      /\ used'["L1"] = used["L1"] /\ used'["L2"] = used["L2"]
  <2>1. used \in [Heaps -> Nat] /\ used["E2"] + live \in Nat
    BY <1>2 DEF TypeOK
  <2> QED BY <1>5, <2>1, AssignTwo DEF Heaps
<1>7. /\ level' = level /\ pending' = pending /\ budget' = budget
      /\ growFailed' = growFailed /\ size' = size /\ over' = over
      /\ sizeMem' = sizeMem /\ swapped' = swapped /\ mapped' = mapped
  BY DEF Wave1, capacity
<1>8. phase' \in {"wave2", "finish"} /\ (phase' = "finish" => used["E2"] + live <= over["E2"])
  <2>1. over["E2"] \in Nat
    BY HeapFields DEF TypeOK
  <2> QED BY <1>2, <1>5, <2>1
<1>9. TypeOK'
  BY <1>6, <1>7, <1>8 DEF TypeOK, Phases
<1>10. EphemeralInv'
  BY <1>2, <1>3, <1>6, <1>7, <1>8 DEF EphemeralInv
<1>11. SemispaceInv'
  BY <1>2, <1>6, <1>7, <1>8 DEF SemispaceInv, Semispaces
<1>12. PendingInv'
  BY <1>2, <1>7, <1>8 DEF PendingInv
<1> QED BY <1>9, <1>10, <1>11, <1>12

(* E2 is copied into L1: there is room, or growLispHeaps made some, or it   *)
(* failed.                                                                  *)
LEMMA Wave2Step ==
    ASSUME CapacityInv, Wave2
    PROVE  CapacityInv'
<1> USE DEF CapacityInv
<1>1. PICK live \in 0..used["E2"] :
         CopyInto("L1", "E2", live,
                  IF used["L1"] + live > over'["L1"] \/ level' > 1 THEN "wave3" ELSE "finish")
  BY DEF Wave2
<1>2. /\ phase = "wave2" /\ live \in Nat /\ used["L1"] \in Nat /\ used["E2"] \in Nat
      /\ size["L1"] \in Nat /\ E1Size \in Nat /\ E2Size \in Nat
      /\ pending' = pending /\ budget' = budget
      /\ level' = IF level = 0 THEN 1 ELSE level
  BY SizesAssumption, E2SizeType, HeapFields DEF Wave2, TypeOK
<1>3. /\ size' \in [Heaps -> Nat] /\ over' \in [Heaps -> Nat] /\ sizeMem' \in [Heaps -> Nat]
      /\ growFailed' \in BOOLEAN /\ swapped' = swapped /\ mapped' = mapped
      /\ size'["E1"] = size["E1"] /\ size'["E2"] = size["E2"] /\ over'["E2"] = over["E2"]
      /\ (growFailed => growFailed')
      /\ \A h \in Semispaces : sizeMem'[h] <= Reserve[h]
  <2>1. CASE NeedsRoom
    <3>1. GrowLispHeaps(used["E2"])
      BY <2>1 DEF Wave2
    <3> QED BY <1>2, <3>1, GrowFacts DEF SemispaceInv
  <2>2. CASE ~NeedsRoom
    BY <2>2 DEF Wave2, capacity, TypeOK, SemispaceInv
  <2> QED BY <2>1, <2>2
<1>4. ASSUME ~growFailed'
      PROVE  \E b \in Nat : /\ \A h \in Semispaces : /\ size'[h] = size[h] + b
                                                      /\ over'[h] = over[h] + b
                                                      /\ sizeMem'[h] = sizeMem[h] + b
                            /\ used["L1"] + used["E2"] <= size["L1"] + b
  <2>0. ~growFailed /\ used["L1"] <= size["L1"]
    BY <1>3, <1>4 DEF SemispaceInv
  <2>1. CASE NeedsRoom
    <3>1. GrowLispHeaps(used["E2"])
      BY <2>1 DEF Wave2
    <3>2. PICK b \in Nat : /\ b > used["E2"]
                            /\ \A h \in Semispaces : /\ size'[h] = size[h] + b
                                                      /\ over'[h] = over[h] + b
                                                      /\ sizeMem'[h] = sizeMem[h] + b
      BY <1>2, <1>4, <3>1, GrowFacts
    <3>3. used["L1"] + used["E2"] <= size["L1"] + b
      BY <1>2, <2>0, <3>2
    <3> QED BY <3>2, <3>3
  <2>2. CASE ~NeedsRoom
    <3>1. used["L1"] + used["E2"] <= size["L1"] + 0
      BY <1>2, <2>2 DEF NeedsRoom
    <3>2. \A h \in Semispaces : /\ size'[h] = size[h] + 0
                                /\ over'[h] = over[h] + 0
                                /\ sizeMem'[h] = sizeMem[h] + 0
      <4>1. size' = size /\ over' = over /\ sizeMem' = sizeMem
        BY <2>2 DEF Wave2, capacity
      <4>2. \A h \in Semispaces : size[h] \in Nat /\ over[h] \in Nat /\ sizeMem[h] \in Nat
        BY HeapFields DEF TypeOK, Semispaces
      <4> QED BY <4>1, <4>2
    <3> QED BY <3>1, <3>2
  <2> QED BY <2>1, <2>2
<1>5. \/ /\ used' = [used EXCEPT !["E2"] = 0, !["L1"] = used["L1"] + live]
         /\ phase' = IF used["L1"] + live > over'["L1"] \/ level' > 1 THEN "wave3" ELSE "finish"
      \/ /\ used' = used /\ phase' = "fault" /\ ~(used["L1"] + live <= PhysicalReserve("L1"))
  BY <1>1 DEF CopyInto
<1>6. used' \in [Heaps -> Nat] /\ used'["E1"] = used["E1"] /\ used'["L2"] = used["L2"]
      /\ phase' \in {"wave3", "finish", "fault"}
      /\ (phase' = "fault" => used' = used)
      /\ (phase' # "fault" => used'["E2"] = 0 /\ used'["L1"] = used["L1"] + live)
  <2>1. used \in [Heaps -> Nat] /\ used["L1"] + live \in Nat
    BY <1>2 DEF TypeOK
  <2>2. CASE used' = [used EXCEPT !["E2"] = 0, !["L1"] = used["L1"] + live]
             /\ phase' \in {"wave3", "finish"}
    BY <2>1, <2>2, AssignTwo DEF Heaps
  <2>3. CASE used' = used /\ phase' = "fault"
    BY <2>1, <2>3
  <2> QED BY <1>5, <2>2, <2>3
<1>7. TypeOK'
  <2>1. level' \in 0..3
    BY <1>2 DEF TypeOK
  <2>2. phase' \in Phases
    BY <1>6 DEF Phases
  <2> QED BY <1>2, <1>3, <1>6, <2>1, <2>2 DEF TypeOK
<1>8. EphemeralInv'
  BY <1>2, <1>3, <1>6 DEF EphemeralInv
<1>9. SemispaceInv'
  <2>1. ASSUME ~growFailed'
        PROVE  /\ size'["L1"] = size'["L2"]
               /\ over'["L1"] = over'["L2"]
               /\ \A h \in Semispaces : /\ sizeMem'[h] = size'[h]
                                        /\ size'[h] = over'[h] + E1Size + E2Size
               /\ used'["L1"] <= size'["L1"]
               /\ phase' # "fault"
    <3>1. PICK b \in Nat : /\ \A h \in Semispaces : /\ size'[h] = size[h] + b
                                                      /\ over'[h] = over[h] + b
                                                      /\ sizeMem'[h] = sizeMem[h] + b
                            /\ used["L1"] + used["E2"] <= size["L1"] + b
      BY <1>4, <2>1
    <3>2. ~growFailed
      BY <1>3, <2>1
    <3>3. /\ size["L2"] \in Nat /\ over["L1"] \in Nat /\ over["L2"] \in Nat
          /\ sizeMem["L1"] \in Nat /\ sizeMem["L2"] \in Nat
      BY HeapFields DEF TypeOK
    <3>4. /\ size'["L1"] = size'["L2"] /\ over'["L1"] = over'["L2"]
          /\ \A h \in Semispaces : /\ sizeMem'[h] = size'[h]
                                   /\ size'[h] = over'[h] + E1Size + E2Size
      BY <1>2, <3>1, <3>2, <3>3 DEF SemispaceInv, Semispaces
    <3>5. used["L1"] + live <= size'["L1"] /\ used["L1"] <= size'["L1"]
      BY <1>2, <3>1 DEF Semispaces
    <3>6. PhysicalReserve("L1") >= size'["L1"]
      <4>1. size'["L1"] <= Reserve["L1"] /\ size'["L1"] <= Reserve["L2"]
        BY <1>3, <3>4 DEF Semispaces
      <4>2. Reserve["L2"] = L2Reserve /\ Reserve["L1"] = L1Reserve
            /\ L1Reserve \in Nat /\ L2Reserve \in Nat
        BY SizesAssumption DEF Reserve, Heaps
      <4> QED BY <1>3, <4>1, <4>2, HeapFields DEF PhysicalReserve, TypeOK
    <3>7. phase' # "fault"
      <4>1. PhysicalReserve("L1") \in Nat
        BY SizesAssumption DEF PhysicalReserve, Reserve, Heaps
      <4>2. size'["L1"] \in Nat
        BY <1>3, HeapFields
      <4> QED BY <1>2, <1>5, <3>5, <3>6, <4>1, <4>2
    <3> QED BY <1>6, <3>4, <3>5, <3>7
  <2> QED BY <1>2, <1>3, <1>6, <2>1 DEF SemispaceInv
<1>10. PendingInv'
  BY <1>2, <1>6 DEF PendingInv
<1> QED BY <1>7, <1>8, <1>9, <1>10

(* L1 is copied into L2, which is as large, and the two are exchanged.      *)
LEMMA SwapStep ==
    ASSUME CapacityInv, phase \in {"wave3", "wave4"}, NEW next \in {"wave4", "finish"},
           CopyAndSwap(next), level' \in 0..3
    PROVE  CapacityInv'
<1> USE DEF CapacityInv
<1>1. PICK live \in 0..used["L1"] :
          IF mapped /\ live <= PhysicalReserve("L2")
          THEN /\ used' = [used EXCEPT !["L1"] = live, !["L2"] = 0]
               /\ size' = Exchanged(size)
               /\ over' = Exchanged(over)
               /\ swapped' = ~swapped
               /\ mapped' = ~DecommitUnmaps
               /\ phase' = next
               /\ UNCHANGED sizeMem
          ELSE phase' = "fault" /\ UNCHANGED used /\ UNCHANGED capacity
  BY DEF CopyAndSwap
<1>2. /\ pending' = pending /\ budget' = budget /\ growFailed' = growFailed
      /\ live \in Nat /\ used["L1"] \in Nat /\ live <= used["L1"]
      /\ used \in [Heaps -> Nat] /\ size \in [Heaps -> Nat] /\ over \in [Heaps -> Nat]
      /\ sizeMem \in [Heaps -> Nat]
  BY HeapFields DEF CopyAndSwap, TypeOK
<1>3. CASE mapped /\ live <= PhysicalReserve("L2")
  <2>1. /\ used' \in [Heaps -> Nat] /\ used'["L1"] = live /\ used'["L2"] = 0
        /\ used'["E1"] = used["E1"] /\ used'["E2"] = used["E2"]
    BY SMTT(30), <1>1, <1>2, <1>3, AssignTwo DEF Heaps
  <2>2. /\ size' \in [Heaps -> Nat] /\ size'["L1"] = size["L2"] /\ size'["L2"] = size["L1"]
        /\ size'["E1"] = size["E1"] /\ size'["E2"] = size["E2"]
    <3>1. size["L1"] \in Nat /\ size["L2"] \in Nat
      BY <1>2, HeapFields
    <3> QED BY <1>1, <1>2, <1>3, <3>1, AssignTwo DEF Exchanged, Heaps
  <2>3. /\ over' \in [Heaps -> Nat] /\ over'["L1"] = over["L2"] /\ over'["L2"] = over["L1"]
        /\ over'["E2"] = over["E2"]
    <3>1. over["L1"] \in Nat /\ over["L2"] \in Nat
      BY <1>2, HeapFields
    <3> QED BY <1>1, <1>2, <1>3, <3>1, AssignTwo DEF Exchanged, Heaps
  <2>4. sizeMem' = sizeMem /\ phase' = next /\ mapped' = ~DecommitUnmaps /\ swapped' = ~swapped
    BY <1>1, <1>3
  <2>5. TypeOK'
    <3>1. phase' \in Phases /\ mapped' \in BOOLEAN /\ swapped' \in BOOLEAN
      BY <2>4 DEF Phases
    <3> QED BY <1>2, <2>1, <2>2, <2>3, <2>4, <3>1 DEF TypeOK
  <2>6. EphemeralInv'
    BY <1>2, <2>1, <2>2, <2>3, <2>4 DEF EphemeralInv
  <2>7. SemispaceInv'
    <3>1. ASSUME ~growFailed'
          PROVE  /\ size'["L1"] = size'["L2"] /\ over'["L1"] = over'["L2"]
                 /\ \A h \in Semispaces : /\ sizeMem'[h] = size'[h]
                                          /\ size'[h] = over'[h] + E1Size + E2Size
                 /\ used'["L1"] <= size'["L1"]
      <4>1. ~growFailed
        BY <1>2, <3>1
      <4>2. size["L1"] \in Nat /\ used["L1"] <= size["L1"]
        BY <1>2, <4>1, HeapFields DEF SemispaceInv
      <4> QED BY <1>2, <2>1, <2>2, <2>3, <2>4, <4>1, <4>2 DEF SemispaceInv, Semispaces
    <3> QED BY <1>2, <2>1, <2>4, <3>1 DEF SemispaceInv
  <2>8. PendingInv'
    BY <1>2, <2>4 DEF PendingInv
  <2> QED BY <2>5, <2>6, <2>7, <2>8
<1>4. CASE ~(mapped /\ live <= PhysicalReserve("L2"))
  <2>1. phase' = "fault" /\ used' = used /\ size' = size /\ over' = over
        /\ sizeMem' = sizeMem /\ swapped' = swapped /\ mapped' = mapped
    BY <1>1, <1>4 DEF capacity
  <2>2. TypeOK'
    <3>1. phase' \in Phases
      BY <2>1 DEF Phases
    <3> QED BY <1>2, <2>1, <3>1 DEF TypeOK
  <2>3. EphemeralInv'
    BY <1>2, <2>1 DEF EphemeralInv
  <2>4. ~growFailed => ~mapped
    <3> SUFFICES ASSUME ~growFailed PROVE live <= PhysicalReserve("L2")
      BY <1>4
    <3>1. /\ used["L1"] <= size["L1"] /\ size["L1"] = size["L2"]
          /\ size["L1"] <= Reserve["L1"] /\ size["L2"] <= Reserve["L2"]
      BY DEF SemispaceInv, Semispaces
    <3>2. Reserve["L2"] = L2Reserve /\ Reserve["L1"] = L1Reserve
          /\ L1Reserve \in Nat /\ L2Reserve \in Nat
      BY SizesAssumption DEF Reserve, Heaps
    <3>3. PhysicalReserve("L2") \in {L1Reserve, L2Reserve}
      BY <3>2 DEF PhysicalReserve
    <3>4. size["L1"] \in Nat
      BY <1>2, HeapFields
    <3> QED BY <1>2, <3>1, <3>2, <3>3, <3>4
  <2>5. SemispaceInv'
    BY <1>2, <2>1, <2>4 DEF SemispaceInv
  <2>6. PendingInv'
    BY <1>2, <2>1 DEF PendingInv
  <2> QED BY <2>2, <2>3, <2>5, <2>6
<1> QED BY <1>3, <1>4

(* Waves 3 and 4 are copies between the semispaces.                         *)
LEMMA Wave34Step ==
    ASSUME CapacityInv, Wave3 \/ Wave4
    PROVE  CapacityInv'
<1>1. level \in 0..3
  BY DEF CapacityInv, TypeOK
<1>2. CASE Wave3
  <2> DEFINE next == IF L1IsHigher(~swapped) /\ level > 2 THEN "wave4" ELSE "finish"
  <2>1. next \in {"wave4", "finish"} /\ CopyAndSwap(next)
    BY <1>2 DEF Wave3
  <2>2. level' \in 0..3
    BY <1>1, <1>2 DEF Wave3
  <2>3. phase = "wave3"
    BY <1>2 DEF Wave3
  <2> HIDE DEF next
  <2> QED BY <2>1, <2>2, <2>3, SwapStep
<1>3. CASE Wave4
  <2>1. CopyAndSwap("finish") /\ level' \in 0..3 /\ phase = "wave4"
    BY <1>1, <1>3 DEF Wave4
  <2> QED BY <2>1, SwapStep
<1> QED BY <1>2, <1>3

(* A permanent heap that is still full is grown past its overflow mark.     *)
LEMMA FinishStep ==
    ASSUME CapacityInv, Finish
    PROVE  CapacityInv'
<1> USE DEF CapacityInv
<1>1. /\ phase = "finish" /\ phase' = "hooks" /\ used' = used /\ level' = level
      /\ pending' = pending /\ budget' = budget
  BY DEF Finish
<1>2. /\ size["E2"] \in Nat /\ used["L1"] \in Nat /\ over["L1"] \in Nat /\ size["L1"] \in Nat
      /\ over["L2"] \in Nat /\ size["L2"] \in Nat /\ sizeMem["L1"] \in Nat
      /\ sizeMem["L2"] \in Nat /\ E1Size \in Nat /\ E2Size \in Nat
      /\ used["E1"] = 0 /\ budget \in Nat /\ size["E2"] = E1Size + E2Size
  BY <1>1, HeapFields, E2SizeType, SizesAssumption DEF TypeOK, EphemeralInv
<1>3. CASE level > 0 /\ used["L1"] >= over["L1"]
  <2>1. GrowLispHeaps(size["E2"])
    BY <1>3 DEF Finish
  <2>2. /\ size' \in [Heaps -> Nat] /\ over' \in [Heaps -> Nat] /\ sizeMem' \in [Heaps -> Nat]
        /\ growFailed' \in BOOLEAN /\ swapped' = swapped /\ mapped' = mapped
        /\ size'["E1"] = size["E1"] /\ size'["E2"] = size["E2"] /\ over'["E2"] = over["E2"]
        /\ (growFailed => growFailed')
        /\ \A h \in Semispaces : sizeMem'[h] <= Reserve[h]
    BY <1>2, <2>1, GrowFacts DEF SemispaceInv
  <2>3. ASSUME ~growFailed'
        PROVE  /\ size'["L1"] = size'["L2"] /\ over'["L1"] = over'["L2"]
               /\ \A h \in Semispaces : /\ sizeMem'[h] = size'[h]
                                        /\ size'[h] = over'[h] + E1Size + E2Size
               /\ used["L1"] <= size'["L1"]
               /\ used["L1"] <= over'["L1"]
    <3>1. PICK b \in Nat : /\ b > size["E2"]
                            /\ \A h \in Semispaces : /\ size'[h] = size[h] + b
                                                      /\ over'[h] = over[h] + b
                                                      /\ sizeMem'[h] = sizeMem[h] + b
      BY <1>2, <2>1, <2>3, GrowFacts
    <3>2. ~growFailed
      BY <2>2, <2>3
    <3> QED BY <1>2, <3>1, <3>2 DEF SemispaceInv, Semispaces
  <2>4. TypeOK'
    BY <1>1, <2>2 DEF TypeOK, Phases
  <2>5. EphemeralInv'
    BY <1>1, <1>2, <2>2 DEF EphemeralInv
  <2>6. SemispaceInv'
    BY <1>1, <2>2, <2>3 DEF SemispaceInv
  <2>7. PendingInv'
    BY <1>1 DEF PendingInv
  <2> QED BY <2>4, <2>5, <2>6, <2>7
<1>4. CASE ~(level > 0 /\ used["L1"] >= over["L1"])
  <2>1. /\ size' = size /\ over' = over /\ sizeMem' = sizeMem /\ swapped' = swapped
        /\ mapped' = mapped /\ growFailed' = growFailed
    BY <1>4 DEF Finish, capacity
  <2>2. TypeOK'
    BY <1>1, <2>1 DEF TypeOK, Phases
  <2>3. EphemeralInv'
    BY <1>1, <1>2, <2>1 DEF EphemeralInv
  <2>4. SemispaceInv'
    BY <1>1, <1>2, <1>4, <2>1 DEF SemispaceInv, Semispaces
  <2>5. PendingInv'
    BY <1>1 DEF PendingInv
  <2> QED BY <2>2, <2>3, <2>4, <2>5
<1> QED BY <1>3, <1>4

(* The hooks have returned: what they allocated is within their budget.     *)
LEMMA HooksDoneStep ==
    ASSUME CapacityInv, HooksDone
    PROVE  CapacityInv'
<1> USE DEF CapacityInv
<1>1. /\ phase = "hooks" /\ phase' = "return" /\ used' = used /\ level' = level
      /\ pending' = pending /\ budget' = budget /\ growFailed' = growFailed
      /\ size' = size /\ over' = over /\ sizeMem' = sizeMem /\ swapped' = swapped
      /\ mapped' = mapped
  BY DEF HooksDone, capacity
<1>2. TypeOK'
  BY <1>1 DEF TypeOK, Phases
<1>3. EphemeralInv'
  BY <1>1 DEF EphemeralInv
<1>4. SemispaceInv'
  BY <1>1 DEF SemispaceInv
<1>5. PendingInv'
  BY <1>1 DEF PendingInv
<1> QED BY <1>2, <1>3, <1>4, <1>5

(* The innermost operation is removed from the stack and resumes.           *)
LEMMA ReturnFacts ==
    ASSUME CapacityInv, NEW kind, ReturnToCaller(kind)
    PROVE  /\ phase = "return" /\ Caller \in Request /\ Caller.kind = kind
           /\ level' = level /\ budget' = budget
           /\ pending' \in Seq(Request)
           /\ Resumed \in {"running", "hooks"}
           /\ Resumed = "running" => pending' = <<>>
           /\ Resumed = "hooks" => pending' # <<>>
           /\ \A i \in 1..Len(pending') : i \in 1..Len(pending) /\ pending'[i] = pending[i]
           /\ kind = "vector" =>
                 Resumed = "running" /\ Caller.n \in SmallSizes \cup {LocalHeapCells}
           /\ kind = "load" => Resumed = "running"
<1> DEFINE len == Len(pending)
<1>1. /\ phase = "return" /\ pending \in Seq(Request) /\ pending # <<>>
      /\ Caller.kind = kind /\ level' = level /\ budget' = budget
      /\ pending' = SubSeq(pending, 1, len - 1)
  BY DEF ReturnToCaller, CapacityInv, TypeOK, PendingInv
<1>2. len \in Nat \ {0}
  BY <1>1
<1>3. Caller \in Request
  BY <1>1, <1>2 DEF Caller
<1>4. /\ pending' \in Seq(Request) /\ Len(pending') = len - 1
      /\ \A i \in 1..(len - 1) : pending'[i] = pending[i]
  <2> HIDE DEF len
  <2>1. \A i \in 1..(len - 1) : pending[i] \in Request
    BY <1>1, <1>2 DEF len
  <2>2. /\ SubSeq(pending, 1, len - 1) \in Seq(Request)
        /\ Len(SubSeq(pending, 1, len - 1)) = IF 1 <= len - 1 THEN (len - 1) - 1 + 1 ELSE 0
        /\ \A i \in 1..((len - 1) - 1 + 1) :
              SubSeq(pending, 1, len - 1)[i] = pending[1 + i - 1]
    BY <1>2, <2>1, SubSeqProperties
  <2>3. (len - 1) - 1 + 1 = len - 1 /\ \A i \in 1..(len - 1) : 1 + i - 1 = i
    BY <1>2
  <2>4. Len(SubSeq(pending, 1, len - 1)) = len - 1
    BY <1>2, <2>2
  <2> QED BY <1>1, <2>2, <2>3, <2>4
<1>5. /\ Resumed \in {"running", "hooks"}
      /\ Resumed = "running" => Len(pending') = 0
      /\ Resumed = "hooks" => Len(pending') # 0
  BY <1>2, <1>4 DEF Resumed
<1>6. /\ kind = "vector" =>
            Resumed = "running" /\ Caller.n \in SmallSizes \cup {LocalHeapCells}
      /\ kind = "load" => Resumed = "running"
  <2>1. len \in 1..len
    BY <1>2
  <2>2. /\ pending[len].kind = "vector" =>
              len = 1 /\ pending[len].n \in SmallSizes \cup {LocalHeapCells}
        /\ pending[len].kind = "load" => len = 1
    BY <2>1 DEF CapacityInv, PendingInv
  <2> QED BY <1>1, <2>2 DEF Caller, Resumed
<1>7. \A i \in 1..Len(pending') : i \in 1..Len(pending) /\ pending'[i] = pending[i]
  BY <1>2, <1>4
<1>8. (Len(pending') = 0) = (pending' = <<>>)
  BY <1>4
<1> QED BY <1>1, <1>3, <1>4, <1>5, <1>6, <1>7, <1>8

(* The stack stays well formed when phase' is where the caller resumes.     *)
LEMMA ReturnPending ==
    ASSUME CapacityInv, NEW kind, ReturnToCaller(kind), phase' \in {Resumed, "fault"}
    PROVE  PendingInv'
<1>1. \A i \in 1..Len(pending') :
        /\ pending'[i].kind = "vector" =>
              i = 1 /\ pending'[i].n \in SmallSizes \cup {LocalHeapCells}
        /\ pending'[i].kind = "load" => i = 1
  BY ReturnFacts DEF CapacityInv, PendingInv
<1>2. /\ Resumed \in {"running", "hooks"}
      /\ Resumed = "running" => pending' = <<>>
      /\ Resumed = "hooks" => pending' # <<>>
  BY ReturnFacts
<1> QED BY <1>1, <1>2 DEF PendingInv

(* The allocation that waited is served without a second look: it fits.     *)
LEMMA VectorReturnsStep ==
    ASSUME CapacityInv, HooksFit, VectorReturns
    PROVE  CapacityInv'
<1> USE DEF CapacityInv
<1> DEFINE n == Caller.n
<1>1. /\ phase = "return" /\ Resumed = "running" /\ n \in SmallSizes \cup {LocalHeapCells}
      /\ level' = level /\ budget' = budget /\ pending' \in Seq(Request)
  BY ReturnFacts DEF VectorReturns
<1>2. /\ n \in Nat /\ HookBudget + n <= E1Size /\ E1Size \in Nat /\ HookBudget \in Nat
      /\ used["E1"] \in Nat /\ budget \in Nat /\ E1Reserve \in Nat /\ E1Size <= E1Reserve
  <2> HIDE DEF n
  <2>1. n \in 1..E1Size
    BY <1>1, RequestsAssumption
  <2>2. HookBudget + n <= E1Size
    BY <1>1 DEF HooksFit
  <2>3. used["E1"] \in Nat /\ budget \in Nat
    BY HeapFields DEF TypeOK
  <2> QED BY <2>1, <2>2, <2>3, SizesAssumption, RequestsAssumption
<1>3. used["E1"] + n <= E1Size
  BY <1>1, <1>2 DEF EphemeralInv
<1>4. PhysicalReserve("E1") = E1Reserve
  BY DEF PhysicalReserve, Reserve, Heaps
<1>5. used' = [used EXCEPT !["E1"] = used["E1"] + n] /\ phase' = "running"
  BY <1>1, <1>2, <1>3, <1>4 DEF VectorReturns, Fill
<1>6. /\ used' \in [Heaps -> Nat] /\ used'["E1"] = used["E1"] + n
      /\ used'["E2"] = used["E2"] /\ used'["L1"] = used["L1"] /\ used'["L2"] = used["L2"]
  <2>1. used \in [Heaps -> Nat] /\ used["E1"] + n \in Nat
    BY <1>2 DEF TypeOK
  <2> HIDE DEF n
  <2> QED BY <1>5, <2>1, AssignOne DEF Heaps
<1>7. /\ growFailed' = growFailed /\ size' = size /\ over' = over
      /\ sizeMem' = sizeMem /\ swapped' = swapped /\ mapped' = mapped
  BY DEF VectorReturns, capacity
<1>8. TypeOK'
  <2>1. phase' \in Phases
    BY <1>5 DEF Phases
  <2> QED BY <1>1, <1>6, <1>7, <2>1 DEF TypeOK
<1>9. EphemeralInv'
  BY <1>1, <1>3, <1>5, <1>6, <1>7 DEF EphemeralInv
<1>10. SemispaceInv'
  BY <1>5, <1>6, <1>7 DEF SemispaceInv
<1>11. PendingInv'
  <2>1. ReturnToCaller("vector")
    BY DEF VectorReturns
  <2> QED BY <1>1, <1>5, <2>1, ReturnPending
<1> QED BY <1>8, <1>9, <1>10, <1>11

(* The Lisp function GC returns to the program or to the hook it was in.    *)
LEMMA GCReturnsStep ==
    ASSUME CapacityInv, GCReturns
    PROVE  CapacityInv'
<1> USE DEF CapacityInv
<1>1. /\ phase = "return" /\ Resumed \in {"running", "hooks"}
      /\ level' = level /\ budget' = budget /\ pending' \in Seq(Request)
  BY ReturnFacts DEF GCReturns
<1>2. /\ phase' = Resumed /\ used' = used /\ growFailed' = growFailed /\ size' = size
      /\ over' = over /\ sizeMem' = sizeMem /\ swapped' = swapped /\ mapped' = mapped
  BY DEF GCReturns, capacity
<1>3. TypeOK'
  <2>1. phase' \in Phases
    BY <1>1, <1>2 DEF Phases
  <2> QED BY <1>1, <1>2, <2>1 DEF TypeOK
<1>4. EphemeralInv'
  BY <1>1, <1>2 DEF EphemeralInv
<1>5. SemispaceInv'
  BY <1>1, <1>2 DEF SemispaceInv
<1>6. PendingInv'
  <2>1. ReturnToCaller("gc")
    BY DEF GCReturns
  <2> QED BY <1>2, <2>1, ReturnPending
<1> QED BY <1>3, <1>4, <1>5, <1>6

(* n cells written to L1 from cell `from' on stay within what was reserved, *)
(* wherever the memory of L1 is.                                            *)
LEMMA FillL1 ==
    ASSUME CapacityInv, NEW from \in Nat, NEW n \in Nat, Fill("L1", from, n)
    PROVE  /\ used' \in [Heaps -> Nat]
           /\ \A h \in {"E1", "E2", "L2"} : used'[h] = used[h]
           /\ phase' \in {Resumed, "fault"}
           /\ (phase' = Resumed /\ Resumed # "fault") => used'["L1"] = from + n
           /\ (phase' = "fault" /\ Resumed # "fault") => used' = used
           /\ (from + n <= L1Reserve /\ from + n <= L2Reserve) => phase' = Resumed
<1>1. used \in [Heaps -> Nat] /\ from + n \in Nat
  BY DEF CapacityInv, TypeOK
<1>2. PhysicalReserve("L1") \in {L1Reserve, L2Reserve}
  BY DEF PhysicalReserve, Reserve, Heaps
<1>3. CASE from + n <= PhysicalReserve("L1")
  <2>1. used' = [used EXCEPT !["L1"] = from + n] /\ phase' = Resumed
    BY <1>3 DEF Fill
  <2> QED BY <1>1, <2>1, AssignOne DEF Heaps
<1>4. CASE ~(from + n <= PhysicalReserve("L1"))
  <2>1. used' = used /\ phase' = "fault"
    BY <1>4 DEF Fill
  <2> QED BY <1>1, <1>2, <1>4, <2>1
<1> QED BY <1>3, <1>4

(* While no growth failed, the semispaces lie within both reservations.     *)
LEMMA SizeReserved ==
    ASSUME TypeOK, \A h \in Semispaces : sizeMem[h] <= Reserve[h],
           size["L1"] = size["L2"], \A h \in Semispaces : sizeMem[h] = size[h]
    PROVE  size["L1"] <= L1Reserve /\ size["L1"] <= L2Reserve
BY DEF Semispaces, Reserve, Heaps

(* AllocLargeVector after its collection: retry, grow, or give up.          *)
LEMMA LargeReturnsStep ==
    ASSUME CapacityInv, LargeReturns
    PROVE  CapacityInv'
<1> USE DEF CapacityInv
<1> DEFINE n == Caller.n
<1>1. /\ phase = "return" /\ Resumed \in {"running", "hooks"}
      /\ level' = level /\ budget' = budget /\ pending' \in Seq(Request)
      /\ Caller \in Request
  BY ReturnFacts DEF LargeReturns
<1>2. /\ n \in Nat /\ used["L1"] \in Nat /\ over["L1"] \in Nat /\ over["L2"] \in Nat
      /\ size["L1"] \in Nat /\ size["L2"] \in Nat /\ sizeMem["L1"] \in Nat
      /\ sizeMem["L2"] \in Nat /\ E1Size \in Nat /\ E2Size \in Nat
      /\ L1Reserve \in Nat /\ L2Reserve \in Nat
  BY <1>1, HeapFields, E2SizeType, SizesAssumption DEF TypeOK, Request
<1>3. ReturnToCaller("large")
  BY DEF LargeReturns
<1> HIDE DEF n
<1>4. CASE used["L1"] + n <= over["L1"] /\ Fill("L1", used["L1"], n)
           /\ UNCHANGED growFailed /\ UNCHANGED capacity
  <2>1. /\ growFailed' = growFailed /\ size' = size /\ over' = over
        /\ sizeMem' = sizeMem /\ swapped' = swapped /\ mapped' = mapped
    BY <1>4 DEF capacity
  <2>2. /\ used' \in [Heaps -> Nat] /\ phase' \in {Resumed, "fault"}
        /\ used'["E1"] = used["E1"] /\ used'["E2"] = used["E2"] /\ used'["L2"] = used["L2"]
        /\ (phase' = Resumed => used'["L1"] = used["L1"] + n)
        /\ ((used["L1"] + n <= L1Reserve /\ used["L1"] + n <= L2Reserve) => phase' = Resumed)
    BY <1>1, <1>2, <1>4, FillL1
  <2>3. ~growFailed => phase' = Resumed /\ used'["L1"] <= over'["L1"] /\ used'["L1"] <= size'["L1"]
    <3> SUFFICES ASSUME ~growFailed
                 PROVE  phase' = Resumed /\ used'["L1"] <= over'["L1"] /\ used'["L1"] <= size'["L1"]
      OBVIOUS
    <3>1. size["L1"] <= L1Reserve /\ size["L1"] <= L2Reserve
      BY SizeReserved DEF SemispaceInv
    <3>2. over["L1"] <= size["L1"]
      BY <1>2 DEF SemispaceInv, Semispaces
    <3>3. used["L1"] + n <= size["L1"]
      BY <1>2, <1>4, <3>2
    <3> QED BY <1>2, <1>4, <2>1, <2>2, <3>1, <3>3
  <2>4. TypeOK'
    <3>1. phase' \in Phases
      BY <1>1, <2>2 DEF Phases
    <3> QED BY <1>1, <2>1, <2>2, <3>1 DEF TypeOK
  <2>5. EphemeralInv'
    BY <1>1, <2>1, <2>2 DEF EphemeralInv
  <2>6. SemispaceInv'
    BY <1>1, <2>1, <2>2, <2>3 DEF SemispaceInv
  <2>7. PendingInv'
    BY <1>3, <2>2, ReturnPending
  <2> QED BY <2>4, <2>5, <2>6, <2>7
<1>5. CASE /\ used["L1"] + n > over["L1"]
           /\ GrowLispHeaps(n)
           /\ IF HeapsThatGrow(RoundToMeg(n)) = Semispaces /\ used["L1"] + n <= over'["L1"]
              THEN Fill("L1", used["L1"], n)
              ELSE UNCHANGED used /\ phase' = Resumed
  <2>1. /\ size' \in [Heaps -> Nat] /\ over' \in [Heaps -> Nat] /\ sizeMem' \in [Heaps -> Nat]
        /\ growFailed' \in BOOLEAN /\ swapped' = swapped /\ mapped' = mapped
        /\ size'["E1"] = size["E1"] /\ size'["E2"] = size["E2"] /\ over'["E2"] = over["E2"]
        /\ (growFailed => growFailed')
        /\ \A h \in Semispaces : sizeMem'[h] <= Reserve[h]
    BY <1>2, <1>5, GrowFacts DEF SemispaceInv
  <2>2. /\ used' \in [Heaps -> Nat] /\ phase' \in {Resumed, "fault"}
        /\ used'["E1"] = used["E1"] /\ used'["E2"] = used["E2"] /\ used'["L2"] = used["L2"]
        /\ \/ used'["L1"] = used["L1"] /\ phase' = Resumed
           \/ /\ used["L1"] + n <= over'["L1"]
              /\ (phase' = Resumed => used'["L1"] = used["L1"] + n)
              /\ ((used["L1"] + n <= L1Reserve /\ used["L1"] + n <= L2Reserve) => phase' = Resumed)
    <3>1. CASE used["L1"] + n <= over'["L1"] /\ Fill("L1", used["L1"], n)
      BY <1>1, <1>2, <3>1, FillL1
    <3>2. CASE used' = used /\ phase' = Resumed
      BY <3>2 DEF TypeOK
    <3> QED BY <1>5, <3>1, <3>2
  <2>3. ASSUME ~growFailed'
        PROVE  /\ size'["L1"] = size'["L2"] /\ over'["L1"] = over'["L2"]
               /\ \A h \in Semispaces : /\ sizeMem'[h] = size'[h]
                                        /\ size'[h] = over'[h] + E1Size + E2Size
               /\ used'["L1"] <= size'["L1"]
               /\ level > 0 => used'["L1"] <= over'["L1"]
               /\ phase' = Resumed
    <3>1. PICK b \in Nat : /\ b > n
                            /\ \A h \in Semispaces : /\ size'[h] = size[h] + b
                                                      /\ over'[h] = over[h] + b
                                                      /\ sizeMem'[h] = sizeMem[h] + b
      BY <1>2, <1>5, <2>3, GrowFacts
    <3>2. ~growFailed
      BY <2>1, <2>3
    <3>3. /\ size'["L1"] = size'["L2"] /\ over'["L1"] = over'["L2"]
          /\ \A h \in Semispaces : /\ sizeMem'[h] = size'[h]
                                   /\ size'[h] = over'[h] + E1Size + E2Size
      BY <1>2, <3>1, <3>2 DEF SemispaceInv, Semispaces
    <3>4. /\ size'["L1"] \in Nat /\ over'["L1"] \in Nat /\ over'["L1"] <= size'["L1"]
          /\ used["L1"] <= size'["L1"] /\ (level > 0 => used["L1"] <= over'["L1"])
      <4>1. /\ size'["L1"] = size["L1"] + b /\ over'["L1"] = over["L1"] + b
            /\ size'["L1"] = over'["L1"] + E1Size + E2Size
        BY <3>1, <3>3 DEF Semispaces
      <4>2. used["L1"] <= size["L1"] /\ (level > 0 => used["L1"] <= over["L1"])
        BY <1>1, <3>2 DEF SemispaceInv
      <4> QED BY <1>2, <3>1, <4>1, <4>2
    <3>5. size'["L1"] <= L1Reserve /\ size'["L1"] <= L2Reserve
      BY <2>1, <3>3 DEF Semispaces, Reserve, Heaps
    <3> QED BY <1>2, <2>2, <3>3, <3>4, <3>5
  <2>4. TypeOK'
    <3>1. phase' \in Phases
      BY <1>1, <2>2 DEF Phases
    <3> QED BY <1>1, <2>1, <2>2, <3>1 DEF TypeOK
  <2>5. EphemeralInv'
    BY <1>1, <2>1, <2>2 DEF EphemeralInv
  <2>6. SemispaceInv'
    BY <1>1, <2>1, <2>2, <2>3 DEF SemispaceInv
  <2>7. PendingInv'
    BY <1>3, <2>2, ReturnPending
  <2> QED BY <2>4, <2>5, <2>6, <2>7
<1> QED BY <1>4, <1>5 DEF LargeReturns, n

(* readHeap after its collection: grow for a large image, overwrite L1.     *)
LEMMA LoadReturnsStep ==
    ASSUME CapacityInv, LoadReturns
    PROVE  CapacityInv'
<1> USE DEF CapacityInv
<1> DEFINE n == Caller.n
<1>1. /\ phase = "return" /\ Resumed = "running"
      /\ level' = level /\ budget' = budget /\ pending' \in Seq(Request)
      /\ Caller \in Request
  BY ReturnFacts DEF LoadReturns
<1>2. /\ n \in Nat /\ over["L1"] \in Nat /\ over["L2"] \in Nat
      /\ size["L1"] \in Nat /\ size["L2"] \in Nat /\ sizeMem["L1"] \in Nat
      /\ sizeMem["L2"] \in Nat /\ E1Size \in Nat /\ E2Size \in Nat
      /\ L1Reserve \in Nat /\ L2Reserve \in Nat /\ Meg \in Nat
  BY <1>1, HeapFields, E2SizeType, SizesAssumption DEF TypeOK, Request
<1>3. ReturnToCaller("load") /\ Fill("L1", 0, n)
  BY DEF LoadReturns
<1>4. \/ /\ n >= sizeMem["L1"] - Meg
         /\ GrowLispHeaps(n - sizeMem["L1"] + Meg)
      \/ /\ n < sizeMem["L1"] - Meg
         /\ size' = size /\ over' = over /\ sizeMem' = sizeMem /\ swapped' = swapped
         /\ mapped' = mapped /\ growFailed' = growFailed
  BY <1>2 DEF LoadReturns, capacity
<1> HIDE DEF n
<1>5. /\ size' \in [Heaps -> Nat] /\ over' \in [Heaps -> Nat] /\ sizeMem' \in [Heaps -> Nat]
      /\ growFailed' \in BOOLEAN /\ swapped' = swapped /\ mapped' = mapped
      /\ size'["E1"] = size["E1"] /\ size'["E2"] = size["E2"] /\ over'["E2"] = over["E2"]
      /\ (growFailed => growFailed')
      /\ \A h \in Semispaces : sizeMem'[h] <= Reserve[h]
  <2>1. CASE n >= sizeMem["L1"] - Meg /\ GrowLispHeaps(n - sizeMem["L1"] + Meg)
    <3>1. n - sizeMem["L1"] + Meg \in Nat
      BY <1>2, <2>1
    <3> QED BY <2>1, <3>1, GrowFacts DEF SemispaceInv
  <2>2. CASE /\ size' = size /\ over' = over /\ sizeMem' = sizeMem /\ swapped' = swapped
             /\ mapped' = mapped /\ growFailed' = growFailed
    BY <2>2 DEF TypeOK, SemispaceInv
  <2> QED BY <1>4, <2>1, <2>2
<1>6. ASSUME ~growFailed'
      PROVE  /\ size'["L1"] = size'["L2"] /\ over'["L1"] = over'["L2"]
             /\ \A h \in Semispaces : /\ sizeMem'[h] = size'[h]
                                      /\ size'[h] = over'[h] + E1Size + E2Size
             /\ n <= size'["L1"]
  <2>0. ~growFailed
    BY <1>5, <1>6
  <2>1. CASE n >= sizeMem["L1"] - Meg /\ GrowLispHeaps(n - sizeMem["L1"] + Meg)
    <3>1. n - sizeMem["L1"] + Meg \in Nat
      BY <1>2, <2>1
    <3>2. PICK b \in Nat : /\ b > n - sizeMem["L1"] + Meg
                            /\ \A h \in Semispaces : /\ size'[h] = size[h] + b
                                                      /\ over'[h] = over[h] + b
                                                      /\ sizeMem'[h] = sizeMem[h] + b
      BY <1>6, <2>1, <3>1, GrowFacts
    <3> QED BY <1>2, <2>0, <3>2 DEF SemispaceInv, Semispaces
  <2>2. CASE n < sizeMem["L1"] - Meg /\ size' = size /\ over' = over /\ sizeMem' = sizeMem
    BY <1>2, <2>0, <2>2 DEF SemispaceInv, Semispaces
  <2> QED BY <1>4, <2>1, <2>2
<1>7. /\ used' \in [Heaps -> Nat] /\ phase' \in {"running", "fault"}
      /\ used'["E1"] = used["E1"] /\ used'["E2"] = used["E2"] /\ used'["L2"] = used["L2"]
      /\ (phase' = "running" => used'["L1"] = n)
      /\ ((n <= L1Reserve /\ n <= L2Reserve) => phase' = "running")
  <2>1. 0 \in Nat /\ 0 + n = n
    BY <1>2
  <2> QED BY <1>1, <1>2, <1>3, <2>1, FillL1
<1>8. ~growFailed' => phase' = "running"
  <2> SUFFICES ASSUME ~growFailed' PROVE phase' = "running"
    OBVIOUS
  <2>1. size'["L1"] <= L1Reserve /\ size'["L1"] <= L2Reserve
    BY <1>5, <1>6 DEF Semispaces, Reserve, Heaps
  <2>2. size'["L1"] \in Nat
    BY <1>5, HeapFields
  <2> QED BY <1>2, <1>6, <1>7, <2>1, <2>2
<1>9. TypeOK'
  <2>1. phase' \in Phases
    BY <1>7 DEF Phases
  <2> QED BY <1>1, <1>5, <1>7, <2>1 DEF TypeOK
<1>10. EphemeralInv'
  BY <1>1, <1>5, <1>7 DEF EphemeralInv
<1>11. SemispaceInv'
  BY <1>5, <1>6, <1>7, <1>8 DEF SemispaceInv
<1>12. PendingInv'
  BY <1>1, <1>3, <1>7, ReturnPending
<1> QED BY <1>9, <1>10, <1>11, <1>12

(* What initializeGarbageCollector computes satisfies the invariant.        *)
LEMMA InitCapacity ==
    ASSUME Init, ~Bootstrapping
    PROVE  CapacityInv
<1> USE SizesAssumption, RequestsAssumption, E2SizeType
<1>1. /\ size \in [Heaps -> Nat] /\ over \in [Heaps -> Nat] /\ used \in [Heaps -> Nat]
      /\ sizeMem \in [Heaps -> Nat]
  <2>1. LispSize \in Nat
    BY DEF LispSize
  <2>2. /\ size \in [Heaps -> Nat]
    BY <2>1 DEF Init, Heaps
  <2> QED BY <2>2 DEF Init, Heaps
<1>2. /\ size["E1"] = E1Size /\ size["E2"] = E1Size + E2Size
      /\ size["L1"] = LispSize /\ size["L2"] = LispSize
      /\ over["E2"] = E2Size /\ over["L1"] = LispHeapSize /\ over["L2"] = LispHeapSize
      /\ used["E1"] = 0 /\ used["E2"] = 0 /\ used["L1"] = 0 /\ used["L2"] = 0
      /\ sizeMem = size
  BY DEF Init, Heaps
<1>3. phase = "running" /\ pending = <<>> /\ ~growFailed /\ mapped = TRUE /\ swapped = FALSE
      /\ level = 0 /\ budget = 0 /\ growFailed = FALSE
  BY DEF Init
<1>4. TypeOK
  <2>1. phase \in Phases
    BY <1>3 DEF Phases
  <2>2. level \in 0..3 /\ budget \in Nat /\ pending \in Seq(Request)
    BY <1>3
  <2>3. mapped \in BOOLEAN /\ swapped \in BOOLEAN /\ growFailed \in BOOLEAN
    BY <1>3
  <2> QED BY <1>1, <2>1, <2>2, <2>3 DEF TypeOK
<1>5. EphemeralInv
  BY <1>2, <1>3 DEF EphemeralInv
<1>6. SemispaceInv
  BY <1>2, <1>3 DEF SemispaceInv, Semispaces, Reserve, Heaps, LispSize
<1>7. PendingInv
  BY <1>3 DEF PendingInv
<1> QED BY <1>4, <1>5, <1>6, <1>7 DEF CapacityInv

(* Whoever changes none of these variables keeps the invariant.             *)
LEMMA StutterCapacity ==
    ASSUME CapacityInv, UNCHANGED vars
    PROVE  CapacityInv'
BY DEF CapacityInv, vars, TypeOK, EphemeralInv, SemispaceInv, PendingInv

(* Every step of the allocator and of the collector keeps the capacity      *)
(* invariant, one action at a time.                                         *)
LEMMA NextCapacity ==
    ASSUME CapacityInv, ~Bootstrapping, HooksFit, [Next]_vars
    PROVE  CapacityInv'
<1>1. CASE AllocVector
  BY <1>1, SmallStep DEF AllocVector
<1>2. CASE LoadLocalHeap
  BY <1>2, SmallStep DEF LoadLocalHeap
<1>3. CASE \E n \in LargeSizes : AllocLargeVector(n)
  BY <1>3, LargeStep
<1>4. CASE \E lev \in 0..3 : LispGC(lev)
  BY <1>4, LispGCStep
<1>5. CASE \E n \in ImageSizes : ReadHeap(n)
  BY <1>5, ReadHeapStep
<1>6. CASE BootstrapCollect
  BY <1>6 DEF BootstrapCollect, CapacityInv, EphemeralInv
<1>7. CASE Wave1
  BY <1>7, Wave1Step
<1>8. CASE Wave2
  BY <1>8, Wave2Step
<1>9. CASE Wave3 \/ Wave4
  BY <1>9, Wave34Step
<1>10. CASE Finish
  BY <1>10, FinishStep
<1>11. CASE HooksDone
  BY <1>11, HooksDoneStep
<1>12. CASE VectorReturns
  BY <1>12, VectorReturnsStep
<1>13. CASE LargeReturns
  BY <1>13, LargeReturnsStep
<1>14. CASE GCReturns
  BY <1>14, GCReturnsStep
<1>15. CASE LoadReturns
  BY <1>15, LoadReturnsStep
<1>16. CASE UNCHANGED vars
  BY <1>16, StutterCapacity
<1> QED BY <1>1, <1>2, <1>3, <1>4, <1>5, <1>6, <1>7, <1>8, <1>9, <1>10, <1>11, <1>12,
           <1>13, <1>14, <1>15, <1>16 DEF Next, Collect

(* For all sizes of the heaps: if the hooks of the collector allocate no    *)
(* more than fits beside the largest small request, the capacity invariant  *)
(* holds in every state of a collecting kernel.                             *)
THEOREM Capacity ==
    ASSUME ~Bootstrapping, HooksFit
    PROVE  Spec => []CapacityInv
<1>1. Init => CapacityInv
  BY InitCapacity
<1>2. CapacityInv /\ [Next]_vars => CapacityInv'
  BY NextCapacity
<1> QED BY <1>1, <1>2, PTL DEF Spec

(* No copy of the collector and no allocation passes the end of a heap      *)
(* while growLispHeaps succeeds.                                            *)
THEOREM NeverOverruns ==
    ASSUME ~Bootstrapping, HooksFit
    PROVE  Spec => []NoOverrun
<1>1. CapacityInv => NoOverrun
  <2> SUFFICES ASSUME CapacityInv PROVE NoOverrun
    OBVIOUS
  <2>1. size["L2"] \in Nat /\ used["L2"] = 0
    BY HeapFields DEF CapacityInv, TypeOK, SemispaceInv
  <2> QED BY <2>1 DEF CapacityInv, EphemeralInv, SemispaceInv, NoOverrun, Semispaces
<1> QED BY <1>1, Capacity, PTL

(* E2 has room for all of E1 whenever a collection can begin.               *)
THEOREM E2HasHeadroom ==
    ASSUME ~Bootstrapping, HooksFit
    PROVE  Spec => []E2Headroom
<1>1. CapacityInv => E2Headroom
  <2> SUFFICES ASSUME CapacityInv PROVE E2Headroom
    OBVIOUS
  <2>1. used["E2"] \in Nat /\ E1Size \in Nat /\ E2Size \in Nat
    BY HeapFields, SizesAssumption, E2SizeType DEF CapacityInv, TypeOK
  <2> QED BY <2>1 DEF CapacityInv, EphemeralInv, E2Headroom
<1> QED BY <1>1, Capacity, PTL

(* After a collection that reached it, the permanent heap is no fuller than *)
(* its overflow mark.                                                       *)
THEOREM PermanentHeapHasHeadroom ==
    ASSUME ~Bootstrapping, HooksFit
    PROVE  Spec => []PermanentHeadroom
<1>1. CapacityInv => PermanentHeadroom
  BY DEF CapacityInv, SemispaceInv, PermanentHeadroom
<1> QED BY <1>1, Capacity, PTL

(* On a system whose VirtualFree keeps the reservation, the kernel faults   *)
(* only after a call of growLispHeaps failed.                               *)
THEOREM FaultsOnlyWhenFull ==
    ASSUME ~Bootstrapping, ~DecommitUnmaps, HooksFit
    PROVE  Spec => []NoFault
<1>1. CapacityInv => NoFault
  BY DEF CapacityInv, SemispaceInv, NoFault
<1> QED BY <1>1, Capacity, PTL

(***************************************************************************)
(* The bootstrapping kernel, whose garbageCollect grows E1 and returns.    *)
(***************************************************************************)

(* A request of _AllocVectorImpl or of LoadLocalHeap.                       *)
SmallRequest(n) == n \in SmallSizes \cup {LocalHeapCells}

(* garbageCollect grows E1 by a megabyte whatever was asked for; no request *)
(* that waits for it is larger (Meg is 131072 cells, a small vector ends    *)
(* below 16384 cells and LocalHeapSize is 2048).                            *)
SmallFitsMeg == \A n \in SmallSizes \cup {LocalHeapCells} : n <= Meg

(* The inductive invariant behind BootstrapMakesRoom: one operation at a    *)
(* time waits, and when it is resumed E1 has a megabyte of room.            *)
BootInv ==
    /\ TypeOK
    /\ phase \in {"running", "bootstrap", "return", "fault"}
    /\ phase = "running" => pending = <<>>
    /\ phase \in {"bootstrap", "return"} =>
          /\ Len(pending) = 1
          /\ pending[1].kind = "vector" => SmallRequest(pending[1].n)
    /\ ~growFailed =>
          /\ used["E1"] <= size["E1"]
          /\ phase = "return" => used["E1"] + Meg <= size["E1"]

(* The call of garbageCollect while the kernel bootstraps.                  *)
LEMMA BootCall ==
    ASSUME BootInv, Bootstrapping, NEW lev \in 0..3, NEW op \in Request,
           phase = "running", CallGarbageCollect(lev, op),
           op.kind = "vector" => SmallRequest(op.n)
    PROVE  BootInv'
<1> USE DEF BootInv
<1>1. /\ phase' = "bootstrap" /\ level' = lev /\ budget' = HookBudget
      /\ used' = used /\ growFailed' = growFailed /\ size' = size /\ over' = over
      /\ sizeMem' = sizeMem /\ swapped' = swapped /\ mapped' = mapped
      /\ pending' = Append(<<>>, op)
  BY RequestsAssumption DEF CallGarbageCollect, capacity
<1>2. pending' \in Seq(Request) /\ Len(pending') = 1 /\ pending'[1] = op
  BY <1>1
<1>3. TypeOK'
  BY <1>1, <1>2, RequestsAssumption DEF TypeOK, Phases
<1> QED BY <1>1, <1>2, <1>3

(* A block is taken from the end of a heap without a collection.            *)
LEMMA BootBump ==
    ASSUME BootInv, NEW n \in Nat, NEW h \in Heaps, phase = "running",
           Bump(h, n), Charge(n), h = "E1" => used["E1"] + n <= size["E1"],
           UNCHANGED <<phase, level, pending, growFailed>>, UNCHANGED capacity
    PROVE  BootInv'
<1> USE DEF BootInv
<1>1. used \in [Heaps -> Nat] /\ used[h] + n \in Nat /\ used' = [used EXCEPT ![h] = used[h] + n]
  BY DEF TypeOK, Bump
<1>2. used' \in [Heaps -> Nat] /\ used'[h] = used[h] + n
      /\ \A g \in Heaps : g # h => used'[g] = used[g]
  BY <1>1, AssignOne
<1>3. /\ size' = size /\ over' = over /\ sizeMem' = sizeMem /\ swapped' = swapped
      /\ mapped' = mapped /\ budget' = budget
  BY DEF capacity, Charge
<1>4. TypeOK'
  BY <1>2, <1>3 DEF TypeOK
<1>5. ~growFailed => used'["E1"] <= size["E1"]
  BY <1>2 DEF Heaps
<1> QED BY <1>3, <1>4, <1>5

(* growLispHeaps leaves E1 alone, and a write to L1 too.                    *)
LEMMA BootFillL1 ==
    ASSUME TypeOK, NEW from \in Nat, NEW n \in Nat, Fill("L1", from, n)
    PROVE  used' \in [Heaps -> Nat] /\ used'["E1"] = used["E1"] /\ phase' \in {Resumed, "fault"}
<1>1. used \in [Heaps -> Nat] /\ from + n \in Nat
  BY DEF TypeOK
<1>2. CASE used' = [used EXCEPT !["L1"] = from + n] /\ phase' = Resumed
  BY <1>1, <1>2, AssignOne DEF Heaps
<1>3. CASE used' = used /\ phase' = "fault"
  BY <1>1, <1>3
<1> QED BY <1>2, <1>3 DEF Fill

(* The only waiting operation is resumed.                                   *)
LEMMA BootReturn ==
    ASSUME BootInv, NEW kind, ReturnToCaller(kind)
    PROVE  /\ phase = "return" /\ Caller \in Request /\ Caller.kind = kind
           /\ level' = level /\ budget' = budget
           /\ pending' = <<>> /\ Resumed = "running"
           /\ kind = "vector" => SmallRequest(Caller.n)
<1>1. /\ phase = "return" /\ pending \in Seq(Request) /\ Len(pending) = 1
      /\ Caller.kind = kind /\ level' = level /\ budget' = budget
      /\ pending' = SubSeq(pending, 1, Len(pending) - 1)
      /\ pending[1].kind = "vector" => SmallRequest(pending[1].n)
  BY DEF ReturnToCaller, BootInv, TypeOK
<1>2. Caller = pending[1] /\ Resumed = "running"
  BY <1>1 DEF Caller, Resumed
<1>3. pending[1] \in Request
  <2>1. 1 \in 1..Len(pending)
    BY <1>1
  <2> QED BY <1>1, <2>1
<1>4. pending' = <<>>
  BY <1>1
<1> QED BY <1>1, <1>2, <1>3, <1>4

(* After the return of a request that does not touch E1.                    *)
LEMMA BootElsewhere ==
    ASSUME BootInv, NEW kind, ReturnToCaller(kind),
           used' \in [Heaps -> Nat], used'["E1"] = used["E1"],
           size' \in [Heaps -> Nat], size'["E1"] = size["E1"],
           over' \in [Heaps -> Nat], sizeMem' \in [Heaps -> Nat],
           growFailed' \in BOOLEAN, growFailed => growFailed',
           swapped' = swapped, mapped' = mapped, phase' \in {Resumed, "fault"}
    PROVE  BootInv'
<1>1. /\ phase' \in {"running", "fault"} /\ pending' = <<>>
      /\ level' = level /\ budget' = budget
  BY BootReturn
<1>2. TypeOK'
  <2>1. phase' \in Phases
    BY <1>1 DEF Phases
  <2>2. pending' \in Seq(Request)
    BY <1>1
  <2> QED BY <1>1, <2>1, <2>2 DEF BootInv, TypeOK
<1> QED BY <1>1, <1>2 DEF BootInv

(* A request that was small enough for E1.                                  *)
LEMMA BootSmall ==
    ASSUME BootInv, Bootstrapping, NEW n \in SmallSizes \cup {LocalHeapCells}, AllocSmall(n)
    PROVE  BootInv'
<1>0. n \in Nat /\ phase = "running" /\ "E1" \in Heaps
  <2>1. n \in 1..E1Size
    BY RequestsAssumption
  <2>2. phase = "running"
    BY DEF AllocSmall, MayRequest, BootInv
  <2> QED BY <2>1, <2>2 DEF Heaps
<1>1. CASE used["E1"] + n <= size["E1"] /\ Bump("E1", n) /\ Charge(n)
           /\ UNCHANGED <<phase, level, pending, growFailed>> /\ UNCHANGED capacity
  BY <1>0, <1>1, BootBump
<1>2. CASE CallGarbageCollect(0, [kind |-> "vector", n |-> n])
  <2> DEFINE op == [kind |-> "vector", n |-> n]
  <2>1. op \in Request /\ op.n = n
    BY <1>0 DEF Request, Kinds
  <2>2. CallGarbageCollect(0, op)
    BY <1>2
  <2> HIDE DEF op
  <2> QED BY <1>0, <2>1, <2>2, BootCall DEF SmallRequest
<1> QED BY <1>1, <1>2 DEF AllocSmall

(* A large vector, the Lisp function GC and an image.                       *)
LEMMA BootOthers ==
    ASSUME BootInv, Bootstrapping,
           \/ \E n \in LargeSizes : AllocLargeVector(n)
           \/ \E lev \in 0..3 : LispGC(lev)
           \/ \E n \in ImageSizes : ReadHeap(n)
    PROVE  BootInv'
<1>0. phase # "hooks" /\ "L1" \in Heaps
  BY DEF BootInv, Heaps
<1>1. ASSUME NEW n \in LargeSizes, AllocLargeVector(n)
      PROVE  BootInv'
  <2>0. n \in Nat /\ phase = "running"
    BY <1>0, <1>1, RequestsAssumption DEF AllocLargeVector, MayRequest
  <2>1. CASE /\ Bump("L1", n) /\ Charge(n)
             /\ UNCHANGED <<phase, level, pending, growFailed>> /\ UNCHANGED capacity
    BY <1>0, <2>0, <2>1, BootBump
  <2>2. CASE CallGarbageCollect(2, [kind |-> "large", n |-> n])
    <3> DEFINE op == [kind |-> "large", n |-> n]
    <3>1. op \in Request /\ op.kind = "large"
      BY <2>0 DEF Request, Kinds
    <3>2. CallGarbageCollect(2, op)
      BY <2>2
    <3> HIDE DEF op
    <3> QED BY <2>0, <3>1, <3>2, BootCall
  <2> QED BY <1>1, <2>1, <2>2 DEF AllocLargeVector
<1>2. ASSUME NEW lev \in 0..3, LispGC(lev)
      PROVE  BootInv'
  <2> DEFINE op == [kind |-> "gc", n |-> 1]
  <2>1. op \in Request /\ op.kind = "gc"
    BY DEF Request, Kinds
  <2>2. phase = "running" /\ CallGarbageCollect(lev, op)
    BY <1>0, <1>2 DEF LispGC, MayRequest
  <2> HIDE DEF op
  <2> QED BY <2>1, <2>2, BootCall
<1>3. ASSUME NEW n \in ImageSizes, ReadHeap(n)
      PROVE  BootInv'
  <2> DEFINE op == [kind |-> "load", n |-> n]
  <2>1. op \in Request /\ op.kind = "load"
    BY RequestsAssumption DEF Request, Kinds
  <2>2. phase = "running" /\ CallGarbageCollect(3, op)
    BY <1>3 DEF ReadHeap
  <2> HIDE DEF op
  <2> QED BY <2>1, <2>2, BootCall
<1> QED BY <1>1, <1>2, <1>3

(* garbageCollect while bootstrapping: E1 grows by one megabyte.            *)
LEMMA BootCollect ==
    ASSUME BootInv, BootstrapCollect
    PROVE  BootInv'
<1> USE DEF BootInv
<1> DEFINE gs == IF CanGrow("E1", Meg) THEN {"E1"} ELSE {}
<1>1. /\ phase = "bootstrap" /\ phase' = "return" /\ used' = used /\ swapped' = swapped
      /\ mapped' = mapped /\ level' = level /\ pending' = pending /\ budget' = budget
      /\ growFailed' = (growFailed \/ ~CanGrow("E1", Meg))
      /\ size' = GrownBy(size, gs, Meg) /\ over' = GrownBy(over, gs, Meg)
      /\ sizeMem' = GrownBy(sizeMem, gs, Meg)
  BY DEF BootstrapCollect, Grow
<1>2. Meg \in Nat
  BY SizesAssumption
<1>3. ~growFailed' => size'["E1"] = size["E1"] + Meg
  BY <1>1 DEF GrownBy, Heaps
<1> HIDE DEF gs
<1>4. size' \in [Heaps -> Nat] /\ over' \in [Heaps -> Nat] /\ sizeMem' \in [Heaps -> Nat]
  BY SMTT(30), <1>1, <1>2 DEF GrownBy, TypeOK
<1>5. TypeOK'
  <2>1. growFailed' \in BOOLEAN
    BY <1>1
  <2> QED BY <1>1, <1>4, <2>1 DEF TypeOK, Phases
<1>6. ~growFailed' => used'["E1"] + Meg <= size'["E1"] /\ used'["E1"] <= size'["E1"]
  BY <1>1, <1>2, <1>3, HeapFields DEF TypeOK
<1> QED BY <1>1, <1>5, <1>6

(* The waiting operation goes on: only a small block is taken from E1.      *)
LEMMA BootReturns ==
    ASSUME BootInv, SmallFitsMeg, VectorReturns \/ LargeReturns \/ GCReturns \/ LoadReturns
    PROVE  BootInv'
<1>0. TypeOK /\ Meg \in Nat /\ sizeMem["L1"] \in Nat /\ used["L1"] \in Nat
      /\ used["E1"] \in Nat /\ size["E1"] \in Nat
  BY SizesAssumption, HeapFields DEF BootInv, TypeOK
<1>1. CASE VectorReturns
  <2> DEFINE n == Caller.n
  <2>1. /\ phase = "return" /\ pending' = <<>> /\ level' = level /\ budget' = budget
        /\ Resumed = "running" /\ SmallRequest(n)
    BY <1>1, BootReturn DEF VectorReturns
  <2>2. n \in Nat /\ n <= Meg
    <3> HIDE DEF n
    <3>1. n \in 1..E1Size
      BY <2>1, RequestsAssumption DEF SmallRequest
    <3> QED BY <2>1, <3>1 DEF SmallRequest, SmallFitsMeg
  <2>3. Fill("E1", used["E1"], n) /\ growFailed' = growFailed /\ size' = size
        /\ over' = over /\ sizeMem' = sizeMem /\ swapped' = swapped /\ mapped' = mapped
    BY <1>1 DEF VectorReturns, capacity
  <2> HIDE DEF n
  <2>4. /\ used' \in [Heaps -> Nat] /\ phase' \in {"running", "fault"}
        /\ used'["E1"] \in {used["E1"], used["E1"] + n}
    <3>1. used \in [Heaps -> Nat] /\ used["E1"] + n \in Nat
      BY <1>0, <2>2 DEF TypeOK
    <3>2. CASE used' = [used EXCEPT !["E1"] = used["E1"] + n] /\ phase' = Resumed
      BY <2>1, <3>1, <3>2, AssignOne DEF Heaps
    <3>3. CASE used' = used /\ phase' = "fault"
      BY <3>1, <3>3
    <3> QED BY <2>3, <3>2, <3>3 DEF Fill
  <2>5. TypeOK'
    <3>1. phase' \in Phases
      BY <2>4 DEF Phases
    <3>2. pending' \in Seq(Request)
      BY <2>1
    <3> QED BY <1>0, <2>1, <2>3, <2>4, <3>1, <3>2 DEF TypeOK
  <2>6. ~growFailed' => used'["E1"] <= size'["E1"]
    BY <1>0, <2>1, <2>2, <2>3, <2>4 DEF BootInv
  <2> QED BY <2>1, <2>4, <2>5, <2>6 DEF BootInv
<1>2. CASE LargeReturns
  <2> DEFINE n == Caller.n
  <2>1. ReturnToCaller("large")
    BY <1>2 DEF LargeReturns
  <2>2. n \in Nat
    BY <2>1, BootReturn DEF Request
  <2>3. /\ used' \in [Heaps -> Nat] /\ used'["E1"] = used["E1"] /\ phase' \in {Resumed, "fault"}
    <3>1. \/ Fill("L1", used["L1"], n)
          \/ used' = used /\ phase' = Resumed
      BY <1>2 DEF LargeReturns
    <3> HIDE DEF n
    <3> QED BY <1>0, <2>2, <3>1, BootFillL1 DEF TypeOK
  <2>4. \/ GrowLispHeaps(n)
        \/ UNCHANGED growFailed /\ UNCHANGED capacity
    BY <1>2 DEF LargeReturns
  <2> HIDE DEF n
  <2>5. /\ size' \in [Heaps -> Nat] /\ over' \in [Heaps -> Nat] /\ sizeMem' \in [Heaps -> Nat]
        /\ growFailed' \in BOOLEAN /\ swapped' = swapped /\ mapped' = mapped
        /\ size'["E1"] = size["E1"] /\ (growFailed => growFailed')
    <3>1. CASE GrowLispHeaps(n)
      BY <1>0, <2>2, <3>1, GrowFacts
    <3>2. CASE UNCHANGED growFailed /\ UNCHANGED capacity
      BY <1>0, <3>2 DEF TypeOK, capacity
    <3> QED BY <2>4, <3>1, <3>2
  <2> QED BY <2>1, <2>3, <2>5, BootElsewhere
<1>3. CASE GCReturns
  <2>1. /\ ReturnToCaller("gc") /\ phase' = Resumed /\ used' = used /\ growFailed' = growFailed
        /\ size' = size /\ over' = over /\ sizeMem' = sizeMem /\ swapped' = swapped
        /\ mapped' = mapped
    BY <1>3 DEF GCReturns, capacity
  <2>2. /\ used' \in [Heaps -> Nat] /\ size' \in [Heaps -> Nat] /\ over' \in [Heaps -> Nat]
        /\ sizeMem' \in [Heaps -> Nat] /\ growFailed' \in BOOLEAN
    BY <1>0, <2>1 DEF TypeOK
  <2> QED BY <2>1, <2>2, BootElsewhere
<1>4. CASE LoadReturns
  <2> DEFINE n == Caller.n
             m == n - sizeMem["L1"] + Meg
  <2>1. ReturnToCaller("load")
    BY <1>4 DEF LoadReturns
  <2>2. n \in Nat
    BY <2>1, BootReturn DEF Request
  <2>3. Fill("L1", 0, n)
    BY <1>4 DEF LoadReturns
  <2>4. \/ n >= sizeMem["L1"] - Meg /\ GrowLispHeaps(m)
        \/ UNCHANGED growFailed /\ UNCHANGED capacity
    BY <1>4 DEF LoadReturns
  <2> HIDE DEF n
  <2>5. /\ used' \in [Heaps -> Nat] /\ used'["E1"] = used["E1"] /\ phase' \in {Resumed, "fault"}
    BY <1>0, <2>2, <2>3, BootFillL1
  <2>6. /\ size' \in [Heaps -> Nat] /\ over' \in [Heaps -> Nat] /\ sizeMem' \in [Heaps -> Nat]
        /\ growFailed' \in BOOLEAN /\ swapped' = swapped /\ mapped' = mapped
        /\ size'["E1"] = size["E1"] /\ (growFailed => growFailed')
    <3>1. CASE n >= sizeMem["L1"] - Meg /\ GrowLispHeaps(m)
      <4>1. m \in Nat
        BY <1>0, <2>2, <3>1
      <4> HIDE DEF m
      <4> QED BY <1>0, <3>1, <4>1, GrowFacts
    <3>2. CASE UNCHANGED growFailed /\ UNCHANGED capacity
      BY <1>0, <3>2 DEF TypeOK, capacity
    <3> QED BY <2>4, <3>1, <3>2
  <2> QED BY <2>1, <2>5, <2>6, BootElsewhere
<1> QED BY <1>1, <1>2, <1>3, <1>4

(* Every step of a bootstrapping kernel keeps the invariant.                *)
LEMMA BootNext ==
    ASSUME BootInv, Bootstrapping, SmallFitsMeg, [Next]_vars
    PROVE  BootInv'
<1>1. CASE AllocVector \/ LoadLocalHeap
  BY <1>1, BootSmall DEF AllocVector, LoadLocalHeap
<1>2. CASE \/ \E n \in LargeSizes : AllocLargeVector(n)
           \/ \E lev \in 0..3 : LispGC(lev)
           \/ \E n \in ImageSizes : ReadHeap(n)
  BY <1>2, BootOthers
<1>3. CASE BootstrapCollect
  BY <1>3, BootCollect
<1>4. CASE Wave1 \/ Wave2 \/ Wave3 \/ Wave4 \/ Finish \/ HooksDone
  BY <1>4 DEF Wave1, Wave2, Wave3, Wave4, Finish, HooksDone, BootInv
<1>5. CASE VectorReturns \/ LargeReturns \/ GCReturns \/ LoadReturns
  BY <1>5, BootReturns
<1>6. CASE UNCHANGED vars
  BY <1>6 DEF vars, BootInv, TypeOK
<1> QED BY <1>1, <1>2, <1>3, <1>4, <1>5, <1>6 DEF Next, Collect

(* While the kernel bootstraps, every block that is taken after a call of   *)
(* garbageCollect without comparing again fits in E1, for all sizes of the  *)
(* heaps, unless E1 could not be grown.                                     *)
THEOREM BootstrapRoom ==
    ASSUME Bootstrapping, SmallFitsMeg
    PROVE  Spec => []BootstrapMakesRoom
<1>1. Init => BootInv
  <2> SUFFICES ASSUME Init PROVE BootInv
    OBVIOUS
  <2> USE SizesAssumption, RequestsAssumption, E2SizeType
  <2>1. LispSize \in Nat
    BY DEF LispSize
  <2>2. size \in [Heaps -> Nat]
    BY <2>1 DEF Init, Heaps
  <2>3. /\ over \in [Heaps -> Nat] /\ used \in [Heaps -> Nat]
        /\ sizeMem \in [Heaps -> Nat]
    BY <2>2 DEF Init, Heaps
  <2>4. phase = "running" /\ pending = <<>> /\ used["E1"] = 0 /\ size["E1"] = E1Size
    BY DEF Init, Heaps
  <2>5. TypeOK
    <3>1. phase \in Phases /\ pending \in Seq(Request)
      BY <2>4 DEF Phases
    <3>2. level = 0 /\ budget = 0 /\ mapped = TRUE /\ swapped = FALSE /\ growFailed = FALSE
      BY DEF Init
    <3>3. level \in 0..3 /\ budget \in Nat
      BY <3>2
    <3> QED BY <2>2, <2>3, <3>1, <3>2, <3>3 DEF TypeOK
  <2> QED BY <2>4, <2>5 DEF BootInv
<1>2. BootInv /\ [Next]_vars => BootInv'
  BY BootNext
<1>3. BootInv => BootstrapMakesRoom
  BY DEF BootInv, BootstrapMakesRoom
<1> QED BY <1>1, <1>2, <1>3, PTL DEF Spec

(***************************************************************************)
(* Where a flush leaves the permanent heap.                                *)
(***************************************************************************)

(* The inductive invariant behind LowestAfterFlush: the second copy of a    *)
(* flush starts only from the semispace with the higher address.            *)
FlushInv ==
    /\ swapped \in BOOLEAN
    /\ level \in 0..3
    /\ phase = "wave4" => L1IsHigher(swapped)
    /\ LowestAfterFlush

(* A step that leaves swapped alone and ends in no state of the last copy   *)
(* keeps the invariant, and so does one that changes none of the three.     *)
LEMMA FlushElsewhere ==
    ASSUME FlushInv, swapped' = swapped, level' \in 0..3,
           phase' \notin {"wave4", "finish"}
    PROVE  FlushInv'
BY DEF FlushInv, LowestAfterFlush

(* A copy from L1 into L2 exchanges the two, or faults.                     *)
LEMMA SwapOrFault ==
    ASSUME NEW next, CopyAndSwap(next)
    PROVE  \/ phase' = "fault" /\ swapped' = swapped
           \/ phase' = next /\ swapped' = ~swapped
BY DEF CopyAndSwap, capacity

(* No collection calls or resumes a caller in the middle of a copy.         *)
LEMMA FlushNext ==
    ASSUME FlushInv, [Next]_vars
    PROVE  FlushInv'
<1>0. L1First \in BOOLEAN /\ swapped \in BOOLEAN /\ level \in 0..3
  BY RequestsAssumption DEF FlushInv
<1>1. ASSUME NEW n, AllocSmall(n)
      PROVE  FlushInv'
  <2>1. CASE UNCHANGED <<phase, level>> /\ UNCHANGED capacity
    BY <1>1, <2>1 DEF FlushInv, LowestAfterFlush, L1IsHigher, capacity
  <2>2. CASE CallGarbageCollect(0, [kind |-> "vector", n |-> n])
    BY <1>0, <2>2, FlushElsewhere DEF CallGarbageCollect, capacity
  <2> QED BY <1>1, <2>1, <2>2 DEF AllocSmall
<1>2. ASSUME NEW n, AllocLargeVector(n)
      PROVE  FlushInv'
  <2>1. CASE UNCHANGED <<phase, level>> /\ UNCHANGED capacity
    BY <2>1 DEF FlushInv, LowestAfterFlush, L1IsHigher, capacity
  <2>2. CASE CallGarbageCollect(2, [kind |-> "large", n |-> n])
    BY <1>0, <2>2, FlushElsewhere DEF CallGarbageCollect, capacity
  <2> QED BY <1>2, <2>1, <2>2 DEF AllocLargeVector
<1>3. ASSUME NEW lev \in 0..3, LispGC(lev)
      PROVE  FlushInv'
  BY <1>0, <1>3, FlushElsewhere DEF LispGC, CallGarbageCollect, capacity
<1>4. ASSUME NEW n, ReadHeap(n)
      PROVE  FlushInv'
  BY <1>0, <1>4, FlushElsewhere DEF ReadHeap, CallGarbageCollect, capacity
<1>5. CASE BootstrapCollect
  BY <1>0, <1>5, FlushElsewhere DEF BootstrapCollect
<1>6. CASE Wave1
  <2>1. PICK live \in 0..used["E1"] :
           CopyInto("E2", "E1", live,
                    IF used["E2"] + live > over["E2"] \/ level > 0
                    THEN "wave2" ELSE "finish")
    BY <1>6 DEF Wave1
  <2>2. level' = level /\ swapped' = swapped
    BY <1>6 DEF Wave1, capacity
  <2>3. phase' = "finish" => level = 0
    BY <1>0, <2>1 DEF CopyInto
  <2>4. phase' # "wave4"
    BY <2>1 DEF CopyInto
  <2> QED BY <1>0, <2>2, <2>3, <2>4 DEF FlushInv, LowestAfterFlush
<1>7. CASE Wave2
  <2>1. PICK live \in 0..used["E2"] :
           CopyInto("L1", "E2", live,
                    IF used["L1"] + live > over'["L1"] \/ level' > 1
                    THEN "wave3" ELSE "finish")
    BY <1>7 DEF Wave2
  <2>2. level' \in 1..3 /\ swapped' = swapped
    BY <1>0, <1>7 DEF Wave2, GrowLispHeaps, capacity
  <2>3. phase' = "finish" => level' <= 1
    BY <2>1, <2>2 DEF CopyInto
  <2>4. phase' # "wave4"
    BY <2>1 DEF CopyInto
  <2> QED BY <2>2, <2>3, <2>4 DEF FlushInv, LowestAfterFlush
<1>8. CASE Wave3
  <2> DEFINE next == IF L1IsHigher(~swapped) /\ level > 2 THEN "wave4" ELSE "finish"
  <2>1. level' = IF level = 1 THEN 2 ELSE level
    BY <1>8 DEF Wave3
  <2>2. \/ phase' = "fault" /\ swapped' = swapped
        \/ phase' = next /\ swapped' = ~swapped
    BY <1>8, SwapOrFault DEF Wave3
  <2>3. CASE phase' = "fault" /\ swapped' = swapped
    BY <1>0, <2>1, <2>3, FlushElsewhere
  <2>4. CASE phase' = next /\ swapped' = ~swapped
    <3>1. phase' = "wave4" => L1IsHigher(swapped')
      BY <2>4
    <3>2. phase' = "finish" /\ level' = 3 => ~L1IsHigher(swapped')
      BY <1>0, <2>1, <2>4
    <3> QED BY <1>0, <2>1, <2>4, <3>1, <3>2 DEF FlushInv, LowestAfterFlush, L1IsHigher
  <2> QED BY <2>2, <2>3, <2>4
<1>9. CASE Wave4
  <2>1. level' = level /\ L1IsHigher(swapped)
    BY <1>9 DEF Wave4, FlushInv
  <2>2. \/ phase' = "fault" /\ swapped' = swapped
        \/ phase' = "finish" /\ swapped' = ~swapped
    BY <1>9, SwapOrFault DEF Wave4
  <2>3. CASE phase' = "fault" /\ swapped' = swapped
    BY <1>0, <2>1, <2>3, FlushElsewhere
  <2>4. CASE phase' = "finish" /\ swapped' = ~swapped
    <3>1. ~L1IsHigher(swapped')
      BY <1>0, <2>1, <2>4 DEF L1IsHigher
    <3>2. level' \in 0..3 /\ swapped' \in BOOLEAN
      BY <1>0, <2>1, <2>4
    <3> QED BY <2>4, <3>1, <3>2 DEF FlushInv, LowestAfterFlush
  <2> QED BY <2>2, <2>3, <2>4
<1>10. CASE Finish \/ HooksDone
  BY <1>0, <1>10, FlushElsewhere DEF Finish, HooksDone, GrowLispHeaps, capacity
<1>11. CASE VectorReturns \/ LargeReturns \/ GCReturns \/ LoadReturns
  <2>1. phase' \in {"running", "hooks", "fault"}
    BY <1>11 DEF VectorReturns, LargeReturns, GCReturns, LoadReturns, Fill, Resumed
  <2>2. level' = level /\ swapped' = swapped
    BY <1>11 DEF VectorReturns, LargeReturns, GCReturns, LoadReturns, ReturnToCaller,
                 GrowLispHeaps, capacity
  <2> QED BY <1>0, <2>1, <2>2, FlushElsewhere
<1>12. CASE UNCHANGED vars
  BY <1>12 DEF vars, FlushInv, LowestAfterFlush, L1IsHigher
<1> QED BY <1>1, <1>2, <1>3, <1>4, <1>5, <1>6, <1>7, <1>8, <1>9, <1>10, <1>11, <1>12
        DEF Next, Collect, AllocVector, LoadLocalHeap

(* A collection of level 3 leaves the permanent heap in the semispace with  *)
(* the lower address, whichever one that is, for all sizes of the heaps and *)
(* however the operations nest.                                             *)
THEOREM FlushLeavesLowest == Spec => []LowestAfterFlush
<1>1. Init => FlushInv
  <2>1. Init => swapped = FALSE /\ level = 0 /\ phase = "running"
    BY DEF Init
  <2>2. swapped = FALSE => swapped \in BOOLEAN
    OBVIOUS
  <2>3. level = 0 => level \in 0..3
    OBVIOUS
  <2> QED BY <2>1, <2>2, <2>3 DEF FlushInv, LowestAfterFlush
<1>2. FlushInv /\ [Next]_vars => FlushInv'
  BY FlushNext
<1>3. FlushInv => LowestAfterFlush
  BY DEF FlushInv
<1> QED BY <1>1, <1>2, <1>3, PTL DEF Spec
=============================================================================
