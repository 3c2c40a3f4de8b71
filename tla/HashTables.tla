----------------------------- MODULE HashTables -----------------------------
(***************************************************************************)
(* A hash table whose keys are hashed by their addresses (EQ and EQL       *)
(* tables of Sys/hash-table.lisp) and a collector that moves the keys in   *)
(* the middle of an operation.  An entry remembers the address its key had *)
(* when it was added; the table remembers which generations it depends on  *)
(* and which of them were collected since the last rehash.                 *)
(*                                                                         *)
(* Operations run under the lock of the table, one at a time.  A hash code *)
(* is an address here; keys without an address (fixnums) need none of      *)
(* this and are left out.                                                  *)
(***************************************************************************)
EXTENDS Integers, Sequences, FiniteSets, SequencesExt

CONSTANTS
    Keys,       \* heap objects used as keys
    Values,
    NoValue,    \* the default that GETHASH returns, and no value of a key
    Addresses,  \* addresses of the keys: 0 .. n
    FirstSize,  \* buckets of a new table
    MaxSize,    \* bound: a table that should be larger is as large as this
    GCPoints    \* when collections happen

(* idle: between two operations.  The others are in the middle of one.      *)
(* test: adding an entry first asks whether the table is more than half     *)
(* full, which allocates a ratio, and the key of the entry is moved there.  *)
(* address: reading an address of 2^28 or more allocates a bignum before,   *)
(* and the key is moved there, after its index was taken.  grow, rehash:    *)
(* what is allocated while entries are moved into the larger table, or are  *)
(* added again by a rehash.  alloc: whatever else an operation allocates.   *)
(* other: anywhere, by another thread.                                      *)
AllGCPoints == {"idle", "test", "address", "alloc", "grow", "rehash", "other"}

ASSUME TableAssumption ==
    /\ Addresses \subseteq Nat
    /\ FirstSize \in Nat \ {0} /\ MaxSize \in Nat /\ FirstSize <= MaxSize
    /\ GCPoints \subseteq AllGCPoints
    /\ NoValue \notin Values

VARIABLES
    gen,        \* generation of each key: 0 and 1 ephemeral, 2 permanent
    addr,       \* its address
    table,      \* buckets: sequences of entries
    size,       \* hash-table-size
    count,      \* hash-table-count
    needed,     \* hash-table-rehash-needed
    newest,     \* hash-table-newest-generation, 3 when there is none
    moved,      \* generations n with gc-n-level < heap_n_gc_id
    stack,      \* what the operation in progress has to do, innermost last
    answer      \* what GETHASH returned, until the next call

heap == <<gen, addr>>
vars == <<gen, addr, table, size, count, needed, newest, moved, stack, answer>>

Entry == [key : Keys, stored : Addresses, val : Values]
Generations == 0 .. 2
Minimum(a, b) == IF a < b THEN a ELSE b

Init ==
    /\ gen = [k \in Keys |-> 0]
    /\ addr \in {f \in [Keys -> Addresses] : \A j, k \in Keys : f[j] = f[k] => j = k}
    /\ table = [i \in 0 .. FirstSize - 1 |-> <<>>]
    /\ size = FirstSize
    /\ count = 0
    /\ needed = FALSE
    /\ newest = 3
    /\ moved = {}
    /\ stack = <<>>
    /\ answer = NoValue

Idle == stack = <<>>
Depth == Len(stack)
Top == stack[Depth]
At(op) == ~Idle /\ Top.op = op
Return == stack' = SubSeq(stack, 1, Depth - 1)
Goto(frame) == stack' = [stack EXCEPT ![Depth] = frame]
Call(frame, self) == stack' = Append([stack EXCEPT ![Depth] = self], frame)

(***************************************************************************)
(* The collector.                                                          *)
(***************************************************************************)
(* A collection of level l moves every key of the generations up to l.  Old *)
(* addresses of the highest generation can come back at level 3, which      *)
(* copies it twice.  A table that is moved or scanned is marked: always in  *)
(* a full collection, sometimes in the others.                              *)
Moves(l) == {k \in Keys : gen[k] <= l}

(* Which kind of point a collection of level l would come at.               *)
Lists == {"rehash", "growing"}
Within(op) == \E i \in DOMAIN stack : stack[i].op = op
Allocating == At("add") \/ At("array") \/ At("address") \/ At("push")
GCPoint(l) ==
    IF Idle THEN {"idle"}
    ELSE {"other"} \cup
         IF ~Allocating THEN {}
         ELSE IF At("address") /\ Top.key \in Moves(l) THEN {"address"}
         ELSE IF Within("rehash") THEN {"rehash"}
         ELSE IF Within("growing") THEN {"grow"}
         ELSE IF At("add") /\ Top.key \in Moves(l) THEN {"test"}
         ELSE {"alloc"}

Collect(l) ==
    /\ GCPoint(l) \cap GCPoints # {}
    /\ gen' = [k \in Keys |-> IF k \notin Moves(l) THEN gen[k] ELSE IF l = 0 THEN 1 ELSE 2]
    /\ addr' \in {f \in [Keys -> Addresses] :
                    /\ \A j, k \in Keys : f[j] = f[k] => j = k
                    /\ \A k \in Keys \ Moves(l) : f[k] = addr[k]
                    /\ \A k \in Moves(l) : f[k] # addr[k] \/ gen[k] = 2}
    /\ needed' \in (IF l = 2 THEN {TRUE} ELSE {needed, TRUE})
    /\ moved' = moved \cup 0 .. l
    /\ UNCHANGED <<table, size, count, newest, stack, answer>>

(***************************************************************************)
(* The table.                                                              *)
(***************************************************************************)
Index(k) == addr[k] % size

(* Where the entry of a key is in a bucket: 0 if there is none.             *)
Find(k, bucket) == SelectInSeq(bucket, LAMBDA e : e.key = k)

(* Fault variant: only the mark of the collector is looked at. *)
NeedRehashMarked == needed

NeedRehash == needed \/ newest \in moved

(***************************************************************************)
(* Operations: what the caller asks for is put under the test for a rehash *)
(* that comes first; (SETF GETHASH) repeats the test afterwards.           *)
(***************************************************************************)
Ask == \E k \in Keys :
    /\ Idle
    /\ \/ stack' = <<[op |-> "get", key |-> k], [op |-> "check"]>>
       \/ stack' = <<[op |-> "rem", key |-> k], [op |-> "check"]>>
       \/ \E v \in Values :
             stack' = <<[op |-> "check"], [op |-> "add", key |-> k, val |-> v], [op |-> "check"]>>
       \/ stack' = <<[op |-> "clear"]>>
    /\ answer' = NoValue
    /\ UNCHANGED <<heap, table, size, count, needed, newest, moved>>

(***************************************************************************)
(* Rehash.                                                                 *)
(***************************************************************************)
Stale(e) == e.stored # addr[e.key]
FirstStale(i) == SelectInSeq(table[i], Stale)
StaleBuckets == {i \in DOMAIN table : FirstStale(i) # 0}
Buckets == [i \in 1 .. size |-> table[i - 1]]
GivenUp == [i \in 1 .. size |-> IF size - i \in StaleBuckets THEN table[size - i] ELSE <<>>]
Newest(ks) == CHOOSE g \in 0 .. 3 :
    /\ g \in {gen[k] : k \in ks} \cup {3}
    /\ \A k \in ks : g <= gen[k]

(* Fault variant: the generation of a key that stays is not looked at. *)
ScannedNone(i) == {}

(* The keys whose generation is looked at before a bucket is given up.      *)
Scanned(i) ==
    LET n == IF i \in StaleBuckets THEN FirstStale(i) ELSE Len(table[i])
    IN  {table[i][j].key : j \in 1 .. n}

(* Each bucket with a stale entry goes as a whole to the front of the list  *)
(* of entries that will be added again.  The count is not reduced.          *)
StartRehash ==
    /\ Goto([op |-> "rehash", list |-> FlattenSeq(GivenUp)])
    /\ table' = [i \in DOMAIN table |-> IF i \in StaleBuckets THEN <<>> ELSE table[i]]
    /\ newest' = Newest(UNION {Scanned(i) : i \in DOMAIN table})
    /\ needed' = FALSE
    /\ UNCHANGED <<heap, size, count, moved, answer>>

Check ==
    /\ At("check")
    /\ \/ NeedRehash /\ StartRehash
       \/ /\ ~NeedRehash
          /\ Return
          /\ UNCHANGED <<heap, table, size, count, needed, newest, moved, answer>>

(* Fault variant: the list does not advance. *)
AddNextAgain == \E op \in Lists :
    /\ At(op) /\ Top.list # <<>>
    /\ LET e == Head(Top.list)
       IN  Call([op |-> "add", key |-> e.key, val |-> e.val], Top)
    /\ UNCHANGED <<heap, table, size, count, needed, newest, moved, answer>>

(* The next entry of a list, of a rehash or of a growth, is added again.    *)
AddNext == \E op \in Lists :
    /\ At(op) /\ Top.list # <<>>
    /\ LET e == Head(Top.list)
       IN  Call([op |-> "add", key |-> e.key, val |-> e.val],
                [op |-> op, list |-> Tail(Top.list)])
    /\ UNCHANGED <<heap, table, size, count, needed, newest, moved, answer>>

(* The end of a rehash: every generation counts as seen now, whatever was   *)
(* collected in the meantime.                                               *)
EndRehash ==
    /\ At("rehash") /\ Top.list = <<>>
    /\ needed' = FALSE
    /\ moved' = {}
    /\ Return
    /\ UNCHANGED <<heap, table, size, count, newest, answer>>

(***************************************************************************)
(* HASH-TABLE-ADD-ENTRY.                                                   *)
(***************************************************************************)
(* Does the table have to grow first?  The question is one of count and     *)
(* size / 2, which is a ratio that has to be allocated: the key may be      *)
(* moved before its index is taken in Search.                               *)
Add ==
    /\ At("add")
    /\ Goto([Top EXCEPT !.op = IF 2 * count > size THEN "array" ELSE "index"])
    /\ UNCHANGED <<heap, table, size, count, needed, newest, moved, answer>>

Larger == IF 2 * size > MaxSize THEN MaxSize ELSE 2 * size

(* The larger table has been made: it replaces the old one, whose entries   *)
(* are added to it before the one that was to be added.                     *)
Grow ==
    /\ At("array")
    /\ size' = Larger
    /\ table' = [i \in 0 .. Larger - 1 |-> <<>>]
    /\ count' = 0
    /\ Call([op |-> "growing", list |-> FlattenSeq(Buckets)],
            [Top EXCEPT !.op = "index"])
    /\ UNCHANGED <<heap, needed, newest, moved, answer>>

(* Fault variant: the count is reset after the entries were added. *)
EndGrowResets ==
    /\ At("growing") /\ Top.list = <<>>
    /\ count' = 0
    /\ Return
    /\ UNCHANGED <<heap, table, size, needed, newest, moved, answer>>

EndGrow ==
    /\ At("growing") /\ Top.list = <<>>
    /\ Return
    /\ UNCHANGED <<heap, table, size, count, needed, newest, moved, answer>>

(* The bucket is searched; a value that is found is replaced, otherwise the *)
(* entry is counted and goes on to be made.                                 *)
Search ==
    /\ At("index")
    /\ newest' = Minimum(newest, gen[Top.key])
    /\ LET i == Index(Top.key)
           j == Find(Top.key, table[i])
       IN  IF j # 0
           THEN /\ table' = [table EXCEPT ![i][j].val = Top.val]
                /\ Return
                /\ UNCHANGED count
           ELSE /\ count' = count + 1
                /\ Goto([op |-> "address", key |-> Top.key, val |-> Top.val, index |-> i])
                /\ UNCHANGED table
    /\ UNCHANGED <<heap, size, needed, moved, answer>>

(* The address of the key is read, by way of a bignum that is allocated     *)
(* before if it is a high one; then conses are allocated.                   *)
ReadAddress ==
    /\ At("address")
    /\ Goto([op |-> "push", key |-> Top.key, val |-> Top.val, index |-> Top.index,
             stored |-> addr[Top.key]])
    /\ UNCHANGED <<heap, table, size, count, needed, newest, moved, answer>>

(* Fault variant: the address is read after the conses are allocated. *)
PushLateAddress ==
    /\ At("push")
    /\ table' = [table EXCEPT ![Top.index] =
                     <<[key |-> Top.key, stored |-> addr[Top.key], val |-> Top.val]>> \o @]
    /\ Return
    /\ UNCHANGED <<heap, size, count, needed, newest, moved, answer>>

Push ==
    /\ At("push")
    /\ table' = [table EXCEPT ![Top.index] =
                     <<[key |-> Top.key, stored |-> Top.stored, val |-> Top.val]>> \o @]
    /\ Return
    /\ UNCHANGED <<heap, size, count, needed, newest, moved, answer>>

(***************************************************************************)
(* The other operations.                                                   *)
(***************************************************************************)
GetHash ==
    /\ At("get")
    /\ LET bucket == table[Index(Top.key)]
           j == Find(Top.key, bucket)
       IN  answer' = IF j # 0 THEN bucket[j].val ELSE NoValue
    /\ Return
    /\ UNCHANGED <<heap, table, size, count, needed, newest, moved>>

(* The loop that looks for a key in the rest of its bucket tests a variable *)
(* that it does not change: without the key it goes on for ever, except in  *)
(* an empty bucket.                                                         *)
RemHash ==
    /\ At("rem")
    /\ LET i == Index(Top.key)
           j == Find(Top.key, table[i])
       IN  \/ /\ j # 0
              /\ table' = [table EXCEPT ![i] = RemoveAt(@, j)]
              /\ count' = count - 1
              /\ Return
           \/ /\ table[i] = <<>>
              /\ Return
              /\ UNCHANGED <<table, count>>
           \/ /\ j = 0 /\ table[i] # <<>>
              /\ Goto([Top EXCEPT !.op = "looping"])
              /\ UNCHANGED <<table, count>>
    /\ UNCHANGED <<heap, size, needed, newest, moved, answer>>

Loop == At("looping") /\ UNCHANGED vars

ClrHash ==
    /\ At("clear")
    /\ table' = [i \in DOMAIN table |-> <<>>]
    /\ count' = 0
    /\ Return
    /\ UNCHANGED <<heap, size, needed, newest, moved, answer>>

Step ==
    \/ Check \/ AddNext \/ EndRehash
    \/ Add \/ Grow \/ EndGrow \/ Search \/ ReadAddress \/ Push
    \/ GetHash \/ RemHash \/ Loop \/ ClrHash

Next == Ask \/ Step \/ \E l \in Generations : Collect(l)

Spec == Init /\ [][Next]_vars /\ WF_vars(Step)

(***************************************************************************)
(* Properties.                                                             *)
(***************************************************************************)
Frame ==
    [op : {"check", "clear"}]
    \cup [op : {"get", "rem", "looping"}, key : Keys]
    \cup [op : {"add", "array", "index"}, key : Keys, val : Values]
    \cup [op : {"address"}, key : Keys, val : Values, index : 0 .. MaxSize - 1]
    \cup [op : {"push"}, key : Keys, val : Values, index : 0 .. MaxSize - 1, stored : Addresses]
    \cup [op : Lists, list : Seq(Entry)]

(* Every variable has its type; the table has as many buckets as it says,   *)
(* and the count is never negative.                                         *)
TypeOK ==
    /\ gen \in [Keys -> Generations] /\ addr \in [Keys -> Addresses]
    /\ size \in FirstSize .. MaxSize
    /\ table \in [0 .. size - 1 -> Seq(Entry)]
    /\ count \in Nat /\ needed \in BOOLEAN
    /\ newest \in 0 .. 3 /\ moved \subseteq Generations
    /\ stack \in Seq(Frame)
    /\ answer \in Values \cup {NoValue}

InTable == UNION {{<<i, j>> : j \in DOMAIN table[i]} : i \in DOMAIN table}
Misplaced == {p \in InTable : Index(table[p[1]][p[2]].key) # p[1]}

(* An entry that is in another bucket than the one its key hashes to now is *)
(* found again: the table knows that it needs a rehash, "if a collection    *)
(* has occurred since the hash-table was last accessed".                    *)
StaleKnown == Idle /\ Misplaced # {} => NeedRehash

(* Such an entry is recognized by the rehash: the address it remembers is   *)
(* not that of its key, or its bucket goes with one that is.                *)
StaleRecognized == \A p \in Misplaced : Stale(table[p[1]][p[2]])

(* The count never falls below the number of entries: the table grows as    *)
(* soon as it is more than half full.                                       *)
CountCovers == Cardinality(InTable) <= count

(* An operation ends, whatever is collected while it runs, except a removal *)
(* that loops.                                                              *)
OperationEnds == ~Idle ~> Idle \/ At("looping")

(* The map: the entries in the table and those on their way back into it,   *)
(* on a list or taken from one, each at its place.                          *)
Adding == {"add", "array", "index", "address", "push"}
Borrowed(i) == i > 1 /\ stack[i - 1].op \in Lists
Listing == {i \in DOMAIN stack : stack[i].op \in Lists}
Places ==
    {<<"table", p[1], p[2]>> : p \in InTable}
    \cup (UNION {{<<"list", i, j>> : j \in DOMAIN stack[i].list} : i \in Listing})
    \cup {<<"held", i, 0>> : i \in {n \in DOMAIN stack : Borrowed(n) /\ stack[n].op \in Adding}}
ItemAt(p) ==
    IF p[1] = "table" THEN table[p[2]][p[3]]
    ELSE IF p[1] = "list" THEN stack[p[2]].list[p[3]]
    ELSE stack[p[2]]
Contents == {<<ItemAt(p).key, ItemAt(p).val>> : p \in Places}
MapOf == [k \in {c[1] : c \in Contents} |-> (CHOOSE c \in Contents : c[1] = k)[2]]

(* The call in progress that has not had its effect.                        *)
Own == {i \in DOMAIN stack : ~Borrowed(i) /\ stack[i].op \notin Lists \cup {"check"}}
RequestOf(f) ==
    IF f.op \in {"get", "clear"} THEN f
    ELSE IF f.op \in {"rem", "looping"} THEN [op |-> "rem", key |-> f.key]
    ELSE [op |-> "set", key |-> f.key, val |-> f.val]
Request ==
    IF Own = {} THEN [op |-> "none"] ELSE RequestOf(stack[CHOOSE i \in Own : TRUE])

Map == INSTANCE FiniteMap WITH map <- MapOf, answer <- answer, request <- Request

(* Whatever the collector moves, and whenever it does, the table is a       *)
(* finite map: no entry is lost, doubled or given back its old value.       *)
ImplementsMap == Map!Spec
=============================================================================
