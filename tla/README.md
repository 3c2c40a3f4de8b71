# Corman Lisp: a TLA+ model of the kernel

The repository is Corman Lisp 3: a kernel in C++ (`CormanLispServer`, a COM
server in a DLL, with its x86 compiler and its garbage collector), a Lisp
library of some 69,000 lines (`Sys`), an IDE and several small hosts.  This
directory holds TLA+ models of the parts of the system whose correctness is
hard to see and hard to test, the TLC configurations that check them, and
theorems about them checked by TLAPS: the memory of the kernel, its threads and
its collector, hash tables keyed by address, the compiled code of non-local
exits, the buffers between the IDE and Lisp, and integer arithmetic.

All paths below are relative to `src/`; `Gc.cpp` etc. are in
`CormanLispServer/src/`.

> **What runs at this commit.**  `g_lisp_bootstrapping` is initialised to `true`
> (`CormanLispServer.cpp:188`), set to `true` again at line 233, and never cleared.
> `garbageCollect` therefore always takes the branch that grows the first
> ephemeral heap and returns (`Gc.cpp:1355-1370`).  The models have both: with
> `Bootstrapping = TRUE` the branch that is taken today, with `FALSE` the
> collector that the rest of the kernel is written for.

## 1. Inventory

| Component | State it keeps | Operations | Hard behaviours | Correct when |
|---|---|---|---|---|
| Heap sizes (`Gc.cpp` 127-571, 776-1143, 1335-1643) | `current`, `end`, `overflow`, `sizeMem`, `reserve` of `EphemeralHeap1/2`, `LispHeap1/2` | `AllocVector`, `AllocLargeVector`, `LoadLocalHeap`, `gc`, `readHeap`, the waves of `garbageCollect`, `growLispHeaps`, `swapLispHeaps` | copies that check no limit; growth that fails halfway; collections started by the hooks of a collection | no copy or allocation leaves its heap; every request is answered |
| Copying collector (`Gc.cpp` 1335-2896, 4318-4540) | objects and their pointers, page protection, `resurrectedObjects`, `FINALIZATION_REGISTRY`, `FINALIZATION_PENDING`, weak pointers, GC registry | allocation, stores, `garbageCollect` with its four waves, hooks, finalizers | pointers from old to young objects; compiled code and protected pages that are not scanned; finalizers that allocate, store and collect | no pointer the program uses is dangling; unreachable objects go; a finalizer runs once |
| Threads (`LispThreadQueue.cpp`, `CormanLispServer.cpp` 680-1090) | `ThreadList`, `ThreadRecord`s, `NumLispThreads`, `GCCriticalSection`, `TQCriticalSection`, suspend counts | create, run, exit, bless, unbless, abort, terminate; stopping and resuming the other threads; save and load an image | every interleaving; a thread suspended with a lock; threads that appear or go during a collection | the world is stopped while objects move, and it goes on afterwards |
| Hash tables (`Sys/hash-table.lisp`) | buckets, `rehash-needed`, the generations and collection numbers of the last rehash | `gethash`, `(setf gethash)`, `remhash`, rehash, growth | a collection moves the keys of an address-hashed table in the middle of an operation | an entry that was added is found |
| COM server (`CoCormanLisp.cpp`, `CoConnectionPoint.cpp`, `CoEnum*.cpp`) | reference counts, connection list, cookies | `Advise`, `Unadvise`, enumerators | callbacks that disconnect; enumeration during change | cookies name live connections; counts reach zero once |
| Control at run time (`Lisp.cpp` 2560-2760, `Lispfunc.cpp`) | `COMPILER_RUNTIME` (catchers and special bindings), binding lists, jump buffers | `%PUSH_CATCHER`, `Setjmp`, `popSpecialBindings`, `Throw_Exception` | throws through bindings and cleanups, which may throw themselves | what was established is undone once, on every path |
| Symbols (`Lisp.cpp`) | symbol table, jump table | intern, `createSymbolTableEntry` | table growth by several threads | one index per symbol |
| Image files (`Gc.cpp` 2940-3966) | the heap written and read back, relocation tables | `writeHeap`, `readHeap`, `offset*` | another base address; failure halfway | every pointer is relocated once |
| Arithmetic (`LispMath.cpp`, `Sys/bignums.lisp`, `Sys/math-ops.lisp`) | none between calls; the remainder, quotient and index of a long division | fixnum and bignum operations, each written twice | carries, signs, overflow of a word, the estimate of a quotient digit | equals integer arithmetic, in canonical form |
| Compiler (`Compx86.cpp`, `Sys/compiler.lisp`) | code buffer, `COMPILER_STACK_INDEX`, `COMPILER_CLEANUPS`, environments | one function per special form | cleanups inlined into every exit; the stack index on paths that jump | generated code means what the source means |
| Reader, printer (`Read.cpp`, `Write.cpp`, `Sys/read.lisp`, `Sys/write.lisp`) | stream position | parse, format | nesting | round trip |
| Terminal buffers (`CharBuf.cpp` on both sides, `Read.cpp` 960-1010, `CoCormanLispClient.cpp`, `CormanLisp.cpp` of the IDE) | two bounded buffers, an event, a posted message, `m_fileToOpen` | `ProcessLispSource`, `consoleUnderflow`, `OutputText`, `OnIdle`, `OpenEditWindow` | full and empty buffers, look before take, events that wake one thread | order kept, nothing lost, no false end of input, nobody waits for ever |
| Lisp threads library (`Sys/THREADS.lisp`, `Sys/synchronized.lisp`, `Modules/mp*.lisp`) | locks, mailboxes | lock, wait, signal | lost wake-ups, errors with a lock held | locks are given back |
| Other Lisp library (`Sys/streams.lisp`, `package.lisp`, `clos.lisp`, `conditions.lisp`) | per module | per module | mostly sequential | as in the language standard |
| Kernel primitives (`Lispfunc.cpp`) | none of their own | more than 300 functions | those that lock or collect belong to the components above | |
| Memory report, IDE, hosts, Win32 bindings, bundled libraries | user interface and I/O | | | not modelled |

How they interact.  Lisp code allocates through `AllocVector`, which takes
`GCCriticalSection` and calls `garbageCollect` when the first ephemeral heap is full.
`garbageCollect` takes the lock again (it is recursive), stops the other threads of
`ThreadList` (`suspendAllOtherThreads`, then `ensureSafeStates`), copies, then calls
back into Lisp: the functions of the GC registry and the finalizers run with the
lock held and the other threads still suspended, and may allocate and collect.
Only then are the lock left and the threads resumed.  Writing and loading an
image, creating, aborting and terminating a thread take the same two locks in
their own orders.  Throws cross all of this: `AbortLispThread` and
`TerminateLispThread` make another thread throw from wherever it is.  The IDE runs
in the same process as the kernel and its clients; its one thread feeds Lisp
threads through `TerminalInputBuf` and shows what they leave in
`TerminalOutputBuf`.  `PROJECT.json` lists the hazards of this code, each at its line.

## 2. Modules

| Module | Models | Kind |
|---|---|---|
| `HeapSpaces` | how full the heaps are | component |
| `HeapSpacesProofs` | its inductive invariants and seven theorems | proofs |
| `LispThreads` | threads, locks, stopping the world | component |
| `LispThreadsProofs` | who holds the heap lock, from what is left on the stacks; that the other threads stand still while objects move | proofs |
| `ReturnProofs` | that locks are given back, and suspensions | proofs |
| `HeapGraph` | what a collector promises a program | abstract specification |
| `CopyGC` | what the collector does to pointers | component, implements `HeapGraph` |
| `CopyGCProofs` | that no pointer dangles; finalizers, full collections and the implementation of `HeapGraph` | proofs |
| `FiniteMap` | what a hash table promises | abstract specification |
| `HashTables` | hash tables keyed by address while keys move | component, implements `FiniteMap` |
| `HashTablesProofs` | that the table is a map, and how it knows what is stale | proofs |
| `Control` | compiled non-local exits, against a reference evaluator | component |
| `Terminal` | the buffers between the IDE and Lisp | component |
| `TerminalProofs` | that text stays intact, documents are the right ones and Lisp sees no false end of input | proofs |
| `Bignums` | integer arithmetic on words, against the integers | component |
| `BignumsProofs` | that it is exact, for any width of words | proofs |
| `BignumLogic` | logical operations on integers, against their bits | component |
| `BignumLogicProofs` | that they are exact too, and that `IntegerSpec` is | proofs |
| `MCCopyGC`, `MCControl`, `MCBignums` | symmetry, programs and operands of the instances | model checking |

The first three components divide `garbageCollect` between them: `HeapSpaces` keeps the
amounts and forgets the objects; `CopyGC` keeps the objects and lets a heap be
full at any time; `LispThreads` keeps the steps between which another thread can
act and forgets the heap.  What one leaves out, another has: `CopyGC` may assume
that nothing else moves because of `StopTheWorld` and
`HeapExclusive` of `LispThreads`, and that copies stay in their heap because `HeapSpaces` proves
`NoOverrun`.

### HeapSpaces

`used`, `size`, `over` are `current`, `end`, `overflow` less `start`; `sizeMem` is the
field of that name, which `swapLispHeaps` does not exchange although it exchanges the
memory (`swapped`).  An operation of the program (`AllocVector`, `LoadLocalHeap`,
`AllocLargeVector`, `LispGC`, `ReadHeap`) either fits or calls the collector: the
call is pushed on `pending`, and `Wave1` .. `Wave4`, `Finish`, `HooksDone` are the
pieces of `garbageCollect`.  `phase = "hooks"` is the time when Lisp code runs inside
it: the allocating operations are enabled again, within `HookBudget`.  A wave copies
any amount up to what its from-space holds.  `phase = "fault"` is a copy to an
address without memory.  Sizes are in cells.

### LispThreads

Each thread has a stack of labels, what it still has to do; an action is the code
between two points where another thread can interfere.  `locks` are the recursive
critical sections with owner and count, `susp` the suspend counts, `unsafe` the
threads inside an atomic unit, a prolog or an epilog, `rec` the `ThreadRecord`s with
`qv`, the state of the thread's copy of the symbol values.  A suspended thread
takes no step.  The `Call...` actions push the labels of `GarbageCollect`,
`RunSecondaryThread`, `BlessThread`, `WriteHeap` and so on: the operators of those names
are the bodies of the C++ functions in order.  `Workloads` is a set of sets of
operations; `Init` chooses one of them (`ops`), so that one run covers several kinds
of program without mixing them.

### CopyGC and HeapGraph

An address is an object with the space it was in when the pointer was written:
a pointer is dangling when the object is no longer there.  `Promote(from, to)` is one
wave: roots (`RootPointers`: variables, stacks, the pending lists), pointers from
the older spaces that are scanned (`Scanned` leaves out compiled code, and in the
first wave protected pages), everything they reach in `from` (`Promoted`), then the
objects whose registrations died (`resurrectFinalizationObjects`), then weak pointers
(`checkWeakPointers`), then what the resurrected objects reach.  The order matters: a
weak pointer to an object that only a resurrected object holds is cleared although
the object survives.  `calls` are the calls of `garbageCollect` that have copied and
now run hooks (`"hooks"`), move resurrected objects to the pending list
(`"finalize"`), and call finalizers (`"execute"`, `"finalizer"`); a finalizer is
ordinary Lisp code, so that collections nest.

Abstractions: an object holds one pointer; a registration is one entry that stands
for its list cell and its pair; the order of lists is left out, but not that the
registry is reversed in each wave, which makes an old cell point to a younger one
(`KeptByOlder` chooses which entries that keeps); a page holds one object; the
conservative scan of stacks is a root that is updated like any other.

`HeapGraph` has no addresses and no generations: a collection may remove what the
program does not reach and clear weak pointers to it, may queue finalizers of such
objects, and changes nothing else.  `CopyGC` implements it with `Deref` as refinement
mapping (`GraphAlive`, `GraphRef` and so on): an address that is valid stands for its object, one that is not stands for
itself, which no step of `HeapGraph` can produce.

### HashTables and FiniteMap

A collection gives the keys of the generations it collects new addresses
(`Collect`), may mark the table as the scan of a table's structure does
(`needed`), and puts the generations in `moved`: those whose `gc-n-level` is below
`heap_n_gc_id`.  An operation of the table is a stack of frames, innermost last,
because `hash-table-add-entry` is called by `(setf gethash)`, by a rehash and by a
growth, and may itself grow the table; each frame's name says what it does next.
Steps end where the code allocates or where another thread's collection would
make a difference: the test for a rehash, the test for a growth (`add`), the search of the bucket
(`index`), the reading of the address (`address`), the conses (`push`), the larger array (`array`).
`GCPoints` says at which of these points collections happen, and `GCPoint` which kind of point an
operation is at:

| Kind | When | Where the code allocates |
|---|---|---|
| `idle` | between operations | |
| `test` | at the test for a growth, and the key that is being added is moved | `(/ table-size 2)` is a ratio when the size is odd (`Sys/hash-table.lisp:209`) |
| `address` | between index and address, and the key is moved | the address of an object at 2^28 or more is made a bignum, which is allocated before the address is read (`:241`, `Sys/kernel-asm.lisp:2661-2683`) |
| `alloc` | wherever else an entry is added: the same two places when its own key stays, the conses, the array | `:209`, `:241`, `:173-180`, `:498` |
| `rehash`, `grow` | any of these while entries are added again by a rehash, or moved into a larger table | |
| `other` | at every step of an operation, by another thread | |

A rehash chooses its buckets in one step (`StartRehash`), although its comparisons of addresses
(`:274-308`) allocate for high addresses: a collection there is one of kind `rehash`, and is left
out of the model; `hash_rehash` shows what one later in the same rehash does.  Taking the index of a key
allocates nothing: `hash-table-key-index` as it is defined last (`:673`) does it with `fixnum-mod`.  Hash codes are addresses, and tables larger than `MaxSize` behave like one of that size.

`FiniteMap` is a map, the last answer, and the call that has not taken effect.
`Contents` maps `HashTables` to it: an entry counts where it is, in a bucket, in the
list of a rehash or growth, or in a frame that puts it back.

### Control and MCControl

`Compile` is the compiler: it carries the code buffer, the stack index and the list of
cleanups (`c.index`, `c.cleanups`) exactly as `Compx86.cpp` does, form by form, and
returns a sequence of instructions that each remember the stack index they were
emitted at.  `RETURN-FROM` and `GO` to a form of the same function inline what has to
be undone (`Leave`) and jump; those out of a lambda were turned into throws by the
block or tagbody around it (`Rerouted`).  The machine (`stack`, `bp`, `eax`, `runtime`,
`binds`, `env`) executes one instruction per step; `runtime` is `COMPILER_RUNTIME`,
`binds` the binding lists of the special variables, `env` the jump buffers, one per
catch site and not per catcher, as in the code.  `Throw_Exception` peels entries up to
the catcher or an unwind-protect on the way, whose cleanup then continues the throw.

`Evaluate` is what the forms mean: outcomes, values of special variables, the trace
of calls.  It knows nothing of code, stacks or catchers.  `MCPrograms` is the family
that is compiled and run: a transfer of control inside up to three forms, chosen
from all of them, inside a block, a catch and a tagbody.

Outside of the family, because the code does not do what the forms mean there:

- a direct `RETURN-FROM` of a literal, a `GO` or a `THROW` as an argument of a call: the
  stack index counts the argument that is never pushed (`Compx86.cpp:4975`); and a
  `BLOCK` with an embedded lambda that returns from it, as an argument, pushes its
  value twice;
- a tag form of `CATCH` that itself transfers control: the record is pushed before the
  tag is compiled (`Compx86.cpp:5672-5684`);
- a lambda that goes to a tag which an inner tagbody also has: `findEmbeddedGoForms` does
  not look at inner tagbodies (`Compx86.cpp:6076`);
- a throw that is forced on a thread between `PUSH_SPECIAL_BINDINGS` and
  `ESTABLISH_SPECIAL_BINDINGS` (`Lispfunc.cpp:2104`): the binding stays;
- cleanup forms that complete a throw of their own: run `control_rethrow`.

### Terminal

The thread of the user interface (`main`) is in its message loop, in
`ProcessLispSource` (`"send"`, `"wait"`) or in `OnIdle`; a Lisp thread (`pc`) is in Lisp code or
at one of the points of `consoleUnderflow`, `OutputText` and `OpenEditWindow` between
which another thread can act.  Operations of a `CharBuf` are one step each, its
semaphore makes them so; what is not one step is the look at a buffer and the taking
that follows.  Characters are numbers, so that order and loss can be told.  Removing
carriage returns and cutting lines at the size of the stream buffer are modelled by
what they do; the end of input in batch mode of the console is not modelled, nor is
`OpenURL`, nor that `OnIdle` leaves output in the buffer as long as there is no worksheet
(`CormanLisp.cpp:697`), nor a document that cannot be opened: the ones asked for exist.

### Bignums and BignumLogic

An action is one operation, by the kernel or by the library; long division is a loop
of steps, one digit of the quotient each, with the estimate, the subtraction and the
correction as in `divideBignums`.  A loop over cells is a recursive function of the
number of cells it has been through: `Carry`, `Borrow`, `Row`, `Column`.  The kernel's
additions, subtractions and products
have empty bodies (`#if 0`, `LispMath.cpp:2139-2327`), so that `Calculate` gives those
operations to the library only; the second pass of the kernel's division, which needs
them (`LispMath.cpp:4797-4808`), faults.  `Result` is the integer that the operation
stands for.  `BignumLogic` has the logical operations, on the same objects and variables; its
`IntegerSpec` adds their two actions to those of `Bignums`.  The code works cell by cell, on two's
complement of the operands' length, and takes the top bit of the result for its sign;
`LogicResult`, which it is compared with, is an operation on the bits of two integers, which have no
last one (`Bit`, `BitSum`): those of an integer are copies of its sign from some place on.
`Exact` (with its parts
`ArithmeticExact`, `ShiftExact` and `DivisionExact`) and `LogicExact` say that the answer is
the canonical object of that integer if and only if none of seven exceptions applies, so
that the exceptions are exactly where the code is wrong:

| Exception | Of | Where | What happens |
|---|---|---|---|
| `NoRoomForSign` | `LogicExact` | `LispMath.cpp:2754` ("currently only correct for unsigned integers") | a logical operation whose result needs one more sign bit loses it |
| `TailComplemented` | `LogicExact` | `Sys/bignums.lisp`, AND of two negative numbers of different lengths | the tail of the longer one is complemented |
| `NegativeShift` | `ShiftExact` | `Sys/bignums.lisp:1050-1056`, `Sys/math-ops.lisp:3795-3797` | a negative number shifted without losing a bit is one too small; a fixnum shifted by a word is 0 |
| `FixnumWraps` | `ArithmeticExact`, `DivisionExact` | `Sys/math-ops.lisp:1412, 1911` | the most negative fixnum times or divided by -1 is itself |
| `CarryLost` | `ArithmeticExact` | `Sys/bignums.lisp:636-640` | a product loses the carry of a column to `xor edi, edi`, which clears the flag that `jnc` tests: `#xFFFFFFFF00000001` times `#x100000001` is 1 |
| `SignForgotten` | `DivisionExact` | `LispMath.cpp:4840-4853` | the kernel's negative remainder that fits a fixnum comes out positive |
| `DigitMet` | `DivisionExact` | `LispMath.cpp:4831`, `Sys/bignums.lisp:1101` | a quotient digit whose estimate needs two words: the library faults in `div`, the kernel's `DDquotient` overflows |

`CarryLost` is a condition on the two integers: some row of the product has a word of ones at a
column into which the sum of what lies below, of that row and of the rows before, carries (`LosesCarry`).  The scaling in the long division multiplies by one
cell into a cleared result, where no carry can be lost.

Ratios, floats, complex numbers, `GCD` and `ISQRT` are left out.

## 3. Runs

| Run | Module, configuration | Checks | States |
|---|---|---|---|
| `heap_spaces` | `HeapSpaces_pass.cfg` | `CapacityInv`, `NoOverrun`, `LowestAfterFlush`, `NoFault`; `RequestAnswered` | 70,713 |
| `heap_bootstrap` | `HeapSpaces_bootstrap.cfg` | `BootstrapMakesRoom` in the branch that runs today | 9,231 |
| `threads` | `LispThreads_threads.cfg` | `HeapExclusive`, `LocksReturned`, `SuspendedHasResumer`, `WokenStaysListed`, `WalkedRecordsExist`; no deadlock | 543,795 |
| `threads_pair` | `LispThreads_pair.cfg` | `StopTheWorld`; `StopEnds`, `SuspendedRuns`; no deadlock | 5,954 |
| `threads_forced` | `LispThreads_forced.cfg` | `CountCoversList`, `ValuesFresh`, with terminated and aborted threads, failed creations and failed loads | 87,529 |
| `copy_gc` | `MCCopyGC_pass.cfg` | `NoDangling`, `PointersInv`, `FullCollectionIsPrecise`, `FinalizedOnce`; `FinalizersKept`, `ImplementsGraph`; no deadlock | 873,895 |
| `hash_tables` | `HashTables_pass.cfg` | `StaleKnown`, `StaleRecognized`, `CountCovers`; `ImplementsMap`, `OperationEnds`; no deadlock | 257,552 |
| `control` | `MCControl_pass.cfg` | `AsEvaluated`, `Balanced`, `StackIndexAgrees`, `CatchersLive`, `BindingsCovered`; `Ends` | 257,569 |
| `terminal` | `Terminal_pass.cfg` | `TextIntact`, `NoFalseEnd`, `OpenedAsAsked`; `Served` | 256,237 |
| `bignums` | `MCBignums_pass.cfg` | `Exact`, `LogicExact`; `StepDivides`; no deadlock | 381,074 |
| `hash_rehash` | `HashTables_rehash.cfg` | `StaleKnown` violated | |
| `control_rethrow` | `MCControl_rethrow.cfg` | `AsEvaluated` violated | |

Each module also has a type invariant `TypeOK`.  It is a part of the inductive invariants
below and of what TLC was given while the models were written; the runs spend their
time on the others.

`CHECK_DEADLOCK FALSE` is in the runs where the system may stop: `HeapSpaces` after a
fault or when `MaxNesting` is reached with full heaps; `LispThreads` with forced
termination, failing creation or failing image loads, after which a lock may stay
taken (`MaxLeaks` bounds the entries that are never left) or the process has ended;
`Control` when the program has ended; `Terminal` when all characters of the bounds have
been typed and shown.

### What the violated runs show

- `hash_rehash`: adding entries again allocates, so that a rehash may be interrupted by a
  collection; `rehash-hash-table` then clears the mark and the collection numbers
  of that collection (`Sys/hash-table.lisp:256-262`).  Entries that were added before it
  are not found until some later collection.
- `control_rethrow`: after the cleanup forms an interrupted throw goes on ("continue thrown
  exception", `Compx86.cpp:5844`) with the tag in `THROW_TAG`.  A throw that the cleanup
  forms made and caught themselves has put its own tag there (`Lisp.cpp:2591`):
  the first one then ends at the wrong catch, or at none.

### Where the checked properties stop holding

The passing runs state what holds where; outside of it TLC finds these, with the
change of a configuration that is named:

- `StopTheWorld`, with `create`, `exit`, `terminate` and `bless` in `threads_pair`, a thread to
  create and the client thread that blesses itself (with the first two threads alone it holds):
  `TerminateLispThread` suspends a thread, redirects it and resumes it
  (`CormanLispServer.cpp:1079-1086`) without any lock.  When its own suspension has been
  undone, by the `ResumeThread` of the thread that is just starting the target (830), its
  `ResumeThread` undoes the one of a collector: objects move while the target runs.
- `StopTheWorld`, with `create` and `exit` in `threads_pair` and a thread to create:
  when the `NumLispThreads--` of a thread that ends (`CormanLispServer.cpp:790`) stores over the
  `++` of a client that blesses itself (879), the count is one with two threads in the list.
  `ensureSafeStates` looks at nobody while the count is one (`LispThreadQueue.cpp:222`), and
  objects move although the other thread is inside an atomic unit.  Increments that are lost to each other
  do no harm (`LispThreadsProofs`).
- No deadlock and `StopEnds`, with `save` in `threads_pair`: `writeHeap` suspends the other threads before it
  takes the heap lock (`Gc.cpp:3315`); when one of them is inside an allocation, both
  wait.  (`documentation/CormanLisp_2_5_1_Release_notes.txt:10-11` fixed `SAVE-IMAGE` with
  other threads active: "Other threads are now suspended.")
- `NoDangling`, with `setInfo` among the `Ops` of `copy_gc`: there is "no way to destructively
  change" compiled code to point to newer objects (`Gc.cpp:2367`), but `(setf
  function-info-list)` (`Sys/misc-features.lisp:575`) is one; the pointer dangles after the
  next collection.
- `StopEnds`, with `create` in `threads_pair` and a thread to create: `RunSecondaryThread`
  puts a record without a thread handle into `ThreadList` (`CormanLispServer.cpp:805`) before
  it takes the heap lock; a collection in between calls `SuspendThread` on a null handle
  and retries it for ever (`LispThreadQueue.cpp:108-118`), since the creator waits for the lock.
- `ValuesFresh`, with a third thread that creates threads: `createNewQV` copies the symbol
  values before collections are kept out (`CormanLispServer.cpp:803`).
- `CountCoversList`, with a client thread that blesses itself while another thread is created:
  `NumLispThreads++` is not atomic.
- `LocksReturned`, with `createFails`, `abort` or `loadFails`: these paths leave with a lock held.
- `TakesUnderLock`, with `Bootstrapping = TRUE`: that branch leaves `GCCriticalSection`
  without having entered it (`Gc.cpp:1368`), and the allocation that called it goes on outside.
- `FinalizersKept`, with `hooks`: a function of the GC registry that makes a collection happen
  loses the objects that the outer collection has resurrected (`Gc.cpp:1445`).
- `ImplementsMap`, with `grow` in `GCPoints`: the key that made the table grow has been added
  again under its old address, is not found and gets a second entry; the next rehash puts
  its old value back.
- `OperationEnds` excepts one loop: `remhash` of a key that is absent from a bucket that is not
  empty tests a variable that it does not change (`Sys/hash-table.lisp:412`); `Loop` is that loop.
- `ImplementsMap`, with `test` in `GCPoints`: every `(setf gethash)` allocates a ratio when it compares the
  count with half of an odd size (`Sys/hash-table.lisp:209`), after it has asked whether a rehash is needed (380) and
  before it takes the index (222).  A collection there moves a key that is in the table: it is not
  found, gets a second entry, and the rehash at the end of the same operation (384) puts the
  old value back.
- `ArithmeticExact` without its exception `CarryLost`: "add previous carry", says the comment of
  `Sys/bignums.lisp:636`, and "inc carry flag" that of 640; between them `xor edi, edi` clears the
  flag that the jump at 639 tests, so that the carry of that addition is never counted.
- `StaleRecognized` and `StaleKnown`, with `other` in `GCPoints`: a collection by another thread between index
  and address makes an entry that no rehash recognizes.  The lock of a table does not
  keep collections out.  With `address` the same happens without another thread, for a key whose
  address is too high for a fixnum.
- `Served`, without its condition `[]<>(main = "loop")`: `ProcessLispSource` waits for room
  on the thread that would have to take the output, and the only reader may be waiting
  for room for its own output.
- `NoFalseEnd`, with two readers, of which one takes what the other has seen; or with
  sizes where `InSize - 1` is one more than a multiple of `LineSize`, which lets a line
  that consists of a carriage return stand alone (the program's 32767 and 4096 are not).
- `OpenedAsAsked`, with two openers: `OpenEditWindow` waits for its turn and sets its document
  in two steps (`CoCormanLispClient.cpp:121`).
- `TextIntact`, with a zero among the characters written: `strcpy` drops what follows.
- Everything about locks, in the POSIX build: `PLSyncObject::Lock` returns `FALSE` there
  (`ThreadClasses.cpp:114`) and excludes nobody.

### Bounds, and why they are enough

- `heap_spaces`: E1 of 3 cells, E2 requested 2, so that E2 is clipped and is full
  after two waves; reservations that allow one or more successful growths before one
  fails; requests of 1, 2 and 3 cells, so that some fit, some collect and some
  grow; a hook budget of 1 with nesting 2.  The theorems remove these bounds.
- `threads`: a Lisp thread, one that it can create and a client thread that can bless itself: every
  pair of roles, and a third party for lists that change.  `MaxDepth` bounds the labels of
  a stack: one collection inside the hooks of another.  `threads_pair` has the two
  threads that are there from the start, which keeps the graph small enough for
  liveness.
- `threads_forced`: two workloads with the same three threads, one around threads that
  are created and terminated, one around a client and image files; `MaxDepth = 14` lets a
  body be called from the hooks of a collection inside another.
- `control`: every transfer (a return with a value or a call, a `GO`, a throw to either of
  two tags, a call) at every place of every pair of forms, and of triples of the four
  that interact most; 4,178 programs, two special variables, a loop that is
  entered twice.  A third level of the rest adds no new pair of neighbours, which is
  what the cleanups of one form can disturb.
- `terminal`: buffers of three bytes (one stays free), a line buffer of two, three typed
  characters with a carriage return in the middle: full, empty, wrapped and cut buffers,
  and lines cut before and after the carriage return.  One thread reads and writes, one
  writes and opens documents.  The theorems remove these bounds for three of the
  properties.
- `bignums`: words of four bits, fixnums of three; a word of four bits has
  every kind of digit (0, 1, around the middle, the largest).  Dividends of up to four
  words and divisors of up to three, so that the loop runs up to four times with
  quotient digits that are estimated exactly, one too large, and not at all; other
  operands of up to two words and a half.  Nothing in the code depends on the width but the
  constants `HalfBits` and `FixBits`, 16 and 28 in the program.  The logical operations have
  the operands of the sums.  The theorems remove these bounds for all properties of this run.
- `hash_tables`: two keys at three addresses, which share a bucket of two but not of
  four, so that there are collisions, moves into each other's bucket, and a growth;
  two values, to tell a new from an old one.  Collections of all levels, any number of
  them, between operations and whenever `(setf gethash)` allocates, but for those that move the key it adds too early
  (`test`, `address`).  A size of two or four stands for the odd sizes of the program: every
  test for a growth may collect.
- `copy_gc`: two objects make cycles, chains and an object that keeps the other;
  two variables; one weak pointer; one registration; one collection inside the
  finalizer of another.  Every level 0..3 can be asked for and every overflow can happen at
  every wave.  Write protection is on: with it off fewer objects are left out.
  Objects, registrations and variables are interchangeable, and the properties
  name none of them: `Symmetric` permutes them.  The theorems remove these bounds for every
  property of the run.

### Fairness

`HeapSpaces`: `WF(Collect)`, the collector's own steps go on; nothing is assumed of
the program's requests.  `Control`: `WF(Step)`, code that runs goes on.  `Terminal`: weak
fairness of the steps of `ProcessLispSource` and of `OnIdle`, which a posted message
brings about, and of each Lisp thread inside an operation; nothing of what is typed,
written or opened, and nothing of other messages, which may keep the thread of the user
interface away from its loop (`Served` therefore has that as its condition).  `HashTables`: weak fairness of the operation in progress, nothing of collections
or callers.  `LispThreads`: weak fairness of each thread's straight-line
code (the operating system schedules whoever can run), strong fairness of three
things: steps on the locked thread list, of which there are finitely many and which
a thread can be suspended before, but is resumed again each time; the end of an
atomic unit; and that a woken thread is in the end caught outside one, because the
sleep in `ensureSafeState` grows with each attempt (`Sleep(wait++)`).  `RetrySuspend` has
no fairness: the loop that retries `SuspendThread` is exactly what may not end.
Nothing is assumed of Lisp code: it may never allocate again.

## 4. Proofs

### HeapSpaces (`HeapSpacesProofs`)

For every choice of sizes, reservations and requests:

| Theorem | Statement |
|---|---|
| `Capacity` | `Spec => []CapacityInv` |
| `NeverOverruns` | `Spec => []NoOverrun` |
| `E2HasHeadroom`, `PermanentHeapHasHeadroom` | wave 1 has room in E2 for all of E1; after a collection of level 1 the permanent heap is at most at its overflow mark (invariants that `CapacityInv` implies; no run lists them) |
| `FaultsOnlyWhenFull` | `NoFault`, where decommitting keeps the address range |
| `BootstrapRoom` | `Spec => []BootstrapMakesRoom`, where `Bootstrapping` |
| `FlushLeavesLowest` | `Spec => []LowestAfterFlush`, in both branches |

Assumptions of the first five: `SizesAssumption` and `RequestsAssumption` (what `initializeGarbageCollector` sets
up), `~Bootstrapping`, and `HooksFit`: what the hooks of one collection allocate, plus
the waiting request, fits in an empty E1.  `_AllocVectorImpl` takes its block after one
collection without comparing again (`Gc.cpp:887-890`), so that without `HooksFit` the
statement is false.  `NoOverrun` is not inductive: that wave 1 cannot overrun E2
depends on E2 having been at most at its overflow mark when the collection began,
which depends on wave 2 having emptied it or on it not having been reached, which
depends on L1 having had room, and so on through growth; `CapacityInv` is the
conjunction of these (`EphemeralInv`, `SemispaceInv`, `PendingInv`), each kept by every
action.

`BootstrapRoom` is about the branch that runs today, and assumes `SmallFitsMeg`: no
request is larger than the megabyte by which that branch grows E1.  In the program a
megabyte is 131,072 cells, a vector of 16,384 cells or more is a large one, and a
thread's own piece of the heap has 2,048 cells.  `BootInv` adds that one operation at
a time waits and that E1 has the megabyte free when it is resumed.  `FlushLeavesLowest`
needs no assumption; `FlushInv` adds that the second copy of a flush starts only from
the semispace with the higher address, so that it ends in the other.

### CopyGC (`CopyGCProofs`)

For any sets of objects, variables, weak pointers and registrations, any depth of
nested collections, with and without write protection:

| Theorem | Statement |
|---|---|
| `PointersAlwaysValid` | `Spec => []PointersInv` |
| `NothingDangles` | `Spec => []NoDangling` |

Assumption: no pointer is stored into compiled code and the GC registry is empty
(`Ops \cap {"setInfo", "hooks"} = {}`): section 3 says how the first is needed; hooks
leave frames whose lists the collector does not know of.  `NoDangling` alone is not inductive: garbage must not
dangle either, because an object of an older space is scanned whether the program
reaches it or not.  `PointersInv` adds that every pointer anywhere is valid
(`ValidInv`), where objects are in each phase (`PhaseInv`), and that what a wave skips
(compiled code and protected pages) points to nothing younger (`AgeInv`).  The central
lemma is `WaveFollows`: in a wave where everything skipped has no pointer into `from`
(`WaveSafe`), every object that stays or moves ends with a valid pointer; it rests on
`PromotedContains` and `PromotedClosed`.  One lemma per action shows `WaveSafe` and the rest.

### CopyGC implements HeapGraph (`CopyGCProofs`, second part)

For the same sets and depths:

| Theorem | Statement | Assumption |
|---|---|---|
| `TypesKept` | `Spec => []TypeOK` | none |
| `FinalizersOnce` | `Spec => []FinalizedOnce` | none |
| `FinalizersNotLost` | `Spec => FinalizersKept` | the GC registry is empty (`"hooks" \notin Ops`) |
| `FullCollectionPrecise` | `Spec => []FullCollectionIsPrecise` | that, and no pointer is stored into compiled code |
| `CollectorKeepsGraph` | `Spec => ImplementsGraph` | the same |

With hooks that collect, the inner collection begins by forgetting what the outer one has
resurrected: registrations are lost (section 3) but never doubled, which is why
`FinalizersOnce` needs no assumption.  Its invariant `OnceInv` says that each of the lists
(the registry, the resurrected, the pending, one of every call) has a registration at
most once and no two lists have one in common; that finitely many are held makes
`FinalizedOnce`, which counts, follow.  `Follows` is what forwarding does to a list: the same
registrations, none of them twice.  `WaitingInv` adds for `FinalizersNotLost` that resurrected objects wait
only for the hooks of the innermost call, and that a call that runs hooks has no list yet.

The refinement rests on `PointersInv`: since every pointer is valid, the graph is the heap with the
object of an address in place of the address (`GraphIs`), and a step that rewrites an address into the object's new one
does not show.  For a wave `WaveInGraph` names the three sets of `Collect`: the objects of
`from` that are not promoted, the registrations that died, the weak pointers cleared.  The heart is that what
the graph reaches from the variables and the queue lies in `Survivors(from, live)`: objects outside `from`
and live ones.  A set of survivors is closed under pointers because what a wave does not scan does not point into
`from` (`WaveSafe`), and what it scans it promotes (`SurvivorsClosed`).  The same lemma
with everything that is promoted gives that resurrected objects keep what they
point to.  That the registry loses exactly the registrations that died needs `OnceInv`.
`FullCollectionPrecise` is the opposite inclusion, for the third wave, which has no older
space to scan: what is promoted lies in every set that contains what the program holds
after the wave and is closed under the pointers after it (`PromotedInside`).

### LispThreads, the heap lock (`LispThreadsProofs`)

For any sets of threads, any workloads, any nesting of hooks, with or without
working `SuspendThread`:

| Theorem | Statement |
|---|---|
| `HeapLockHeld` | `Spec => []TakesUnderLock` (no run lists it) |
| `HeapsExclusive` | `Spec => []HeapExclusive` |

The only assumption is `~Bootstrapping`: the branch for bootstrapping leaves a lock
that it has not entered.  Threads may be terminated or aborted at any step, creation and
loading may fail.

Neither property says anything of the rest of a stack, which decides whether they
hold later.  The invariant `SoundInv` ties the two together: every stack is a
sequence of labels that ends in one that never returns, each label has a weight (what
it gives back of `GCCriticalSection`), and a thread whose remaining labels have to give
the lock back `w` times owns it at least `w` times.  `Balanced(t, L, w, v)` says that
the labels `L` take a thread from `w` entries to `v`, with a witness for every position
(`Path`).  Lemmas show that each body of the model is balanced, that bodies can be
concatenated, shifted, cut and jumped over (the early returns of `RunSecondaryThread` and
`readHeap`), and that an action replaces the label on top by a body of the same
weight.  "At least" and not "exactly", because a thread that is thrown out of its code
keeps what it had entered.  `Bystander` is the step that uses mutual exclusion: when
one thread enters or leaves, nobody else owes anything.

### LispThreads, stopping the world (`LispThreadsProofs`, `ReturnProofs`)

For any sets of threads, any workloads of the operations named and any nesting of hooks:

| Theorem | Statement | Assumptions |
|---|---|---|
| `WalkedRecords` | `Spec => []WalkedRecordsExist` | `Plain` |
| `WokenStays` | `Spec => []WokenStaysListed` | `Plain` |
| `WorldStopped` | `Spec => []StopTheWorld` | `Plain`, `NoExit` |
| `CopiesFresh` | `Spec => []ValuesFresh` | `Plain`, `NoCreate` |
| `BlessedCounted` | `Spec => []CountCoversList` | `Plain`, `NoCreate` |
| `LocksComeBack` | `Spec => []LocksReturned` | `Plain`, `ThreadsStart` |
| `SuspensionsEnd` | `Spec => []SuspendedHasResumer` | `Plain` |

`Plain`: `SuspendThread` works, the branch is not the one for bootstrapping, and the operations are
allocation, collection, atomic units, critical sections, creation (which may fail),
ending, blessing, unblessing (at which the process ends, section 5) and hooks; threads are not forced to throw, and images are neither
saved nor loaded.  `NoExit`: no thread that was created comes to its end.  `NoCreate`: no thread creates another.
`ThreadsStart`: no creation fails (`"createFails"`): `RunSecondaryThread` would return with the heap lock.
Section 3 says what TLC finds without them: a resumption that belongs to another suspension,
a decrement that overwrites an increment, a copy that is made before the lock is taken.
They are conditions of the theorems and no promise of the code.

The argument has two layers.  The lower one is about stacks.  `ShapeInv` lists what a thread can have left to
do: a chain of Lisp code and of what it calls (`Works`), a piece of `RunSecondaryThread`
above Lisp code (`Creates`), a piece of `BlessThread`, or its end.  From it follow, once and for all,
the labels that can come to the top after a given one (`Follow`).  No invariant of the
upper layer speaks of more than the labels on top:

- `OwnerInv` and `ListInv`: a label on top that needs `GCCriticalSection` or
  `TQCriticalSection` belongs to the owner.
- `PrimaryInv` and `CreateInv`: whose record a creation is about, and when it is in the list.
- `WorldInv`: from the end of `SuspendOtherThreads` to the beginning of
  `ResumeOtherThreads` every other listed thread is suspended once, those in between are suspended as
  far as the loop has come, and nobody else is suspended or resumed.  `ensureSafeState` wakes one of them; it
  keeps the list locked meanwhile, which is why the woken thread cannot leave.
- `SafeInv`: a thread that `ensureSafeStates` has passed is outside its atomic unit, and stays there
  because it is suspended.
- `CountInv`: `NumLispThreads` may be less than the length of the list, since increments can be lost.  It is
  still more than one when `ensureSafeStates` reads it and there is anyone to look at: the first
  thread is counted before any other begins, so that every value that is read is at least one and
  every value that is stored at least two, and a thread is in the list only after it, or its creator, has stored one.
- `FreshInv`: a copy that no collection updates belongs to a client that has still to be inserted, and
  that client owns the heap lock, so that nobody collects.
- `CoverInv`: where no thread creates another, the list grows by blessed clients only.  A client increments
  `NumLispThreads` and inserts its record without leaving the heap lock (`Arriving`), so that one thread at a time is
  between the two, what it has read is still the number, and the number is never less than the
  length of the list.  With creations increments are lost, and only `CountInv` remains.
- `ExactInv`: a thread has entered `GCCriticalSection` exactly as often as the labels on its stack will
  leave it (`Weighs`).  `SoundInv` of `LispThreadsProofs` says "at least", which is what throws and
  failed creations leave of it; for `LocksReturned` a thread must not own it more often either.  A step puts a body in
  the place of the label on top, and either the body gives back what the label would have, or the
  step itself enters or leaves the lock (`Turns`).  What is left of a thread that is back in Lisp code gives
  back nothing (`WeighsBottom`), so it owns nothing.  Of the lock of the list
  `ListInv` says who owns it, and that it is never entered twice.
- `SuspInv` and `OrderlyInv`: a thread is suspended at most as often as the labels on the stacks of all other threads
  will resume it (`Debts`), and only while it is in the list.  What will resume it is the rest of a loop of
  `ResumeOtherThreads`, the start of a thread, and the label `resume` of a collection, but that one only
  once the collection's own loop has suspended the thread, or while the thread is not the one just woken (`Owed`).  The loop that
  decides is five labels above its `resume`, which `OrderlyInv` says for every position; labels are counted from the
  bottom (`Low`), where a step leaves all but the top in place.  Each step changes at most one of the stepping thread's debts
  to a given thread, in step with its suspend count (`Pays`), and what others owe stays (`OthersOwe`).  Equality would be too much to ask:
  `ResumeOtherThreads` resumes whoever is listed by then, suspended or not.

None of these is inductive alone: a thread inserted during a collection would break `WorldInv`, and
`OwnerInv` is what keeps it out.

### Terminal (`TerminalProofs`)

For any sets of threads, any sizes of the buffers and any lengths of the texts:

| Theorem | Statement | Assumption |
|---|---|---|
| `TextAlwaysIntact` | `Spec => []TextIntact` | no character is zero (`Zeros = {}`) |
| `RightDocument` | `Spec => []OpenedAsAsked` | at most one thread opens documents |
| `EndNeverFalse` | `Spec => []NoFalseEnd` | at most one thread reads, and `LinesFit` |

`InputInv` and `OutputInv` add to `TextIntact` what makes it inductive: a thread has text
left only while it is adding it, and less than it began with; buffers are never quite full.
`OpenInv` says that while a thread waits for its document, the document is still to be
opened or is the last that was.

`LinesFit`: a carriage return is followed by another character, and no whole number of lines of
the stream's buffer leaves one character of a full `TerminalInputBuf`.  The program has
`InSize - 1 = 32767` and `LineSize = 4096` (`CormanLispServer.cpp:84`), and
`32767 = 7 * 4096 + 4095`.  A reader would be given an end of the input if it took a
lone carriage return.  What is in the buffer can end in one only when the text was cut there, because the buffer was
full; `EndInv` says that what is then left of it was cut from a full buffer by whole
lines (`CutByLines`), and `LinesFit` that this is never one character.  With a single reader
the characters it saw are still there when it takes them.

Section 3 says how the assumptions are needed.

### HashTables (`HashTablesProofs`)

For any sets of keys, values and addresses, any sizes of the table and any number of
collections of any level:

| Theorem | Statement | Assumption: collections happen |
|---|---|---|
| `EntriesCounted` | `Spec => []CountCovers` | anywhere |
| `MisplacedIsStale` | `Spec => []StaleRecognized` | anywhere but in another thread, and none that moves a key between its index and its address (`{"other", "address"} \cap GCPoints = {}`) |
| `StaleNeverForgotten` | `Spec => []StaleKnown` | nor during a rehash (`{"other", "address", "rehash"} \cap GCPoints = {}`) |
| `TableIsMap` | `Spec => ImplementsMap` | between operations or wherever one allocates outside of a rehash and a growth, and none that moves the key being added before it is searched for or before its address is read (`GCPoints \subseteq {"idle", "alloc"}`) |
| `TableTyped` | `Spec => []TypeOK` | anywhere |

The assumptions are those of the run and are needed: section 3 says what TLC finds with
`"other"`, `"address"`, `"rehash"`, `"grow"` or `"test"`.  They are no promise of the code, which allocates
at all of these places; the theorems say that everything else is right.

The argument goes in two parts.  The first is about staleness.  `Shape` says which frames may lie on
which.
`CountInv` bounds the entries of the table by the count, less one while an entry that has been
counted is being made.  `PlacedInv` says that every entry is where the address it
remembers hashes to, also the one that is about to be made; then an entry that is out of
place is one whose key has moved (`MisplacedIsStale`).  `NewestInv` says that no key of the table is younger than the youngest generation that the table
knows of, and that generations are collected from the youngest up; `KnownInv` that every entry
remembers its key's address, or else the table knows that it needs a rehash and none
is under way.

The second part is the refinement.  An entry of the map counts wherever it is: in a bucket, in the list of a
rehash or growth at any depth, or in a frame that puts it back.  `Places` are all these,
and `Distinct` says that no key has two.  Every step of a rehash or growth
rearranges places (`Rearranged`): a bijection that keeps the items, given explicitly for
the bucket list turned into a list (`RehashKeeps`, `GrowKeeps`), for one item taken from it
(`AddNextKeeps`) and for one entry made (`PushKeeps`).  So the map does not change
(`MovesKeep`).  The steps that make an operation take effect happen when there are no lists
(`Listless`), where each entry is in the bucket that is searched, because `SettledInv`
says that the entry of a key is fresh whenever the key is searched for: a collection at the test for a growth moves only
other keys (`OwnFresh`), and none comes between that test and the search.  `NewInv` adds that a key that is being added
has no entry yet.

The first part of the module has what these need of the community modules' operators: `FlattenSeq`,
`Front`, `RemoveAt` and others.  `FlattenSeq` is a recursive function; that such a function
exists is proved by a least counterexample (`FlatteningExists`) and not by induction over
an operator, which the provers cannot instantiate.

### Bignums (`BignumsProofs`) and BignumLogic (`BignumLogicProofs`)

For any width of words (`HalfBits`), any width of fixnums from half a word up to a bit less than a
word (`FixBits`) and any operands, without further assumption:

| Theorem | Statement |
|---|---|
| `ArithmeticIsExact` | `Spec => []ArithmeticExact` |
| `ShiftIsExact` | `Spec => []ShiftExact` |
| `DivisionIsExact` | `Spec => []DivisionExact` |
| `LogicIsExact` | `IntegerSpec => []LogicExact` |
| `IntegersExact` | `IntegerSpec => []Exact`, the first three together, with the logical operations among the calls |
| `StepsDivide` | `IntegerSpec => StepDivides` |

`Exact` says more than that the code computes the right integer: the answer is also the canonical
object, a fixnum wherever one will do and otherwise without leading zeros, and it is wrong in every one
of the cases that `FixnumWraps`, `CarryLost`, `NegativeShift`, `SignForgotten` and `DigitMet` name; `LogicExact` says
the same of the logical operations, with `NoRoomForSign` and `TailComplemented`.  `Spec` is that of `Bignums`,
`IntegerSpec` has the logical operations as well: all that the run `bignums` checks.

Long division is the one operation of several steps.  Its properties speak of the end of the loop or
of one turn of it, and need an invariant of the loop, `Looping`: the quotient so far times the divisor, plus
the remainder, is the dividend (`MadeOf`), and one of two things holds of the places done.  Either
no partial remainder began with the divisor's first digit, and the remainder is less than the divisor at
the next place; or one did, and the remainder has a digit other than zero above all that the
later steps change, so that it ends greater than the divisor.  The first half gives that the
estimate of the next digit is right or one too large (`EstimateLow`, `DigitStep`), for divisors
that the shift and the multiplication by `Radix - 1` have prepared (`Divisor`, `ShiftBitsIs`, `Mifsud`);
the second half gives that the answer is wrong whenever `DigitMet` holds.  `Dividing` relates
all this to the two integers of the call through the factor that both were multiplied by
(`Factor`), and `Left` reads off the end of the loop: what is left, divided by the factor, is either less than
the divisor's absolute value, and then quotient and remainder are the only ones there are, or greater,
and then both are wrong.  `SubtractMulIs` is the step itself: `Column` carries the borrow of the
subtraction in the high cell and in a carry bit at the same time, and `ColumnSum` adds both up.  `RemainderIs`
undoes the factor; `ShortDivision` and `FixnumDivision` are the cases without a loop.

Otherwise these are statements about data more than about steps, and the work is in the loops over cells.
Each is a recursive function, and each has a lemma that adds up what it has been through: a carry
or borrow with the words so far equals the sum of the operands so far (`CarryIs`, `BorrowIs`), a row
of a product is short of the cell times the operand by the carries that it loses (`RowSum`, `RowGap`), the first of which is lost exactly
where the two integers say so, because until then code and integers agree (`LostIs`, `RowLosesIs`), a half word
of a shift has the bits of two half words of its operand (`DestHalfIs`).  `Value` turns cells into
numbers, `Cells` back, and `CellsAre` says that only one sequence of cells has a given value, which
makes the answer *the* canonical object and not one with the same value.  The provers know nothing of
powers: `Power` is defined by recursion and its laws are proved (`PowerSum`, `PowerGrows`).  They have no
induction with a predicate either.  `Induction` is stated for a set of numbers, which is a value, and
`RecursionExists` shows that a function with a given recursion exists, from a least number where
there is none.

The logical operations need bits and cells of integers that may be negative.  Digits of an integer (`Dig`) go on
without an end, and the cells in two's complement are the first of them (`TwosIs`); the bits
of an integer are those of its digits (`BitOfDigit`), so that the sum over bits is the sum over cells of the
operation on two cells (`BitsOfDigits`, `DigitsValue`).  Beyond the longer operand all digits of both are copies of
their signs (`SignWords`).  The loop over cells makes the digits of the result up to there (`MadeCellsAre`,
`LogicalIs`), all but the tail of an AND that is complemented, and reading it back is right if and only if
its top bit is the sign that the bits beyond have (`LogicalExact`): that the exceptions are exact
comes from a digit of the tail that cannot be its own complement, and from a bit that is taken for a sign.
`NOT` complements all cells after widening by one, so that it has no exception (`NotIs`).

### Model-checked only

All of `Control` (its compiler and its reference evaluator are recursive operators on programs, which
the prover does not take);
liveness everywhere (`RequestAnswered`, `StopEnds`,
`SuspendedRuns`, `OperationEnds`, `Ends`, `Served`), which the proof system cannot do
under fairness.

## 5. What is not modelled, and what could come next

Not modelled for good: user interface, hosts, bundled libraries, reader and printer
(text), the memory report, the selection of x86 instructions, floating point.

Modelled in part: of the compiler the forms that transfer control or bind special
variables; of hash tables all but `maphash`, the iterators and keys that are hashed by
contents; of arithmetic the integers.

Known hazards without a model: `UnblessThread` clears the thread-local pointers before
`popDynamicBinding` uses them (the model ends the process there, `Unbless`);
`RunSecondaryThread` reads `th->threadID` after the thread may have removed its record;
`maphash` walks a bucket while its function may rehash the table; `createSymbolTableEntry` reads
the index outside its lock; an error in one finalizer leaves the others of the list
uncalled; the collector leaves the heap lock before it resumes the other threads
(`Gc.cpp:1635`); `Unadvise` compares its cookie with a limit; code between
`PUSH_SPECIAL_BINDINGS` and `ESTABLISH_SPECIAL_BINDINGS` that is made to throw.

Next, in this order:

1. `HashTables`: `maphash` and iterators while their functions look up keys; keys hashed by
   contents and `nil` as a key; a hook or finalizer that uses the table it interrupted.
2. `ImageFile`: relocation of a saved heap (`offsetHeapAddresses`) against the original.
3. `Connections`: COM connection points; reference counts and enumeration during
   `Unadvise`.
4. Composition of `LispThreads` with the finalizers of `CopyGC`, and with `Control` for the
   throws that are forced on another thread.
