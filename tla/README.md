# Verification of the JBLang transpiler and runtime

JBLang is a small C-like language with classes and automatic memory management.
A transpiler (`src/`, `include/`) turns a program into C; the C is linked with a
runtime (`runtime/`) that has one of three allocators.  This directory holds TLA+
models of that system, TLC configurations that check them on small instances, and
TLAPS proofs for every size.  Paths below are relative to the repository.

## The system

| part | where | what is hard about it | module |
|---|---|---|---|
| Mark-sweep allocator | `runtime/src/mark_sweep_allocator.c` | recursive marking of cyclic heaps; freeing while walking the list; a collection in the middle of an allocation; conservative stack scan; zero sizes, partial words, a full root table | `MarkSweep` |
| Generated main | `TranspilerVisitor::visitProgram` | which globals are roots | `MarkSweep`, `Runtime` |
| Reference-count allocator | `runtime/src/reference_count_allocator.c` | recursive release; the array of three entries; cycles | `RefCount` |
| Reference-count insertion | `src/ast/TranspilerVisitor.cpp`, `src/codegen/CCodeGenerator.cpp` | increments and decrements must balance on every path, in the right order | `RefCount` |
| Runtime facade, simple allocator | `runtime/src/runtime.c`, `allocator_impl.c`, `simple_allocator.c` | calls before init and after shutdown; a second init; absent table entries | `Runtime` |
| Driver | `src/main.cpp`, `runtime/Makefile` | files that earlier, failed or killed invocations left | `Driver` |
| Two passes, statements, symbol table | `visitProgram`, the `m_first_pass` guards, `include/jblang/types/SymbolTable.h` | what is visited and emitted in which pass; shadowing; parameters outside the scopes | `Visitor` |
| Class model, type system | `visitClassDecl`, `visitMethodCallExpr`, `src/types/TypeSystem.cpp` | which body a call reaches after overriding and upcasting; hierarchies of three levels; classes declared twice; names with `_` | `ClassModel` |
| Grammar | `grammar/JBLang.g4` | generated parser | none |

The program is single-threaded.  What makes it hard is not concurrency but long
sequences of legal calls, recursion over a mutable heap, work interrupted by other
work (a collection inside an allocation, a call between an increment and its
decrement, a tool killed between two files), and the split of one protocol over two
programs: the transpiler inserts the calls and the runtime counts them.

Generated code calls the facade, which forwards to the table of the allocator that was
linked in.  The transpiler inserts the calls of reference counting only when the tool
is asked for that allocator; with it `runtime_gc` does nothing.

## The modules

- `MarkSweep` - the allocator, the compiled program as its client, and the generated
  main that registers roots.
- `RefCount` - the transpiler's reference counting and the allocator that executes
  it, composed.
- `ManagedHeap` - what an allocator promises; `MarkSweep` and `RefCount` implement it.
- `Runtime` - the facade over the three tables, and the calls of main and `main_`.
- `Driver` - the tool and its files.
- `Toolchain` - `Driver` and `Runtime` composed: what the tool makes is run.
- `Visitor` - the two passes over a program and the symbol table.
- `ClassModel` - classes, from their declarations to the body that a call reaches.
- `MC...` - instances for TLC.
- `MarkSweepProofs`, `MarkSweepSafety`, `RefCountProofs`, `ToolchainProofs` - theorems.

`PROJECT.json` maps each definition to the lines it models.  Each property has a
mutant: an operator next to the one that it replaces, a slip that the code might have
made (a missing back link, a loop that stops one early, a decrement before its
increment), for which TLC finds the property violated.

### MarkSweep

A *block* is a chunk that malloc can hand out: a header and a payload of words.  A
*word* is a block (any address inside its payload) or `Null` (anything else), which is
all that a conservative collector tells apart.  `allocation_list`, `next`, `prev`,
`marked`, `size`, `roots`, `GC_THRESHOLD` and the statistics are those of the code;
`alive` is malloc's view; `stack`, `globals` and `heap` are the memory that is
scanned.  `assigned` and `filled` say which words the program has set itself: it
never loads junk, but the collector scans it.

The program may open and close scopes, copy any pointer that it can name to a local,
global or field, allocate, deallocate what it can no longer name, collect, change the
threshold and register roots.  A collection is one action per loop iteration or
recursive call: `ScanStack`, `ScanRoots`, `MarkStep` (the innermost activation in
`frames`), `SweepStep`, `SweepDone`; `DrainStep` is the loop of `ms_shutdown`.  malloc
may fail, returns any free chunk, recently freed ones included, with any contents.
The words of the runtime's own stack frames are arbitrary at each collection
(`Slack`).

### RefCount

An operator named after a visitor gives the instructions that it emits for a
statement, in order, including the calls that it inserts; `ExecInc`, `ExecDec`,
`ExecSet`, `ExecCall`, `ExecReturn` and `ExecLeave` execute them, and `CascadeStep` is
one iteration of the loop of the innermost active `dec_ref_count`.  The run-time
scopes are the visitor's scopes at the same place.  A program is any sequence of
statements that does not dereference NULL.  Using a freed block is undefined and ends
the behaviour with `pc = "undefined"`.

The visitor miscounts some statements.  They are named in `AllFeatures`, and a run
chooses with `Features` which of them programs may contain, so that each question is
asked of the largest language for which its answer is yes:

- no feature: plain declarations, assignments of variables, `new`, NIL and calls to
  variables, stores of variables to fields, calls, blocks and returns from the
  function's outermost scope;
- `Leaky`: statements that lose a decrement (a return inside a nested block, a new
  block or a result stored to a field, a store once `to_free` is full, a discarded
  result, a struct initialiser);
- the rest lose an increment or decrement too much (reading a field, upcasting,
  assigning a parameter, `x = f(x)`, `p->f->g = y`, `return f(x)`, a pointer without
  initialiser, a global passed to or assigned from a call).

### ManagedHeap

Blocks are given out and taken back; until shutdown, none is taken back that the
program can name, and the program comes to name a block only by being given it.
`MarkSweep!Heap` maps `named` to `Visible`, the blocks that chains of assigned words
lead to, and `down` to the drain; `RefCount!Heap` maps `named` to `Nameable`.  The
mapping is checked at every step of a collection or cascade, not only between calls.
It holds for mark-sweep where no threshold is passed, no block is empty and all
globals are registered, and for reference counting with the `Leaky` features: the
conditions are the exceptions of `NoDangling` and the features above.

### Driver, Runtime, Toolchain

`Driver` has one action per step of `compileCode`, each of which can fail, and `Kill`
between any two.  The C file, the objects, the library and the executable outlive the
invocation.  `make` rebuilds only objects that do not exist (the Makefile does not
depend on the flags), so what keeps objects of another allocator out is the `make
clean` before it.  The tool is run from `build/`, as `build.sh` does: `gcc` runs in
`../build`, and a relative name of the C file means the one just written only there.  The
visitor runs in the tool's own process and loops forever on some programs (`Endless`; which
ones is a question for `ClassModel`): such an invocation stays where it is until it is
killed.

`Runtime` has one action per facade call.  Which blocks an allocator frees is open
here, only how many it holds and what it counts: `stats` is kept modulo `Word`, as
`size_t` is.  A call through an absent table, or `rc_alloc` when malloc fails, ends in
`"crashed"`, and a full root table in `"full"`.

`Toolchain` starts the executable that is there between invocations, also one that was
made before a failed or killed invocation.

### Visitor

A program is first written, token by token, then visited by the two passes.  Each
visitor of a block is a step at its start and a step at its end.  `scopes`,
`currentFunc` and `globalVars` are the symbol table's; `cscopes` are the scopes of the
emitted C, kept beside it by the rules of C.  `output` lists the tokens that were
emitted.  What the code does in
one pass only (`m_first_pass`) is a test of `First`.

### ClassModel

Classes are written, registered by the first pass, emitted by the second, and then the
compiled program constructs an object, casts it upwards, calls a method or reads a
field.  `m_classes`, `m_classMethods` and `m_classConstructors` are the tables of
`TypeSystem`; `vtables`, `structs`, `ctors` and `functions` are what is emitted.  A name
is the sequence of its words between underscores, because the code cuts names there.
`names` lists the class of each declaration, and a class can come twice: the first pass
then resets its entry (`registerClass`) but adds to its methods, and the second keeps the
parent that the table has where the declaration gives none.  A field may be an array, which
is emitted as `int a[2] a;`.  A constructor that calls its parent's without arguments makes
the second pass read a null argument list, and the tool crashes.
`Dispatch` and `Owner` are the reference definitions: what the declarations mean.

## The runs

| run | asks | instance | distinct states |
|---|---|---|---|
| `MarkSweepShapes` | type, list, marking, sweep, statistics, recursion depth, shutdown, `ManagedHeap` | every heap of three one-word blocks, one local, one global: chains, sharing, cycles | 440,850 |
| `MarkSweepThreshold` | nothing named is freed, statistics, and collections end, also those inside `ms_alloc` | two blocks of 0 or 12 bytes, a threshold of 64, one stale word | 391,837 |
| `MarkSweepFresh` | violation: a local's block is alive | two blocks, low threshold | |
| `MarkSweepArray` | violation: what a global points to is alive | two words of static storage, one registered | |
| `RefCountExact` | counts exact, nothing dangles, only cycles leak | no features; two blocks, two entries of `to_free`, two locals per scope, a global, one call | 2,763,382 |
| `RefCountLeaky` | types and the bound of `to_free`, counts never too low, memory safe, `ManagedHeap` | the `Leaky` features; two blocks, one entry of `to_free`, a global | 170,511 |
| `RefCountAny` | recursion and statistics are right even when counts are not; what is released is freed | two blocks, features `load`, `deep`, `param`, `self`, `tail` | 652,436 |
| `RefCountFields` | violation: overwriting a field decrements | | |
| `RefCountLoad` | violation: `x = x->f` touches nothing freed | | |
| `ClassModel` | what calls and accesses reach; both passes agree; when C rejects the output or the transpiler hangs | every program of three declarations, of three classes or of fewer, with a method, a field and a constructor each | 1,781,095 |
| `Visitor` | scopes, names, decrements, what is emitted, roots, order of types | every program of six tokens over one name and three types | about 1,270,000 |
| `Toolchain` | the executable is what was asked for, fits its code, and finds its table; statistics; invocations end | two programs and an endless one, six requests, two blocks, two inits, `size_t` of 8 values | 505,483 |

What they show.

*Mark-sweep.*  At each step of marking, every marked block is reachable and nothing
reachable is lost (`Tricolour`), so at the sweep the marked blocks are exactly the
reachable ones (`MarkExact`), and a collection frees the garbage and only that
(`CollectionComplete`).  The list always holds the chunks that malloc has outstanding
(`ListIntact`).  No block is active in two calls of `mark` (`MarkDepth`): the
recursion is as deep as the longest simple path, which may be the whole heap.
Nothing the program can name is freed (`NoDangling`), with three exceptions that are
in the statement: zero-sized blocks, which `find_header` never recognises; a block
that `ms_alloc` itself collected; and globals that are not registered.  The last two
are the violation runs.  `CollectionEnds` is the liveness property.

*Reference counting.*  Without the miscounted statements the counts are exact; while
functions are active, "exact" includes what their callers have pending, the decrement
after a call and the overwritten variable that is already decremented (`CountExact`).
`LeaksAreCycles` is the converse of safety: at exit only globals and cycles hold
memory.  With leaky statements `CountCovers` still bounds the counts from below.  With
the others only the machinery is right: the recursion visits each block once and leaves
no live block without a count (`CascadeOnce`), the statistics stay exact, and released
blocks are freed (`ZeroFreed`).

*Tool and facade.*  A reported success means the executable that was asked for, after
any history of failures and kills (`ExeAsRequested`), and its code and its allocator
always fit (`CountsAsLinked`).  The facade calls that do not test for a table have one
unless `main_` shut the runtime down itself; the other crash, of `rc_alloc` when malloc
fails, leaves the table of reference counting in place (`CrashesExplained`).  `current_bytes` never
wraps, except when reference counting frees blocks from before a second `runtime_init`
(`PeakCovers`).

*Passes.*  The symbol table follows the blocks in both passes (`ScopesMirrorBlocks`), and
a name means what it means in the emitted C, with two exceptions that are in the
statement: a parameter with the name of a global, and a declaration that is the body of
an `if` without braces (`LookupAsInC`).  Everything is emitted once and in order, except
`for` loops: `visitForStmt` returns at once in the second pass, the only one that emits
function bodies, so a loop in a function is dropped, and `EmittedOnce` leaves it out.

*Classes.*  A call reaches the body that the declarations mean (`ReachesMeant`), with a
complete vtable (`VTableComplete`).  The C compiler rejects the output only for hierarchies
of three levels, where the first virtual method is not in the root, where a class is
declared twice, where a field is an array, or where the name of a class has an underscore
(`RejectsExplained`).  The transpiler loops forever only if a class is its own parent or is
given a parent where it is declared again, as in `class A {} class B : A {} class A : B {}`
(`HangsOnCyclesOnly`).  Unless a class is declared twice both passes see the same tables
(`PassesAgree`).

The four disagreements with comments, tests or the repository's README are under
`findings` in `PROJECT.json`, each with the run that shows it.  These programs break
properties as well when they are allowed; no text of the repository promises anything
about them, so they are listed as hazards and not as runs:

- in `RefCount`, the features `cast`, `uninit`, `self`, `global`, `tail`, `param` and
  `deep` break `NoUseAfterFree` or `NoDangling`;
- in `ClassModel`, the features `mention` (a method body with the word virtual in it) and
  `variable` (`x->f` for a variable of a class with virtual methods) break
  `ReachesMeant`, and programs that mix names with and without an underscore
  (`NameLists <- Underscored`) break `VTableComplete` and `ReachesMeant`; in the feature
  `noargs` the tool crashes.

### Bounds

- Blocks: in `MarkSweep` three are the fewest with a chain that has an inner block, a cycle
  with a tail and sharing; a removal from the middle of the list needs three.  Two suffice
  where the question is about one block and its neighbour: counting in `RefCount` looks at
  a block and its owner.
- Two local names are the fewest for which the order of the decrements at the end of a scope
  matters (`RefCountExact`); the other runs have one, and nested scopes that reuse it.
- `MaxAllocs` bounds the allocations of a behaviour; a later one may get the chunk of an
  earlier one that was freed.
- `Slots` is 3 in the code.  The entries are treated alike and the loop has no case
  for a particular index, so two show a loop over several, and one the overflow.
- `MaxScopes` counts the global scope, a scope for the parameter of each function and
  its blocks: 3 is `main_` alone, 5 adds nested blocks or a call.
- `MaxCount` stops programs from sharing a block further; counting is the same at
  each number above one.
- `MAX_ROOTS` is 50 in the code and 1 here, so that the table overflows.
- `Word` stands for the width of `size_t`; it is larger than what can be counted, so
  that only a count below zero wraps.  `MaxInits` is 2: the second is the first that
  finds blocks of an earlier one.
- Three declarations are the fewest with a grandparent, or with a class declared again
  between two others; a second pass that loops where the first did not needs three of one
  class.  Six tokens hold a global, and a
  function with a nested block, a declaration and a use in it.

### Symmetry

Blocks are interchangeable in `MarkSweep` and `RefCount`, which name none and choose
among them only by quantifiers.  The two runs with a liveness property use no symmetry.

### Fairness

Weak fairness of the collector (`MarkSweep!FairSpec`), of the machine that executes
instructions (`RefCount!FairSpec`) and of the tool between the commands that it runs
(`Toolchain!Spec`): one thread runs them, and they wait for nothing but commands that
return.  The visitor is no such command: on an endless program its step is never enabled,
and `InvocationEnds` does not speak of it.  Nothing is assumed of the program, which may stop making calls, nor of the
user.

## The proofs

The assumptions are those on the constants (`ConstantsOK`, `RuntimeConstantsOK`), which TLC
evaluates on each run.  The sets of blocks, programs and requests need not be finite.

| theorem | module | states |
|---|---|---|
| `TypeCorrect` | `MarkSweepProofs` | `Spec => []TypeOK`, the bound of the root table included |
| `ListCorrect` | | `Spec => []ListIntact` |
| `MarkingInvariant` | | `Spec => []Tricolour` |
| `MarkCorrect` | | `Spec => []MarkExact` |
| `CollectionCorrect` | | `Spec => []CollectionComplete` |
| `NoDanglingCorrect` | `MarkSweepSafety` | `Spec => []NoDangling` |
| `HeapImplemented` | | `Spec /\ []NoTrigger => ImplementsHeap`, with all globals registered and no empty blocks |
| `DepthCorrect` | | `Spec => []MarkDepth` |
| `ShutdownCorrect` | | `Spec => []ShutdownFreesAll` |
| `CascadeCorrect` | `RefCountProofs` | `Spec => []CascadeOnce`, for every set of features |
| `StatsCorrect` | | `Spec => []StatsExact`, for every set of features |
| `RequestedCorrect` | `ToolchainProofs` | `Spec => []ExeAsRequested` |
| `CountingCorrect` | | `Spec => []CountsAsLinked` |
| `CrashCorrect` | | `Spec => []CrashesExplained` |
| `PeakCorrect` | | `Spec => []PeakCovers` |

*The list.*  The list and reachability are least closed sets (`Closure`), about which only
two facts are used, that the closure is closed and that it is least (`ClosureClosed`,
`ClosureLeast`).  `ListIntact` is not inductive alone: `ListInv` adds that the sweep's
cursor is on the list (`CursorAlive`), without which removing the block under the cursor
could leave it behind.  Insertion, removal from the middle and removal of the head each
have a lemma (`AddKeeps`, `RemoveKeeps`, `DrainKeeps`); that the list has no cycle follows
from `prev` undoing `next` (`NoSelfLoop`).

*Marking.*  `ColourInv` adds to `ListInv` what marking needs: active blocks are marked,
marked blocks are live, scan indices are within their ranges, and during the sweep every
unmarked live block is still ahead of the cursor (`SweepCovers`).  `MarkEffect` and
`MarkKeeps` treat the one operator that all three scans share.  Marking exactly what is
reachable follows at the end of the root scan: the marked set is closed under pointers
because no activation is left, and contains the roots, so it contains the closure;
`MarkedReachable` is the other inclusion.  During the sweep the reachable set does not
change although blocks are freed (`ReachSame`), and when the cursor has run out
`SweepCovers` leaves no garbage.

*Safety.*  That a collection frees only what is unreachable does not yet protect the
program: what it can *name* must be among what the collector *reaches*.  `NamedReached`
shows it, from three facts that `SafeInv` adds to `ColourInv`: the registered globals are
in the table (`RootsAll`), the words that the program has set lie inside live payloads
(`FilledInside`), and what it can name is live (`LiveNames`).  `StepEffect` sorts all steps
by their effect on what can be named: nothing (`Kept`), a new block (`Gained`), a block
freed that had no name or no payload (`Dropped`), and the return of `ms_alloc` after a
collection (`Returned`), which either still has its block or sets `lost`.  The refinement
follows from the same four cases: `HeapStep` maps them to `Mutate`, `Allocate` and `Free`,
and the drain to `Free` after `Shutdown`.

*Recursion and shutdown.*  `mark` only enters unmarked blocks and active ones are marked
(`MarkOnce`), so none is active twice.  The drain stops at the empty list, and the list
holds every live block.

*Reference counting.*  `CascadeOnce` is inductive with the types once it says, of the live
blocks without a count, that they are exactly the active ones: `dec_ref_count` enters a
block when its count passes from one to zero, so a block that is active already is not
entered again.  This does not depend on the counts being right.

*Tool and facade.*  `FilesInv` says what each file holds at each step of an invocation, and
nothing about files between invocations except the executable (`ExeInv`); the clean at the
start re-establishes the rest.  `MemInv` says that `current_bytes` is what the allocator
holds since its init, which keeps every subtraction above zero.

Only model-checked: liveness, which is beyond the prover (`CollectionEnds`, `ZeroFreed`,
`InvocationEnds`); what rests on induction over data, a sum over a set in
`MarkSweep!StatsExact`, the counts of `RefCount` (`CountExact`, `CountCovers`,
`LeaksAreCycles`, `NoDangling`, `NoUseAfterFree` and its refinement), chains of parents in
`ClassModel` and nested blocks in `Visitor`.

## Not modelled

- The text of expressions, typedefs (resolved as structs are), `#define`, and `spawn`,
  which does nothing.
- The parser and its errors, which `main.cpp` does not test for: the models start from the
  parse tree.
- The arguments of methods and constructors (but for a parent constructor called with
  none), classes with several constructors, structs passed by value, and that every vtable entry has the type
  `void (*)(void *)`.
- Registers: the scan sees the stack only.  The runtime and the program are compiled
  without optimisation, where every local has a stack slot.
- Pointers to locals, pointer arithmetic and casts to integers.
- Nested calls as arguments, where the emitted text is not valid C.
- The parsing of the command line, and `build.sh`, which builds the tool and keeps no
  state.
