------------------------------ MODULE MarkSweep ------------------------------
(***************************************************************************)
(* The conservative mark-sweep allocator of the JBLang runtime             *)
(* (runtime/src/mark_sweep_allocator.c) and the compiled program that      *)
(* calls it.  There is one thread: while the collector runs the program    *)
(* waits in runtime_alloc, runtime_gc or runtime_shutdown.  The collector  *)
(* is nevertheless modelled step by step, one loop iteration or one        *)
(* recursive call at a time, because its correctness is an argument about  *)
(* those steps.                                                            *)
(*                                                                         *)
(* Data abstraction.  A block is one malloc chunk: an MSHeader and a       *)
(* payload of machine words.  A word is Null (any bit pattern that points  *)
(* into no payload) or a block (any address inside that block's payload).  *)
(***************************************************************************)
EXTENDS Integers, Sequences, FiniteSets, Functions

CONSTANTS
  Block,       \* the chunks malloc can hand out
  Null,        \* NULL, and every word that is not a payload address
  Global,      \* the pointer words of static storage
  Registered,  \* those whose address the generated main registers
  Sizes,       \* the payload sizes, in bytes, the program asks for
  MaxWords,    \* payload words of the largest block
  StackSize,   \* stack words available to the program's frames
  Slack,       \* stale words in the stack frames of the runtime itself
  MAX_ROOTS,   \* capacity of the roots array
  Thresholds,  \* arguments the program passes to runtime_set_gc_threshold
  MaxAllocs    \* bound: allocations per behaviour

WordBytes == 8
HeaderBytes == 32              \* sizeof(MSHeader)
DefaultThreshold == 1024 * 1024
WordsIn(bytes) == (bytes + WordBytes - 1) \div WordBytes

ASSUME ConstantsOK ==
  /\ Null \notin Block
  /\ Registered \subseteq Global
  /\ Sizes \subseteq Nat
  /\ MaxWords \in Nat
  /\ \A bytes \in Sizes : WordsIn(bytes) \in 0..MaxWords
  /\ StackSize \in Nat
  /\ Slack \in Nat
  /\ MAX_ROOTS \in Nat
  /\ Thresholds \subseteq Nat
  /\ MaxAllocs \in Nat

Word == Block \cup {Null}
Payload == [1..MaxWords -> Word]

VARIABLES
  allocation_list, next, prev,  \* the list of headers
  marked, size,                 \* the other fields of MSHeader
  roots, GC_THRESHOLD,          \* the registered roots and the trigger
  current_bytes, peak_bytes,    \* the fields of stats
  total_allocations, total_collections,
  alive,                        \* chunks malloc has given out and not got back
  heap,                         \* payload words of each block
  stack, sp,                    \* words of the program's frames, 1..sp in use
  globals,                      \* words of static storage
  assigned, filled,             \* stack and payload words the program has set
  pc,                           \* where control is
  i,                            \* loop index of the two root scans
  frames,                       \* the activations of mark, outermost first
  current,                      \* cursor of the sweep loop
  stale,                        \* what the runtime's own frames hold
  caller, fresh, dst,           \* who collects; the block and target of ms_alloc
  lost                          \* history: some ms_alloc returned a freed block

listVars == <<allocation_list, next, prev>>
hdrVars == <<marked, size>>
cfgVars == <<roots, GC_THRESHOLD>>
stats == <<current_bytes, peak_bytes, total_allocations, total_collections>>
progVars == <<stack, sp, globals, assigned, filled>>
gcVars == <<i, frames, current, stale>>
callVars == <<caller, fresh, dst>>
vars == <<listVars, hdrVars, cfgVars, stats, alive, heap, progVars, pc,
          gcVars, callVars, lost>>

-----------------------------------------------------------------------------
(***************************************************************************)
(* The allocation list.                                                    *)
(*                                                                         *)
(* A definition that no action uses, just above one of similar name, is a  *)
(* slip the code might have made there: the properties are tested on it.   *)
(***************************************************************************)

\* The least set that contains start and, with a block, its successors.
Closure(start, succ) ==
  {b \in Block : \A S \in SUBSET Block :
     start \subseteq S /\ (\A x \in S : succ[x] \subseteq S) => b \in S}

\* The headers a walk along next meets, starting at h.
ListFrom(h) == Closure({h} \ {Null}, [x \in Block |-> {next[x]} \ {Null}])

OnList == ListFrom(allocation_list)

add_allocation_one_way(b) ==
  /\ next' = [next EXCEPT ![b] = allocation_list]
  /\ prev' = [prev EXCEPT ![b] = Null]
  /\ allocation_list' = b

add_allocation(b) ==
  /\ next' = [next EXCEPT ![b] = allocation_list]
  /\ prev' = [x \in Block |-> CASE x = b -> Null
                                [] x = allocation_list -> b
                                [] OTHER -> prev[x]]
  /\ allocation_list' = b

\* free(b).  What a freed chunk held is forgotten, so that the chunks malloc has
\* back are not told apart by it.
free(b) ==
  /\ alive' = alive \ {b}
  /\ marked' = [marked EXCEPT ![b] = FALSE]
  /\ heap' = [heap EXCEPT ![b] = [k \in 1..MaxWords |-> Null]]
  /\ filled' = {e \in filled : e[1] # b}

\* remove_allocation(b) and the free(b) that follows each of its calls.
unlink_and_free(b) ==
  /\ allocation_list' = IF prev[b] = Null THEN next[b] ELSE allocation_list
  /\ next' = [x \in Block |-> CASE x = b -> Null
                                [] x = prev[b] -> next[b]
                                [] OTHER -> next[x]]
  /\ prev' = [x \in Block |-> CASE x = b -> Null
                                [] x = next[b] -> prev[b]
                                [] OTHER -> prev[x]]
  /\ free(b)

\* Both walks of the list: the header whose payload contains the address w.
\* The payload of a zero-sized block contains no address.
find_header(w) == IF w \in OnList /\ size[w] > HeaderBytes THEN w ELSE Null

is_valid_pointer(w) == find_header(w) # Null

\* The words the loop in mark reads: p runs from header+1 while p < end, so a
\* payload that is not a multiple of the word size is read past its end.
Words(b) == WordsIn(size[b] - HeaderBytes)

-----------------------------------------------------------------------------
(***************************************************************************)
(* What the collector must keep.                                           *)
(***************************************************************************)

\* The word at depth k of the scanned stack: the program's frames lie below
\* those of the runtime.
ScanWord(k) == IF k <= sp THEN stack[k] ELSE stale[k - sp]

RootWords == {ScanWord(k) : k \in 1..(sp + Slack)} \cup {globals[g] : g \in Range(roots)}

\* The blocks the collector recognises, and those of them that block x points to.
Valid == {b \in OnList : size[b] > HeaderBytes}
Points == [x \in Block |-> {heap[x][k] : k \in 1..Words(x)} \cap Valid]

\* The blocks reachable from the scanned words through payload words.
Reach == Closure(RootWords \cap Valid, Points)

\* What the program itself can name: pointers it has stored, and what it can
\* load through them.  It never loads a word it has not stored.
Pointers == ({stack[k] : k \in assigned} \cup Range(globals)) \ {Null}

Visible ==
  Closure(Pointers, [x \in Block |->
            {heap[x][k] : k \in {k \in 1..MaxWords : <<x, k>> \in filled}} \ {Null}])

Loadable == {Null} \cup Pointers \cup
            {heap[e[1]][e[2]] : e \in {e \in filled : e[1] \in Pointers}}

-----------------------------------------------------------------------------
(***************************************************************************)
(* Start-up.  Static storage is zeroed; the state is the one after         *)
(* runtime_init, with the registrations of the generated main to come.     *)
(***************************************************************************)
Init ==
  /\ allocation_list = Null
  /\ next = [b \in Block |-> Null]
  /\ prev = [b \in Block |-> Null]
  /\ marked = [b \in Block |-> FALSE]
  /\ size = [b \in Block |-> 0]
  /\ roots = << >>
  /\ GC_THRESHOLD = DefaultThreshold
  /\ current_bytes = 0 /\ peak_bytes = 0
  /\ total_allocations = 0 /\ total_collections = 0
  /\ alive = {}
  /\ heap = [b \in Block |-> [k \in 1..MaxWords |-> Null]]
  /\ stack = [k \in 1..StackSize |-> Null]
  /\ sp = 0
  /\ globals = [g \in Global |-> Null]
  /\ assigned = {}
  /\ filled = {}
  /\ pc = "boot"
  /\ i = 0
  /\ frames = << >>
  /\ current = Null
  /\ stale = [k \in 1..Slack |-> Null]
  /\ caller = "gc"
  /\ fresh = Null
  /\ dst = 0
  /\ lost = FALSE

TableFullOffByOne == Len(roots) > MAX_ROOTS
TableFull == Len(roots) >= MAX_ROOTS

\* A full table makes ms_register_root end the process.
ms_register_root(g) ==
  /\ IF TableFull
       THEN pc' = "exit" /\ UNCHANGED roots
       ELSE roots' = Append(roots, g) /\ UNCHANGED pc
  /\ UNCHANGED <<listVars, hdrVars, GC_THRESHOLD, stats, alive, heap, progVars,
                 gcVars, callVars, lost>>

\* The generated main registers its globals one after the other ...
RegisterGlobals ==
  /\ pc = "boot"
  /\ \E g \in Registered \ Range(roots) : ms_register_root(g)

\* ... and then calls main_.
EnterMain ==
  /\ pc = "boot"
  /\ Registered \subseteq Range(roots)
  /\ pc' = "app"
  /\ UNCHANGED <<listVars, hdrVars, cfgVars, stats, alive, heap, progVars,
                 gcVars, callVars, lost>>

-----------------------------------------------------------------------------
(***************************************************************************)
(* The compiled program between two runtime calls.                         *)
(***************************************************************************)

\* A local comes into scope holding whatever the stack held.
EnterScope ==
  /\ pc = "app" /\ sp < StackSize
  /\ sp' = sp + 1
  /\ \E w \in Word : stack' = [stack EXCEPT ![sp + 1] = w]
  /\ UNCHANGED <<listVars, hdrVars, cfgVars, stats, alive, heap, globals,
                 assigned, filled, pc, gcVars, callVars, lost>>

LeaveScope ==
  /\ pc = "app" /\ sp > 0
  /\ sp' = sp - 1
  /\ stack' = [stack EXCEPT ![sp] = Null]
  /\ assigned' = assigned \ {sp}
  /\ UNCHANGED <<listVars, hdrVars, cfgVars, stats, alive, heap, globals,
                 filled, pc, gcVars, callVars, lost>>

StoreLocal(k, w) ==
  /\ pc = "app" /\ k <= sp
  /\ stack' = [stack EXCEPT ![k] = w]
  /\ assigned' = assigned \cup {k}
  /\ UNCHANGED <<listVars, hdrVars, cfgVars, stats, alive, heap, sp, globals,
                 filled, pc, gcVars, callVars, lost>>

StoreGlobal(g, w) ==
  /\ pc = "app"
  /\ globals' = [globals EXCEPT ![g] = w]
  /\ UNCHANGED <<listVars, hdrVars, cfgVars, stats, alive, heap, stack, sp,
                 assigned, filled, pc, gcVars, callVars, lost>>

\* Field k of block b: only whole words inside the payload are fields.
StoreField(b, k, w) ==
  /\ pc = "app"
  /\ k * WordBytes <= size[b] - HeaderBytes
  /\ heap' = [heap EXCEPT ![b][k] = w]
  /\ filled' = filled \cup {<<b, k>>}
  /\ UNCHANGED <<listVars, hdrVars, cfgVars, stats, alive, stack, sp, globals,
                 assigned, pc, gcVars, callVars, lost>>

ms_set_gc_threshold(threshold) ==
  /\ pc = "app"
  /\ GC_THRESHOLD' = threshold
  /\ UNCHANGED <<listVars, hdrVars, roots, stats, alive, heap, progVars, pc,
                 gcVars, callVars, lost>>

-----------------------------------------------------------------------------
(***************************************************************************)
(* Collection: collect_garbage is mark_phase and then sweep_phase.  who    *)
(* called it, listed is the allocation list at the call.                   *)
(***************************************************************************)

\* mark_phase clears every mark and enters conservative_scan_stack.  The words
\* of the runtime's own frames are left over from earlier calls: anything.
collect_garbage(who, listed) ==
  /\ marked' = [b \in Block |-> IF b \in listed THEN FALSE ELSE marked[b]]
  /\ stale' \in [1..Slack -> Word]
  /\ i' = sp + Slack
  /\ pc' = "stack"
  /\ caller' = who
  /\ UNCHANGED <<frames, current>>

\* The early return of mark, and the first word its loop reads.
SkippedAnyway(h) == h = Null
Skipped(h) == h = Null \/ marked[h]

SecondWord == 2
FirstWord == 1

\* `if (is_valid_pointer(w)) mark(w)`, below the activations rest: mark returns
\* at once from a marked block, and otherwise marks it and starts on its words.
mark(w, rest) ==
  LET h == find_header(w)
  IN  IF ~is_valid_pointer(w) \/ Skipped(h)
        THEN frames' = rest /\ UNCHANGED marked
        ELSE /\ marked' = [marked EXCEPT ![h] = TRUE]
             /\ frames' = Append(rest, [blk |-> h, k |-> FirstWord])

\* One iteration of the loop of the innermost activation of mark, or its return.
MarkStep ==
  /\ frames # << >>
  /\ LET n == Len(frames)
         f == frames[n]
     IN  IF f.k <= Words(f.blk)
           THEN mark(heap[f.blk][f.k], [frames EXCEPT ![n] = [f EXCEPT !.k = @ + 1]])
           ELSE frames' = SubSeq(frames, 1, n - 1) /\ UNCHANGED marked
  /\ UNCHANGED <<listVars, size, cfgVars, stats, alive, heap, progVars, pc, i,
                 current, stale, callVars, lost>>

\* The conditions of the two scan loops.
StackLeftButBottom == i > 1
StackLeft == i > 0

RootsLeftButLast == i < Len(roots)
RootsLeft == i <= Len(roots)

\* conservative_scan_stack, from the top of the stack to stack_bottom.
ScanStack ==
  /\ pc = "stack" /\ frames = << >>
  /\ IF StackLeft
       THEN mark(ScanWord(i), << >>) /\ i' = i - 1 /\ UNCHANGED pc
       ELSE pc' = "roots" /\ i' = 1 /\ UNCHANGED <<marked, frames>>
  /\ UNCHANGED <<listVars, size, cfgVars, stats, alive, heap, progVars,
                 current, stale, callVars, lost>>

\* The loop of mark_phase over the registered roots, then into sweep_phase.
ScanRoots ==
  /\ pc = "roots" /\ frames = << >>
  /\ IF RootsLeft
       THEN mark(globals[roots[i]], << >>) /\ i' = i + 1 /\ UNCHANGED <<pc, current>>
       ELSE pc' = "sweep" /\ i' = 0 /\ current' = allocation_list
            /\ UNCHANGED <<marked, frames>>
  /\ UNCHANGED <<listVars, size, cfgVars, stats, alive, heap, progVars, stale,
                 callVars, lost>>

\* What the sweep goes on with after c: c->next as it was before c is freed.
AfterSweptStuck(c) == IF marked[c] THEN c ELSE next[c]
AfterSweptFreed(c) == IF marked[c] THEN next[c] ELSE Null
AfterSwept(c) == next[c]

\* What a freed block takes off current_bytes: its header counts.
PayloadBytes(b) == size[b] - HeaderBytes
FreedBytes(b) == size[b]

\* One iteration of sweep_phase.
SweepStep ==
  /\ pc = "sweep" /\ current # Null
  /\ current' = AfterSwept(current)
  /\ IF marked[current]
       THEN UNCHANGED <<listVars, marked, stats, alive, heap, filled>>
       ELSE /\ unlink_and_free(current)
            /\ current_bytes' = current_bytes - FreedBytes(current)
            /\ total_collections' = total_collections + 1
            /\ UNCHANGED <<peak_bytes, total_allocations>>
  /\ UNCHANGED <<size, cfgVars, stack, sp, globals, assigned, pc, i, frames,
                 stale, callVars, lost>>

\* The end of collect_garbage, and the rest of the function that called it.
SweepDone ==
  /\ pc = "sweep" /\ current = Null
  /\ pc' = IF caller = "shutdown" THEN "drain" ELSE "app"
  /\ IF caller = "alloc"
       THEN /\ stack' = [stack EXCEPT ![dst] = fresh]
            /\ assigned' = assigned \cup {dst}
            /\ lost' = (lost \/ fresh \notin alive)
       ELSE UNCHANGED <<stack, assigned, lost>>
  /\ caller' = "gc" /\ fresh' = Null /\ dst' = 0
  /\ stale' = [k \in 1..Slack |-> Null]
  /\ UNCHANGED <<listVars, hdrVars, cfgVars, stats, alive, heap, sp, globals,
                 filled, i, frames, current>>

-----------------------------------------------------------------------------
(***************************************************************************)
(* The operations of the allocator's table.                                *)
(***************************************************************************)

\* malloc returns chunk b, whose payload holds junk; the result goes to local d.
ms_alloc(bytes, d, b, junk) ==
  LET total == HeaderBytes + bytes
      now == current_bytes + total
  IN  /\ alive' = alive \cup {b}
      /\ size' = [size EXCEPT ![b] = total]
      /\ heap' = [heap EXCEPT ![b] =
                    [k \in 1..MaxWords |-> IF k <= WordsIn(bytes) THEN junk[k] ELSE Null]]
      /\ add_allocation(b)
      /\ current_bytes' = now
      /\ total_allocations' = total_allocations + 1
      /\ peak_bytes' = IF now > peak_bytes THEN now ELSE peak_bytes
      /\ UNCHANGED total_collections
      /\ IF now > GC_THRESHOLD
           THEN /\ collect_garbage("alloc", OnList \cup {b})
                /\ fresh' = b /\ dst' = d
                /\ UNCHANGED <<stack, assigned>>
           ELSE /\ marked' = [marked EXCEPT ![b] = FALSE]
                /\ stack' = [stack EXCEPT ![d] = b]
                /\ assigned' = assigned \cup {d}
                /\ UNCHANGED <<pc, gcVars, callVars>>

\* malloc returns NULL, and so does ms_alloc.
OutOfMemory(d) ==
  /\ stack' = [stack EXCEPT ![d] = Null]
  /\ assigned' = assigned \cup {d}
  /\ UNCHANGED <<listVars, hdrVars, stats, alive, heap, pc, gcVars, callVars>>

Alloc ==
  /\ pc = "app" /\ total_allocations < MaxAllocs
  /\ \E d \in 1..sp :
       \/ OutOfMemory(d)
       \/ \E bytes \in Sizes, b \in Block \ alive, junk \in Payload : ms_alloc(bytes, d, b, junk)
  /\ UNCHANGED <<cfgVars, sp, globals, filled, lost>>

\* No facade function reaches ms_dealloc.  Its caller owes it a block that the
\* program can no longer name.
ms_dealloc(b) ==
  /\ pc = "app" /\ b \in alive \ Visible
  /\ unlink_and_free(b)
  /\ current_bytes' = current_bytes - FreedBytes(b)
  /\ UNCHANGED <<peak_bytes, total_allocations, total_collections, size, cfgVars,
                 stack, sp, globals, assigned, pc, gcVars, callVars, lost>>

ms_gc ==
  /\ pc = "app"
  /\ collect_garbage("gc", OnList)
  /\ UNCHANGED <<listVars, size, cfgVars, stats, alive, heap, progVars, fresh,
                 dst, lost>>

\* The generated main calls runtime_shutdown when main_ has returned.
ms_shutdown ==
  /\ pc = "app" /\ sp = 0
  /\ collect_garbage("shutdown", OnList)
  /\ UNCHANGED <<listVars, size, cfgVars, stats, alive, heap, progVars, fresh,
                 dst, lost>>

DrainLeftButLast == allocation_list # Null /\ next[allocation_list] # Null
DrainLeft == allocation_list # Null

\* The loop that ends ms_shutdown frees the head, whatever its mark.  It leaves
\* the statistics and the back links alone.
DrainStep ==
  /\ pc = "drain"
  /\ IF DrainLeft
       THEN /\ allocation_list' = next[allocation_list]
            /\ next' = [next EXCEPT ![allocation_list] = Null]
            /\ free(allocation_list)
            /\ UNCHANGED pc
       ELSE pc' = "down" /\ UNCHANGED <<allocation_list, next, alive, marked, heap, filled>>
  /\ UNCHANGED <<prev, size, cfgVars, stats, stack, sp, globals, assigned,
                 gcVars, callVars, lost>>

Terminated == pc \in {"down", "exit"} /\ UNCHANGED vars

Collector == MarkStep \/ ScanStack \/ ScanRoots \/ SweepStep \/ SweepDone \/ DrainStep

Mutator ==
  \/ EnterScope \/ LeaveScope
  \/ \E w \in Loadable :
       \/ \E k \in 1..StackSize : StoreLocal(k, w)
       \/ \E g \in Global : StoreGlobal(g, w)
       \/ \E b \in Pointers, k \in 1..MaxWords : StoreField(b, k, w)

RuntimeCall ==
  \/ Alloc \/ ms_gc \/ ms_shutdown
  \/ \E b \in Block : ms_dealloc(b)
  \/ \E t \in Thresholds : ms_set_gc_threshold(t)
  \/ pc = "app" /\ \E g \in Global : ms_register_root(g)

Next == RegisterGlobals \/ EnterMain \/ Mutator \/ RuntimeCall \/ Collector \/ Terminated

Spec == Init /\ [][Next]_vars

\* One thread runs the collector, so nothing delays its next step.
FairSpec == Spec /\ WF_vars(Collector)

-----------------------------------------------------------------------------
(***************************************************************************)
(* Properties.                                                             *)
(***************************************************************************)
Activation == [blk : Block, k : Nat \ {0}]

\* Every variable of the allocator, the program and the collector has its type;
\* a header on the list records a size of at least sizeof(MSHeader).
TypeOK ==
  /\ allocation_list \in Word
  /\ next \in [Block -> Word]
  /\ prev \in [Block -> Word]
  /\ marked \in [Block -> BOOLEAN]
  /\ size \in [Block -> Nat]
  /\ \A b \in alive : size[b] - HeaderBytes \in Sizes
  /\ roots \in Seq(Global) /\ Len(roots) <= MAX_ROOTS
  /\ GC_THRESHOLD \in Nat
  /\ current_bytes \in Int /\ peak_bytes \in Int
  /\ total_allocations \in Nat /\ total_collections \in Nat
  /\ alive \subseteq Block
  /\ heap \in [Block -> Payload]
  /\ stack \in [1..StackSize -> Word]
  /\ sp \in 0..StackSize
  /\ globals \in [Global -> Word]
  /\ assigned \subseteq 1..sp
  /\ filled \subseteq Block \X (1..MaxWords)
  /\ pc \in {"boot", "app", "stack", "roots", "sweep", "drain", "down", "exit"}
  /\ i \in Nat
  /\ frames \in Seq(Activation)
  /\ current \in Word
  /\ stale \in [1..Slack -> Word]
  /\ caller \in {"alloc", "gc", "shutdown"}
  /\ fresh \in Word
  /\ dst \in 0..StackSize
  /\ caller = "alloc" => pc \in {"stack", "roots", "sweep"} /\ dst \in 1..sp
  /\ lost \in BOOLEAN

\* add_allocation and remove_allocation keep the list whole: a walk along next
\* meets exactly the chunks malloc has outstanding, so no walk touches a freed
\* header and no block is forgotten; it has no cycle, as prev undoes next and
\* nothing precedes the head; and until shutdown drains the list without care for
\* prev, next also undoes prev.
ListIntact ==
  /\ OnList = alive
  /\ allocation_list # Null => prev[allocation_list] \notin alive
  /\ \A b \in alive : next[b] # Null => prev[next[b]] = b
  /\ pc \notin {"drain", "down"} =>
       \A b \in alive : IF prev[b] = Null THEN b = allocation_list
                        ELSE prev[b] \in alive /\ next[prev[b]] = b

\* The mark phase is exact: when the sweep runs, the marked blocks are those
\* reachable from the stack words and registered roots through payload words,
\* whatever cycles and sharing the heap has, and however far the sweep has got.
MarkExact == pc = "sweep" => {b \in alive : marked[b]} = Reach

\* The three parts of the marking invariant.  A marked block is reachable; a word
\* of a marked block points to a marked block unless an activation of mark has the
\* word still to come; what the scans have passed is marked.
MarkedReachable == \A b \in Block : marked[b] => b \in Reach

NoHiddenChild ==
  \A b \in Block : marked[b] =>
    \A k \in 1..Words(b) : heap[b][k] \in Valid =>
      \/ marked[heap[b][k]]
      \/ \E n \in DOMAIN frames : frames[n].blk = b /\ frames[n].k <= k

ScannedMarked ==
  /\ \A k \in 1..(sp + Slack) : (pc = "stack" => k > i) =>
       (ScanWord(k) \in Valid => marked[ScanWord(k)])
  /\ pc # "stack" => \A j \in 1..Len(roots) : (pc = "roots" => j < i) =>
       (globals[roots[j]] \in Valid => marked[globals[roots[j]]])

\* At every step of a collection, between any two recursive calls of mark, the
\* marking is sound and loses no block: the invariant that makes MarkExact hold.
Tricolour ==
  pc \in {"stack", "roots", "sweep"} => MarkedReachable /\ NoHiddenChild /\ ScannedMarked

\* A collection frees all garbage and nothing else: when collect_garbage returns,
\* what is left on the heap is what its roots reach.
CollectionComplete == pc = "sweep" /\ current = Null => alive = Reach

\* Until main_ has returned no block the program can name has been freed, unless an
\* earlier ms_alloc already returned a freed block, or the block is zero-sized:
\* find_header recognises no pointer to such a block.  All globals must be registered.
NoDangling ==
  Registered = Global /\ ~lost /\ pc \notin {"drain", "down"} =>
    \A b \in Visible : b \in alive \/ size[b] = HeaderBytes

\* The statistics agree with the heap: until the drain of ms_shutdown, which does
\* not count what it frees, current_bytes is the total size of the live blocks,
\* and it never exceeded peak_bytes.
StatsExact ==
  /\ pc \notin {"drain", "down"} =>
       current_bytes = SumFunctionOnSet(size, alive)
  /\ current_bytes <= peak_bytes
  /\ total_collections <= total_allocations

\* mark recurses on the C stack once per block of the heap at most: no block is
\* active twice, however cyclic the heap.
MarkDepth ==
  /\ \A m, n \in DOMAIN frames : frames[m].blk = frames[n].blk => m = n
  /\ \A n \in DOMAIN frames : frames[n].blk \in alive /\ marked[frames[n].blk]

\* ms_shutdown returns every chunk to malloc, reachable or not.
ShutdownFreesAll == pc = "down" => alive = {}

\* Every call that collects returns: no heap shape makes mark, the sweep or the
\* drain run forever.
CollectionEnds == pc \in {"stack", "roots", "sweep", "drain"} ~> pc \in {"app", "down"}

\* The allocator implements the managed heap: it only takes back what the program can
\* no longer name, whatever step of the program or of a collection comes next, and
\* what it gives out was not in use.  It takes programs that never pass the threshold,
\* ask for no empty block and have all globals registered (compare MarkSweepFresh).
Heap == INSTANCE ManagedHeap WITH named <- Visible, down <- pc \in {"drain", "down"}
ImplementsHeap == Heap!Spec

\* What a local was given by an allocation is still allocated: the keeper that the
\* threshold test of tests/examples/test_mark_sweep.jb expects "still alive".
LocalsAlive == pc = "app" => \A k \in assigned : stack[k] \in alive \cup {Null}

\* Globals are roots: what a global points to has not been collected, as the test of
\* globals in test_mark_sweep.jb prints.
GlobalsAlive == pc = "app" => \A g \in Global : globals[g] \in alive \cup {Null}

=============================================================================
