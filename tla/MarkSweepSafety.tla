--------------------------- MODULE MarkSweepSafety ---------------------------
(***************************************************************************)
(* The program's side of MarkSweep, for every heap, stack and program: a   *)
(* collection never takes what the program can name, and the allocator     *)
(* implements ManagedHeap.  MarkSweepProofs shows which blocks a           *)
(* collection frees; what is added here is that the roots it scans cover   *)
(* what the program can name.                                              *)
(***************************************************************************)
EXTENDS MarkSweepProofs

USE DEF TableFull, Skipped, is_valid_pointer, FirstWord, StackLeft, RootsLeft, AfterSwept, FreedBytes, DrainLeft

\* Visible, with the memory as parameters: what can be named before and after a step.
NamedBy(ptrs, mem, set) ==
  Closure(ptrs, [x \in Block |-> {mem[x][k] : k \in {k \in 1..MaxWords : <<x, k>> \in set}} \ {Null}])

\* What a set of pointers names is closed under the fields that were set ...
LEMMA NamedClosed ==
  ASSUME NEW ptrs \in SUBSET Block, NEW mem \in [Block -> Payload], NEW set
  PROVE  /\ NamedBy(ptrs, mem, set) \subseteq Block
         /\ ptrs \subseteq NamedBy(ptrs, mem, set)
         /\ \A x \in NamedBy(ptrs, mem, set), k \in 1..MaxWords :
              <<x, k>> \in set => mem[x][k] \in NamedBy(ptrs, mem, set) \cup {Null}
<1> DEFINE succ == [x \in Block |->
                     {mem[x][k] : k \in {k \in 1..MaxWords : <<x, k>> \in set}} \ {Null}]
<1>1. \A x \in Block, k \in 1..MaxWords : mem[x][k] \in Word
  BY DEF Payload
<1>2. succ \in [Block -> SUBSET Block]
  BY <1>1 DEF Word
<1>3. /\ Closure(ptrs, succ) \subseteq Block
      /\ ptrs \subseteq Closure(ptrs, succ)
      /\ \A x \in Closure(ptrs, succ) : succ[x] \subseteq Closure(ptrs, succ)
  BY <1>2, ClosureClosed
<1>4. \A x \in Block, k \in 1..MaxWords :
        <<x, k>> \in set => mem[x][k] \in succ[x] \cup {Null}
  OBVIOUS
<1> QED
  BY <1>3, <1>4 DEF NamedBy

\* ... and is the least such set.
LEMMA NamedLeast ==
  ASSUME NEW ptrs, NEW mem, NEW set, NEW S \in SUBSET Block,
         ptrs \subseteq S,
         \A x \in S, k \in 1..MaxWords : <<x, k>> \in set => mem[x][k] \in S \cup {Null}
  PROVE  NamedBy(ptrs, mem, set) \subseteq S
<1> DEFINE succ == [x \in Block |->
                     {mem[x][k] : k \in {k \in 1..MaxWords : <<x, k>> \in set}} \ {Null}]
<1>1. \A x \in S : succ[x] \subseteq S
  OBVIOUS
<1>2. Closure(ptrs, succ) \subseteq S
  BY <1>1, ClosureLeast
<1> QED
  BY <1>2 DEF NamedBy

\* The program's own pointers are blocks.
LEMMA PointersInBlock == ASSUME TypeOK PROVE Pointers \subseteq Block
<1>1. \A k \in assigned : stack[k] \in Word
  BY ConstantsOK DEF TypeOK
<1>2. \A g \in DOMAIN globals : globals[g] \in Word
  BY DEF TypeOK
<1> QED
  BY <1>1, <1>2 DEF Pointers, Range, Word

\* NamedClosed for the state's own memory.
LEMMA VisibleClosed ==
  ASSUME TypeOK
  PROVE  /\ Visible \subseteq Block
         /\ Pointers \subseteq Visible
         /\ \A x \in Visible, k \in 1..MaxWords :
              <<x, k>> \in filled => heap[x][k] \in Visible \cup {Null}
<1>1. Pointers \in SUBSET Block /\ heap \in [Block -> Payload]
  BY PointersInBlock DEF TypeOK
<1>2. Visible = NamedBy(Pointers, heap, filled)
  BY DEF Visible, NamedBy
<1> QED
  BY <1>1, <1>2, NamedClosed

\* What the program can load, it can name.
LEMMA LoadableVisible == ASSUME TypeOK PROVE Loadable \subseteq Visible \cup {Null}
<1>1. \A e \in filled : e[1] \in Block /\ e[2] \in 1..MaxWords /\ e = <<e[1], e[2]>>
  BY DEF TypeOK
<1>2. \A e \in filled : e[1] \in Pointers => heap[e[1]][e[2]] \in Visible \cup {Null}
  BY <1>1, VisibleClosed
<1> QED
  BY <1>2, VisibleClosed DEF Loadable

\* A step that only adds names of blocks of c, and gives no contents to those, lets
\* the program name no more than before and c.
LEMMA VisibleWithin ==
  ASSUME TypeOK, NEW c \in SUBSET Block,
         Pointers' \subseteq Visible \cup c,
         \A x \in Block, k \in 1..MaxWords : <<x, k>> \in filled' =>
           \/ x \notin c /\ <<x, k>> \in filled /\ heap'[x][k] = heap[x][k]
           \/ heap'[x][k] \in Visible \cup {Null}
  PROVE  Visible' \subseteq Visible \cup c
<1> DEFINE S == Visible \cup c
<1>1. S \in SUBSET Block
  BY VisibleClosed
<1>2. ASSUME NEW x \in S, NEW k \in 1..MaxWords, <<x, k>> \in filled'
      PROVE  heap'[x][k] \in S \cup {Null}
  BY <1>1, <1>2, VisibleClosed
<1>3. NamedBy(Pointers', heap', filled') \subseteq S
  BY <1>1, <1>2, NamedLeast
<1>4. Visible' = NamedBy(Pointers', heap', filled')
  BY DEF Visible, NamedBy
<1> QED
  BY <1>3, <1>4

\* Freeing a block makes nothing new nameable.
LEMMA FreeNames ==
  ASSUME TypeOK, NEW b \in Block, free(b), UNCHANGED <<stack, globals, assigned>>
  PROVE  Visible' \subseteq Visible
<1>1. Pointers' = Pointers
  BY DEF Pointers, Range
<1>2. ASSUME NEW x \in Block, NEW k \in 1..MaxWords, <<x, k>> \in filled'
      PROVE  <<x, k>> \in filled /\ heap'[x][k] = heap[x][k]
  <2>1. <<x, k>> \in filled /\ x # b
    BY <1>2 DEF free
  <2> QED
    BY <2>1 DEF free, TypeOK
<1>3. {} \in SUBSET Block
  OBVIOUS
<1>4. Visible' \subseteq Visible \cup {}
  BY <1>1, <1>2, <1>3, VisibleClosed, VisibleWithin
<1> QED
  BY <1>4

-----------------------------------------------------------------------------
(***************************************************************************)
(* What the program can name is among what the collector reaches.          *)
(***************************************************************************)

\* What the program has set lies in the payload of a live block.
FilledInside ==
  \A x \in Block, k \in 1..MaxWords : <<x, k>> \in filled => x \in alive /\ k <= Words(x)

\* It has set nothing in a block that ms_alloc has yet to return.
FreshEmpty ==
  caller = "alloc" => fresh \in Block /\ \A k \in 1..MaxWords : <<fresh, k>> \notin filled

\* What the program can name is live, or a block without a payload.
LiveNames == \A b \in Visible : b \in alive \/ size[b] = HeaderBytes

\* From the first call of main_ on, the registered globals are in the root table.
RootsAll == pc \notin {"boot", "exit"} => Registered \subseteq Range(roots)

\* The inductive invariant: the marking's, and the above until ms_alloc has lost a block.
SafeInv ==
  /\ ColourInv /\ RootsAll
  /\ ~lost /\ pc \notin {"drain", "down"} => FilledInside /\ FreshEmpty /\ LiveNames

\* While a collection runs, what the program can name is reachable from the words that
\* mark-sweep scans, but for blocks without a payload, which find_header never recognises.
LEMMA NamedReached ==
  ASSUME Registered = Global, ColourInv, RootsAll, FilledInside, LiveNames,
         pc \in {"stack", "roots", "sweep"}
  PROVE  \A b \in Visible : b \in Reach \/ size[b] = HeaderBytes
<1> DEFINE S == {b \in Visible : b \in Reach \/ size[b] = HeaderBytes}
<1>0. TypeOK /\ OnList = alive
  BY DEF ColourInv, ListInv, ListIntact
<1>1. ASSUME NEW b \in Visible
      PROVE  b \in Valid \/ size[b] = HeaderBytes
  <2>1. b \in Block /\ size[b] \in Nat
    BY <1>0, VisibleClosed DEF TypeOK
  <2>2. CASE b \in alive
    <3>1. size[b] - HeaderBytes \in Nat
      BY <1>0, <2>2, ConstantsOK DEF TypeOK
    <3> QED
      BY <1>0, <2>1, <2>2, <3>1 DEF Valid, HeaderBytes
  <2> QED
    BY <2>2 DEF LiveNames
<1>2. Pointers \subseteq RootWords
  <2>1. ASSUME NEW k \in assigned
        PROVE  stack[k] \in RootWords
    <3>1. k \in 1..(sp + Slack) /\ k <= sp
      BY <1>0, ConstantsOK DEF TypeOK
    <3>2. ScanWord(k) = stack[k]
      BY <3>1 DEF ScanWord
    <3> QED
      BY <3>1, <3>2 DEF RootWords
  <2>2. ASSUME NEW g \in DOMAIN globals
        PROVE  globals[g] \in RootWords
    <3>1. g \in Range(roots)
      BY <1>0 DEF TypeOK, RootsAll
    <3> QED
      BY <3>1 DEF RootWords
  <2> QED
    BY <2>1, <2>2 DEF Pointers, Range
<1>3. Pointers \subseteq S
  BY <1>0, <1>1, <1>2, VisibleClosed, ReachClosed
<1>4. ASSUME NEW x \in S, NEW k \in 1..MaxWords, <<x, k>> \in filled
      PROVE  heap[x][k] \in S \cup {Null}
  <2>1. x \in Block /\ k <= Words(x)
    BY <1>0, <1>4, VisibleClosed DEF FilledInside
  <2>2. size[x] # HeaderBytes
    BY <2>1 DEF Words, WordsIn, WordBytes, HeaderBytes
  <2>3. k \in 1..Words(x)
    <3>1. Words(x) \in Int
      BY <1>0, <2>1 DEF TypeOK, Words, WordsIn, WordBytes, HeaderBytes
    <3> QED
      BY <2>1, <3>1
  <2>4. heap[x][k] \in Visible \cup {Null}
    BY <1>0, <1>4, VisibleClosed
  <2> QED
    BY <1>0, <1>1, <2>2, <2>3, <2>4, ReachClosed
<1>5. S \in SUBSET Block
  BY <1>0, VisibleClosed
<1>6. NamedBy(Pointers, heap, filled) \subseteq S
  BY <1>3, <1>4, <1>5, NamedLeast
<1>7. Visible = NamedBy(Pointers, heap, filled)
  BY DEF Visible, NamedBy
<1> QED
  BY <1>6, <1>7

-----------------------------------------------------------------------------
(***************************************************************************)
(* What a step does to the live blocks and to the names of the program.    *)
(***************************************************************************)
Kept == alive' = alive /\ size' = size /\ Visible' \subseteq Visible

Gained(b) ==
  /\ b \notin alive /\ alive' = alive \cup {b}
  /\ \A x \in Block \ {b} : size'[x] = size[x]
  /\ Visible' \subseteq Visible \cup {b}
  /\ pc' \in {"app", "stack"}

Dropped(b) ==
  /\ b \in alive /\ alive' = alive \ {b}
  /\ b \in Visible => size[b] = HeaderBytes
  /\ size' = size /\ Visible' \subseteq Visible /\ pc' = pc

\* ms_alloc returns after a collection.
Returned ==
  /\ caller = "alloc" /\ alive' = alive /\ size' = size
  /\ Visible' \subseteq Visible \cup {fresh}
  /\ fresh \in alive \/ lost'

\* A step that leaves the memory alone loses and adds nothing.
LEMMA QuietKept ==
  ASSUME UNCHANGED <<alive, size, heap, stack, globals, assigned, filled>>
  PROVE  Kept
<1>1. Pointers' = Pointers
  BY DEF Pointers, Range
<1>2. Visible = NamedBy(Pointers, heap, filled) /\ Visible' = NamedBy(Pointers', heap', filled')
  BY DEF Visible, NamedBy
<1> QED
  BY <1>1, <1>2 DEF Kept

\* A step that leaves payloads alone and sets pointers to named blocks only.
LEMMA PointerKept ==
  ASSUME TypeOK, Pointers' \subseteq Visible,
         UNCHANGED <<alive, size, heap, filled>>
  PROVE  Kept
<1>1. Visible' \subseteq Visible \cup {}
  BY VisibleWithin
<1> QED
  BY <1>1 DEF Kept

\* Copying a pointer, or opening or closing a scope, names nothing that had no name.
LEMMA MutatorKept ==
  ASSUME TypeOK, Mutator
  PROVE  Kept
<1>0. Pointers \subseteq Visible /\ Loadable \subseteq Visible \cup {Null}
  BY VisibleClosed, LoadableVisible
<1>t. /\ stack \in [1..StackSize -> Word] /\ sp \in Nat /\ assigned \subseteq 1..sp
      /\ globals \in [Global -> Word] /\ heap \in [Block -> Payload]
  BY ConstantsOK DEF TypeOK
<1>1. CASE EnterScope
  <2>1. \A k \in assigned : stack'[k] = stack[k]
    BY <1>t, <1>1 DEF EnterScope
  <2>2. Pointers' = Pointers
    BY <1>1, <2>1 DEF EnterScope, Pointers
  <2> QED
    BY <1>0, <1>1, <2>2, PointerKept DEF EnterScope, hdrVars
<1>2. CASE LeaveScope
  <2>1. \A k \in assigned' : k \in assigned /\ stack'[k] = stack[k]
    BY <1>t, <1>2 DEF LeaveScope
  <2>2. Pointers' \subseteq Pointers
    BY <1>2, <2>1 DEF LeaveScope, Pointers
  <2> QED
    BY <1>0, <1>2, <2>2, PointerKept DEF LeaveScope, hdrVars
<1>3. ASSUME NEW w \in Loadable, NEW k \in 1..StackSize, StoreLocal(k, w)
      PROVE  Kept
  <2>1. \A j \in assigned' : stack'[j] = w \/ (j \in assigned /\ stack'[j] = stack[j])
    BY <1>t, <1>3 DEF StoreLocal
  <2>2. Pointers' \subseteq Visible
    BY <1>0, <1>3, <2>1 DEF StoreLocal, Pointers
  <2> QED
    BY <1>3, <2>2, PointerKept DEF StoreLocal, hdrVars
<1>4. ASSUME NEW w \in Loadable, NEW g \in Global, StoreGlobal(g, w)
      PROVE  Kept
  <2>1. Range(globals') \subseteq Range(globals) \cup {w}
    BY <1>t, <1>4 DEF StoreGlobal, Range
  <2>2. Pointers' \subseteq Visible
    BY <1>0, <1>4, <2>1 DEF StoreGlobal, Pointers
  <2> QED
    BY <1>4, <2>2, PointerKept DEF StoreGlobal, hdrVars
<1>5. ASSUME NEW w \in Loadable, NEW b \in Pointers, NEW k \in 1..MaxWords, StoreField(b, k, w)
      PROVE  Kept
  <2>0. b \in Block
    BY PointersInBlock
  <2>1. Pointers' = Pointers
    BY <1>5 DEF StoreField, Pointers
  <2>2. ASSUME NEW x \in Block, NEW j \in 1..MaxWords, <<x, j>> \in filled'
        PROVE  \/ <<x, j>> \in filled /\ heap'[x][j] = heap[x][j]
               \/ heap'[x][j] \in Visible \cup {Null}
    <3>1. CASE x = b /\ j = k
      <4>1. heap'[x][j] = w
        BY <1>t, <1>5, <2>0, <3>1 DEF StoreField, Payload
      <4> QED
        BY <1>0, <4>1
    <3>2. CASE ~(x = b /\ j = k)
      <4>1. heap'[x][j] = heap[x][j]
        BY <1>t, <1>5, <2>0, <3>2 DEF StoreField, Payload
      <4>2. <<x, j>> # <<b, k>>
        BY <3>2
      <4> QED
        BY <1>5, <2>2, <4>1, <4>2 DEF StoreField
    <3> QED
      BY <3>1, <3>2
  <2>3. Visible' \subseteq Visible \cup {}
    BY <1>0, <2>1, <2>2, VisibleWithin
  <2> QED
    BY <1>5, <2>3 DEF StoreField, hdrVars, Kept
<1> QED
  BY <1>1, <1>2, <1>3, <1>4, <1>5 DEF Mutator

\* The locals that have been assigned are in the stack.
LEMMA AssignedOnStack ==
  ASSUME TypeOK'
  PROVE  assigned' \subseteq 1..StackSize
<1>1. assigned' \subseteq 1..sp' /\ sp' \in 0..StackSize
  BY DEF TypeOK
<1> QED
  BY <1>1, ConstantsOK

\* ms_alloc names the new block and no other.
LEMMA AllocGained ==
  ASSUME TypeOK, TypeOK', FilledInside, pc = "app", UNCHANGED <<globals, filled>>,
         NEW d, NEW bytes, NEW b \in Block \ alive, NEW junk, ms_alloc(bytes, d, b, junk)
  PROVE  Gained(b)
<1>1. \A k \in 1..MaxWords : <<b, k>> \notin filled
  BY DEF FilledInside
<1>2. \A x \in Block \ {b} : size'[x] = size[x] /\ heap'[x] = heap[x]
  BY DEF ms_alloc, TypeOK
<1>3. alive' = alive \cup {b} /\ pc' \in {"app", "stack"}
  BY DEF ms_alloc, collect_garbage
<1>4. Pointers' \subseteq Pointers \cup {b}
  <2>1. UNCHANGED <<stack, assigned>> \/
        (stack' = [stack EXCEPT ![d] = b] /\ assigned' = assigned \cup {d})
    BY DEF ms_alloc
  <2>2. assigned' \subseteq 1..StackSize /\ stack \in [1..StackSize -> Word]
    BY AssignedOnStack DEF TypeOK
  <2>3. \A k \in assigned' : stack'[k] = b \/ (k \in assigned /\ stack'[k] = stack[k])
    BY <2>1, <2>2
  <2> QED
    BY <2>3 DEF Pointers
<1>5. Visible' \subseteq Visible \cup {b}
  BY <1>1, <1>2, <1>4, VisibleClosed, VisibleWithin
<1> QED
  BY <1>2, <1>3, <1>5 DEF Gained

\* Freeing a block without a name, or without a payload, changes nothing else that is named.
LEMMA FreeDropped ==
  ASSUME TypeOK, NEW b \in alive, free(b), b \in Visible => size[b] = HeaderBytes,
         UNCHANGED <<size, stack, globals, assigned, pc>>
  PROVE  Dropped(b)
<1>1. b \in Block
  BY DEF TypeOK
<1>2. alive' = alive \ {b}
  BY DEF free
<1> QED
  BY <1>1, <1>2, FreeNames DEF Dropped

\* The sweep frees nothing the program can name.
LEMMA SweepDropped ==
  ASSUME Registered = Global, SafeInv, ~lost, SweepStep
  PROVE  Kept \/ \E b \in Block : Dropped(b)
<1>0. /\ TypeOK /\ ColourInv /\ RootsAll /\ FilledInside /\ LiveNames
      /\ pc = "sweep" /\ current # Null
  BY DEF SafeInv, ColourInv, ListInv, SweepStep
<1>1. CASE marked[current]
  BY <1>1, QuietKept DEF SweepStep
<1>2. CASE ~marked[current]
  <2>1. current \in alive /\ current \in Block
    BY <1>0 DEF ColourInv, ListInv, CursorAlive, TypeOK
  <2>2. current \notin Reach
    BY <1>0, <1>2, SweepExact DEF ColourInv
  <2>3. current \in Visible => size[current] = HeaderBytes
    BY <1>0, <2>2, NamedReached
  <2>4. free(current) /\ UNCHANGED <<size, stack, globals, assigned, pc>>
    BY <1>2 DEF SweepStep, unlink_and_free
  <2> QED
    BY <1>0, <2>1, <2>3, <2>4, FreeDropped
<1> QED
  BY <1>1, <1>2

\* The end of a collection names nothing, or hands the block it was triggered for to the program.
LEMMA SweepDoneReturned ==
  ASSUME TypeOK, TypeOK', FreshEmpty, SweepDone
  PROVE  Kept \/ Returned
<1>1. CASE caller # "alloc"
  BY <1>1, QuietKept DEF SweepDone, hdrVars
<1>2. CASE caller = "alloc"
  <2>1. /\ stack' = [stack EXCEPT ![dst] = fresh] /\ assigned' = assigned \cup {dst}
        /\ UNCHANGED <<alive, size, heap, globals, filled>>
        /\ lost' = (lost \/ fresh \notin alive)
    BY <1>2 DEF SweepDone, hdrVars
  <2>2. assigned' \subseteq 1..StackSize /\ stack \in [1..StackSize -> Word]
    BY AssignedOnStack DEF TypeOK
  <2>3. \A k \in assigned' : stack'[k] = fresh \/ (k \in assigned /\ stack'[k] = stack[k])
    BY <2>1, <2>2
  <2>4. Pointers' \subseteq Pointers \cup {fresh}
    BY <2>1, <2>3 DEF Pointers
  <2>5. fresh \in Block /\ \A k \in 1..MaxWords : <<fresh, k>> \notin filled
    BY <1>2 DEF FreshEmpty
  <2>6. Visible' \subseteq Visible \cup {fresh}
    BY <2>1, <2>4, <2>5, VisibleClosed, VisibleWithin
  <2> QED
    BY <1>2, <2>1, <2>6 DEF Returned
<1> QED
  BY <1>1, <1>2

\* Every step before the drain of ms_shutdown has one of the four effects.
LEMMA StepEffect ==
  ASSUME Registered = Global, SafeInv, ~lost, pc \notin {"drain", "down"}, [Next]_vars
  PROVE  Kept \/ Returned \/ \E b \in Block : Gained(b) \/ Dropped(b)
<1>0. /\ TypeOK /\ TypeOK' /\ FilledInside /\ FreshEmpty
  BY TypeNext DEF SafeInv, ColourInv, ListInv
<1>1. CASE RegisterGlobals \/ EnterMain
  BY <1>1, QuietKept DEF RegisterGlobals, EnterMain, ms_register_root, hdrVars, progVars
<1>2. CASE Mutator
  BY <1>0, <1>2, MutatorKept
<1>3. CASE Alloc
  <2>0. pc = "app" /\ UNCHANGED <<globals, filled>>
    BY <1>3 DEF Alloc
  <2>1. ASSUME NEW d \in 1..sp, OutOfMemory(d)
        PROVE  Kept
    <3>1. \A k \in assigned' : stack'[k] = Null \/ (k \in assigned /\ stack'[k] = stack[k])
      <4>1. assigned' \subseteq 1..StackSize /\ stack \in [1..StackSize -> Word]
        BY <1>0, AssignedOnStack DEF TypeOK
      <4> QED
        BY <2>1, <4>1 DEF OutOfMemory
    <3>2. Pointers' \subseteq Pointers
      BY <2>0, <3>1 DEF Pointers
    <3> QED
      BY <1>0, <2>0, <2>1, <3>2, VisibleClosed, PointerKept DEF OutOfMemory, hdrVars
  <2>2. ASSUME NEW d, NEW bytes, NEW b \in Block \ alive, NEW junk, ms_alloc(bytes, d, b, junk)
        PROVE  Gained(b)
    BY <1>0, <2>0, <2>2, AllocGained
  <2> QED
    BY <1>3, <2>1, <2>2 DEF Alloc
<1>4. CASE ms_gc \/ ms_shutdown
  BY <1>4, QuietKept DEF ms_gc, ms_shutdown, progVars
<1>5. ASSUME NEW b \in Block, ms_dealloc(b)
      PROVE  Dropped(b)
  BY <1>0, <1>5, FreeDropped DEF ms_dealloc, unlink_and_free
<1>6. ASSUME NEW t, ms_set_gc_threshold(t)
      PROVE  Kept
  BY <1>6, QuietKept DEF ms_set_gc_threshold, hdrVars, progVars
<1>7. ASSUME NEW g, ms_register_root(g)
      PROVE  Kept
  BY <1>7, QuietKept DEF ms_register_root, hdrVars, progVars
<1>8. CASE MarkStep \/ ScanStack \/ ScanRoots
  BY <1>8, QuietKept DEF MarkStep, ScanStack, ScanRoots, progVars
<1>9. CASE SweepStep
  BY <1>9, SweepDropped
<1>10. CASE SweepDone
  BY <1>0, <1>10, SweepDoneReturned
<1>11. CASE UNCHANGED vars
  BY <1>11, QuietKept DEF vars, hdrVars, progVars
<1>12. ~DrainStep
  BY DEF DrainStep
<1> QED
  BY <1>1, <1>2, <1>3, <1>4, <1>5, <1>6, <1>7, <1>8, <1>9, <1>10, <1>11, <1>12
  DEF Next, RuntimeCall, Collector, Terminated

\* What is named stays live through each of these effects, unless ms_alloc lost its block.
LEMMA LiveKept ==
  ASSUME LiveNames, ~lost', Kept \/ Returned \/ \E b \in Block : Gained(b) \/ Dropped(b),
         Visible \subseteq Block
  PROVE  LiveNames'
<1>1. CASE Kept
  BY <1>1 DEF Kept, LiveNames
<1>2. CASE Returned
  BY <1>2 DEF Returned, LiveNames
<1>3. ASSUME NEW b \in Block, Gained(b)
      PROVE  LiveNames'
  BY <1>3 DEF Gained, LiveNames
<1>4. ASSUME NEW b \in Block, Dropped(b)
      PROVE  LiveNames'
  BY <1>4 DEF Dropped, LiveNames
<1> QED
  BY <1>1, <1>2, <1>3, <1>4

\* Only words inside live payloads have been set, after every step.
LEMMA FilledNext ==
  ASSUME SafeInv, ~lost, pc \notin {"drain", "down"}, [Next]_vars
  PROVE  FilledInside' /\ FreshEmpty'
<1>0. TypeOK /\ TypeOK' /\ FilledInside /\ FreshEmpty /\ LiveNames
  BY TypeNext DEF SafeInv, ColourInv, ListInv
<1>a. pc = "app" => caller # "alloc"
  BY <1>0 DEF TypeOK
\* A step that sets no field and allocates nothing.
<1>q. ASSUME UNCHANGED <<alive, size, filled>>, caller' # "alloc" \/ UNCHANGED <<caller, fresh>>
      PROVE  FilledInside' /\ FreshEmpty'
  BY <1>0, <1>q DEF FilledInside, FreshEmpty, Words
<1>f. ASSUME NEW b \in alive, free(b), UNCHANGED <<size, caller, fresh>>
      PROVE  FilledInside' /\ FreshEmpty'
  <2>1. \A x \in Block, k \in 1..MaxWords : <<x, k>> \in filled' => <<x, k>> \in filled /\ x # b
    BY <1>f DEF free
  <2>2. alive' = alive \ {b}
    BY <1>f DEF free
  <2> QED
    BY <1>0, <1>f, <2>1, <2>2 DEF FilledInside, FreshEmpty, Words
<1>1. CASE RegisterGlobals \/ EnterMain
  BY <1>1, <1>q DEF RegisterGlobals, EnterMain, ms_register_root, hdrVars, progVars, callVars
<1>2. CASE EnterScope \/ LeaveScope
  BY <1>2, <1>q DEF EnterScope, LeaveScope, hdrVars, callVars
<1>3. ASSUME NEW k, NEW w, StoreLocal(k, w)
      PROVE  FilledInside' /\ FreshEmpty'
  BY <1>3, <1>q DEF StoreLocal, hdrVars, callVars
<1>4. ASSUME NEW g, NEW w, StoreGlobal(g, w)
      PROVE  FilledInside' /\ FreshEmpty'
  BY <1>4, <1>q DEF StoreGlobal, hdrVars, callVars
<1>5. ASSUME NEW b \in Pointers, NEW k \in 1..MaxWords, NEW w, StoreField(b, k, w)
      PROVE  FilledInside' /\ FreshEmpty'
  <2>0. /\ pc = "app" /\ UNCHANGED <<alive, size, caller, fresh>>
        /\ filled' = filled \cup {<<b, k>>} /\ k * WordBytes <= size[b] - HeaderBytes
    BY <1>5 DEF StoreField, hdrVars, callVars
  <2>1. b \in Visible /\ b \in Block /\ size[b] \in Nat
    BY <1>0, VisibleClosed DEF TypeOK
  <2>2. k <= Words(b) /\ size[b] # HeaderBytes
    BY <2>0, <2>1 DEF Words, WordsIn, WordBytes, HeaderBytes
  <2>3. b \in alive
    BY <1>0, <2>1, <2>2 DEF LiveNames
  <2>4. FilledInside'
    <3> SUFFICES ASSUME NEW x \in Block, NEW j \in 1..MaxWords, <<x, j>> \in filled'
                 PROVE  x \in alive /\ j <= Words(x)
      BY <2>0 DEF FilledInside, Words
    <3>1. <<x, j>> \in filled \/ (x = b /\ j = k)
      BY <2>0
    <3> QED
      BY <1>0, <2>2, <2>3, <3>1 DEF FilledInside
  <2> QED
    BY <1>a, <2>0, <2>4 DEF FreshEmpty
<1>6. CASE Alloc
  <2>0. pc = "app" /\ UNCHANGED filled
    BY <1>6 DEF Alloc
  <2>1. ASSUME NEW d, OutOfMemory(d)
        PROVE  FilledInside' /\ FreshEmpty'
    BY <1>q, <2>0, <2>1 DEF OutOfMemory, hdrVars, callVars
  <2>2. ASSUME NEW d, NEW bytes, NEW b \in Block \ alive, NEW junk, ms_alloc(bytes, d, b, junk)
        PROVE  FilledInside' /\ FreshEmpty'
    <3>1. \A k \in 1..MaxWords : <<b, k>> \notin filled
      BY <1>0 DEF FilledInside
    <3>2. alive' = alive \cup {b} /\ \A x \in Block \ {b} : size'[x] = size[x]
      BY <1>0, <2>2 DEF ms_alloc, TypeOK
    <3>3. fresh' = b \/ UNCHANGED <<caller, fresh>>
      BY <2>2 DEF ms_alloc, callVars
    <3>4. FilledInside'
      BY <1>0, <2>0, <3>1, <3>2 DEF FilledInside, Words
    <3> QED
      BY <1>a, <2>0, <3>1, <3>3, <3>4 DEF FreshEmpty
  <2> QED
    BY <1>6, <2>1, <2>2 DEF Alloc
<1>7. CASE ms_gc \/ ms_shutdown
  BY <1>7, <1>q DEF ms_gc, ms_shutdown, collect_garbage, progVars
<1>8. ASSUME NEW b, ms_dealloc(b)
      PROVE  FilledInside' /\ FreshEmpty'
  BY <1>8, <1>f DEF ms_dealloc, unlink_and_free, callVars
<1>9. ASSUME NEW t, ms_set_gc_threshold(t)
      PROVE  FilledInside' /\ FreshEmpty'
  BY <1>9, <1>q DEF ms_set_gc_threshold, hdrVars, progVars, callVars
<1>10. ASSUME NEW g, ms_register_root(g)
       PROVE  FilledInside' /\ FreshEmpty'
  BY <1>10, <1>q DEF ms_register_root, hdrVars, progVars, callVars
<1>11. CASE MarkStep \/ ScanStack \/ ScanRoots
  BY <1>11, <1>q DEF MarkStep, ScanStack, ScanRoots, progVars, callVars
<1>12. CASE SweepStep
  <2>1. current \in alive
    BY <1>12 DEF SweepStep, SafeInv, ColourInv, ListInv, CursorAlive
  <2> QED
    BY <1>12, <1>f, <1>q, <2>1 DEF SweepStep, unlink_and_free, callVars
<1>13. CASE SweepDone
  BY <1>13, <1>q DEF SweepDone, hdrVars
<1>14. CASE UNCHANGED vars
  BY <1>14, <1>q DEF vars, hdrVars, progVars, callVars
<1>15. ~DrainStep
  BY DEF DrainStep
<1> QED
  BY <1>1, <1>2, <1>3, <1>4, <1>5, <1>6, <1>7, <1>8, <1>9, <1>10, <1>11, <1>12, <1>13, <1>14, <1>15
  DEF Next, Mutator, RuntimeCall, Collector, Terminated

\* Shutdown is final, what is lost stays lost, and the roots of main stay registered.
LEMMA OneWay ==
  ASSUME TypeOK, RootsAll, [Next]_vars
  PROVE  /\ lost => lost'
         /\ pc \in {"drain", "down"} => pc' \in {"drain", "down"} /\ UNCHANGED lost
         /\ RootsAll'
<1>1. ASSUME NEW g \in Global, ms_register_root(g)
      PROVE  Range(roots) \subseteq Range(roots') /\ (pc' = pc \/ pc' = "exit") /\ UNCHANGED lost
  <2>1. roots' = roots \/ roots' = Append(roots, g)
    BY <1>1 DEF ms_register_root
  <2>2. roots \in Seq(Global)
    BY DEF TypeOK
  <2>3. Range(roots) \subseteq Range(roots')
    BY <2>1, <2>2, AppendParts DEF Range
  <2> QED
    BY <1>1, <2>3 DEF ms_register_root
<1>2. CASE RegisterGlobals
  BY <1>1, <1>2, ConstantsOK DEF RegisterGlobals, RootsAll
<1>3. CASE EnterMain
  BY <1>3 DEF EnterMain, RootsAll, cfgVars
<1>4. CASE Mutator
  BY <1>4 DEF Mutator, EnterScope, LeaveScope, StoreLocal, StoreGlobal, StoreField, RootsAll, cfgVars
<1>5. CASE Alloc
  <2>1. UNCHANGED <<roots, lost>> /\ pc = "app"
    BY <1>5 DEF Alloc, cfgVars
  <2> QED
    BY <2>1 DEF RootsAll
<1>6. CASE ms_gc \/ ms_shutdown
  BY <1>6 DEF ms_gc, ms_shutdown, RootsAll, cfgVars
<1>7. ASSUME NEW b, ms_dealloc(b)
      PROVE  UNCHANGED <<roots, lost, pc>>
  BY <1>7 DEF ms_dealloc, cfgVars
<1>8. ASSUME NEW t, ms_set_gc_threshold(t)
      PROVE  UNCHANGED <<roots, lost, pc>>
  BY <1>8 DEF ms_set_gc_threshold
<1>9. CASE MarkStep \/ ScanStack \/ ScanRoots \/ SweepStep
  BY <1>9 DEF MarkStep, ScanStack, ScanRoots, SweepStep, RootsAll, cfgVars
<1>10. CASE SweepDone
  BY <1>10 DEF SweepDone, RootsAll, cfgVars
<1>11. CASE DrainStep
  BY <1>11 DEF DrainStep, RootsAll, cfgVars
<1>12. CASE UNCHANGED vars
  BY <1>12 DEF vars, RootsAll, cfgVars
<1>13. CASE RuntimeCall
  BY <1>1, <1>5, <1>6, <1>7, <1>8, <1>13 DEF RuntimeCall, RootsAll
<1> QED
  BY <1>2, <1>3, <1>4, <1>9, <1>10, <1>11, <1>12, <1>13 DEF Next, Collector, Terminated

\* The invariant holds at the start.
LEMMA SafeInit == Init => SafeInv
<1> SUFFICES ASSUME Init
             PROVE  SafeInv
  OBVIOUS
<1>1. ColourInv /\ TypeOK
  BY ColourInit DEF ColourInv, ListInv
<1>2. Visible = {}
  <2>1. Pointers = {} /\ filled = {}
    BY DEF Init, Pointers, Range
  <2>2. NamedBy(Pointers, heap, filled) \subseteq {}
    BY <2>1, NamedLeast
  <2> QED
    BY <2>2 DEF Visible, NamedBy
<1> QED
  BY <1>1, <1>2 DEF Init, SafeInv, RootsAll, FilledInside, FreshEmpty, LiveNames

\* Every step keeps it, if all globals are registered.
LEMMA SafeNext == Registered = Global /\ SafeInv /\ [Next]_vars => SafeInv'
<1> SUFFICES ASSUME Registered = Global, SafeInv, [Next]_vars
             PROVE  SafeInv'
  OBVIOUS
<1>1. TypeOK /\ ColourInv /\ RootsAll /\ ColourInv'
  BY ColourNext DEF SafeInv, ColourInv, ListInv
<1>2. ASSUME ~lost', pc' \notin {"drain", "down"}
      PROVE  FilledInside' /\ FreshEmpty' /\ LiveNames'
  <2>1. ~lost /\ pc \notin {"drain", "down"}
    BY <1>1, <1>2, OneWay
  <2>2. LiveNames /\ Visible \subseteq Block
    BY <1>1, <2>1, VisibleClosed DEF SafeInv
  <2>3. LiveNames'
    BY <1>2, <2>1, <2>2, StepEffect, LiveKept
  <2> QED
    BY <2>1, <2>3, FilledNext
<1> QED
  BY <1>1, <1>2, OneWay DEF SafeInv

\* Nothing the program can name is freed before main_ has returned, by any collection
\* or dealloc, for every heap and every program whose globals are registered; the
\* exceptions are empty blocks and what follows the loss of a fresh block.
THEOREM NoDanglingCorrect == Spec => []NoDangling
<1>1. CASE Registered = Global
  <2>1. SafeInv /\ [Next]_vars => SafeInv'
    BY <1>1, SafeNext
  <2>2. SafeInv => NoDangling
    BY DEF SafeInv, LiveNames, NoDangling
  <2> QED
    BY <2>1, <2>2, SafeInit, PTL DEF Spec
<1>2. CASE Registered # Global
  <2>1. NoDangling
    BY <1>2 DEF NoDangling
  <2> QED
    BY <2>1, PTL
<1> QED
  BY <1>1, <1>2

-----------------------------------------------------------------------------
(***************************************************************************)
(* The allocator implements the managed heap.                              *)
(***************************************************************************)

\* No block is lost unless ms_alloc collects.
LEMMA NoneLost ==
  ASSUME [Next]_vars, caller # "alloc"
  PROVE  lost' = lost
<1>1. CASE RegisterGlobals \/ EnterMain \/ Mutator
  BY <1>1 DEF RegisterGlobals, ms_register_root, EnterMain, Mutator, EnterScope, LeaveScope,
              StoreLocal, StoreGlobal, StoreField
<1>2. CASE RuntimeCall
  BY <1>2 DEF RuntimeCall, Alloc, ms_gc, ms_shutdown, ms_dealloc, ms_set_gc_threshold,
              ms_register_root
<1>3. CASE Collector
  BY <1>3 DEF Collector, MarkStep, ScanStack, ScanRoots, SweepStep, SweepDone, DrainStep
<1>4. CASE UNCHANGED vars
  BY <1>4 DEF vars
<1> QED
  BY <1>1, <1>2, <1>3, <1>4 DEF Next, Terminated

\* Once shutdown drains the list, a step gives a live block back or changes nothing.
LEMMA DrainEffect ==
  ASSUME ColourInv, pc \in {"drain", "down"}, [Next]_vars
  PROVE  /\ pc' \in {"drain", "down"} /\ Visible' \subseteq Visible
         /\ alive' = alive \/ \E b \in alive : alive' = alive \ {b}
<1>0. TypeOK /\ frames = << >>
  BY ScanTypes DEF ColourInv, ListInv, FramesMarked
<1>1. CASE DrainStep
  <2>1. CASE allocation_list = Null
    BY <1>1, <2>1, QuietKept DEF DrainStep, Kept
  <2>2. CASE allocation_list # Null
    <3>1. allocation_list \in Block /\ free(allocation_list) /\ UNCHANGED <<pc, stack, globals, assigned>>
      BY <1>0, <1>1, <2>2 DEF DrainStep, TypeOK, Word
    <3>2. allocation_list \in alive
      <4>1. allocation_list \in Walk(next, allocation_list)
        BY <1>0, <2>2, WalkClosed DEF TypeOK
      <4> QED
        BY <4>1, ListIntactIs DEF ColourInv, ListInv, Chained
    <3> QED
      BY <1>0, <3>1, <3>2, FreeNames DEF free
  <2> QED
    BY <2>1, <2>2
<1>2. CASE UNCHANGED vars
  BY <1>2, QuietKept DEF vars, Kept, hdrVars, progVars
<1>3. DrainStep \/ UNCHANGED vars
  <2>1. ~RegisterGlobals /\ ~EnterMain /\ ~Mutator
    BY DEF RegisterGlobals, EnterMain, Mutator, EnterScope, LeaveScope, StoreLocal, StoreGlobal,
           StoreField
  <2>2. ~RuntimeCall
    BY DEF RuntimeCall, Alloc, ms_gc, ms_shutdown, ms_dealloc, ms_set_gc_threshold
  <2>3. ~MarkStep /\ ~ScanStack /\ ~ScanRoots /\ ~SweepStep /\ ~SweepDone
    BY <1>0 DEF MarkStep, ScanStack, ScanRoots, SweepStep, SweepDone
  <2> QED
    BY <2>1, <2>2, <2>3 DEF Next, Collector, Terminated
<1> QED
  BY <1>1, <1>2, <1>3

\* A step of the allocator is a step of ManagedHeap or changes nothing there.
LEMMA HeapStep ==
  ASSUME Registered = Global, 0 \notin Sizes, SafeInv, ~lost, caller # "alloc", [Next]_vars
  PROVE  [Heap!Next]_(Heap!vars)
<1>0. TypeOK /\ alive \subseteq Block /\ ColourInv
  BY DEF SafeInv, ColourInv, ListInv, TypeOK
<1>1. CASE pc \in {"drain", "down"}
  <2>1. /\ pc' \in {"drain", "down"} /\ Visible' \subseteq Visible
        /\ alive' = alive \/ \E b \in alive : alive' = alive \ {b}
    BY <1>0, <1>1, DrainEffect
  <2>2. CASE alive' = alive
    BY <1>1, <2>1, <2>2 DEF Heap!Next, Heap!Mutate
  <2>3. ASSUME NEW b \in alive, alive' = alive \ {b}
        PROVE  Heap!Free(b)
    BY <1>1, <2>1, <2>3 DEF Heap!Free
  <2> QED
    BY <1>0, <2>1, <2>2, <2>3 DEF Heap!Next
<1>2. CASE pc \notin {"drain", "down"}
  <2>1. CASE Kept
    <3>1. CASE pc' \in {"drain", "down"}
      BY <1>2, <2>1, <3>1 DEF Kept, Heap!Next, Heap!Shutdown
    <3>2. CASE pc' \notin {"drain", "down"}
      BY <1>2, <2>1, <3>2 DEF Kept, Heap!Next, Heap!Mutate
    <3> QED
      BY <3>1, <3>2
  <2>2. ASSUME NEW b \in Block, Gained(b)
        PROVE  Heap!Next
    <3>1. Heap!Allocate(b)
      BY <1>2, <2>2 DEF Gained, Heap!Allocate
    <3> QED
      BY <3>1 DEF Heap!Next
  <2>3. ASSUME NEW b \in Block, Dropped(b)
        PROVE  Heap!Next
    <3>1. b \in alive /\ size[b] # HeaderBytes
      BY <1>0, <2>3 DEF Dropped, TypeOK, HeaderBytes
    <3>2. Heap!Free(b)
      BY <1>2, <2>3, <3>1 DEF Dropped, Heap!Free
    <3> QED
      BY <3>2 DEF Heap!Next
  <2>4. ~Returned
    BY DEF Returned
  <2> QED
    BY <1>2, <2>1, <2>2, <2>3, <2>4, StepEffect
<1> QED
  BY <1>1, <1>2

\* No collection is triggered by ms_alloc.
NoTrigger == caller # "alloc"

\* The allocator implements the managed heap for every set of blocks and every program
\* that asks for no empty block, has its globals registered and keeps below the
\* threshold: what is given out was not in use, and only what has no name is taken back.
THEOREM HeapImplemented ==
  ASSUME Registered = Global, 0 \notin Sizes
  PROVE  Spec /\ []NoTrigger => ImplementsHeap
<1> DEFINE Inv == SafeInv /\ ~lost
<1>1. Init => Inv
  BY SafeInit DEF Init
<1>2. Inv /\ NoTrigger /\ [Next]_vars => Inv'
  BY SafeNext, NoneLost DEF NoTrigger
<1>3. Inv /\ NoTrigger /\ [Next]_vars => [Heap!Next]_(Heap!vars)
  BY HeapStep DEF NoTrigger
<1>4. Init => Heap!Init
  <2> SUFFICES ASSUME Init
               PROVE  Heap!Init
    OBVIOUS
  <2>1. Pointers = {} /\ filled = {} /\ {} \in SUBSET Block
    BY DEF Init, Pointers, Range
  <2>2. NamedBy(Pointers, heap, filled) \subseteq {}
    BY <2>1, NamedLeast
  <2>3. Visible = {}
    BY <2>2 DEF Visible, NamedBy
  <2> QED
    BY <2>3 DEF Init, Heap!Init
<1> HIDE DEF Inv
<1> QED
  BY <1>1, <1>2, <1>3, <1>4, PTL DEF Spec, ImplementsHeap, Heap!Spec

-----------------------------------------------------------------------------
(***************************************************************************)
(* The depth of the recursion, and shutdown.                               *)
(***************************************************************************)
\* No block is active in two calls of mark.
ActiveOnce == \A m, n \in DOMAIN frames : frames[m].blk = frames[n].blk => m = n

\* mark becomes active for a block that is not marked, and active blocks are marked.
LEMMA MarkOnce ==
  ASSUME TypeOK, NEW w, NEW rest \in Seq(Activation), mark(w, rest),
         \A n \in DOMAIN rest : marked[rest[n].blk],
         \A m, n \in DOMAIN rest : rest[m].blk = rest[n].blk => m = n
  PROVE  ActiveOnce'
<1> DEFINE h == find_header(w)
<1>1. h \in Block \/ h = Null
  BY DEF find_header, OnList, ListFrom, Closure
<1>2. CASE frames' = rest
  BY <1>2 DEF ActiveOnce
<1>3. CASE h \in Block /\ ~marked[h] /\ frames' = Append(rest, [blk |-> h, k |-> 1])
  <2>1. [blk |-> h, k |-> 1] \in Activation
    BY <1>3 DEF Activation
  <2>2. /\ DOMAIN frames' = (DOMAIN rest) \cup {Len(rest) + 1}
        /\ frames'[Len(rest) + 1] = [blk |-> h, k |-> 1]
        /\ \A n \in DOMAIN rest : frames'[n] = rest[n]
    BY <1>3, <2>1, AppendParts
  <2>3. frames'[Len(rest) + 1].blk = h
    BY <2>2
  <2>4. \A n \in DOMAIN rest : frames'[n].blk # h
    BY <1>3, <2>2
  <2> QED
    BY <2>2, <2>3, <2>4 DEF ActiveOnce
<1> QED
  BY <1>1, <1>2, <1>3 DEF mark

\* No step makes a block active twice: mark enters unmarked blocks only.
LEMMA DepthNext == ColourInv /\ ActiveOnce /\ [Next]_vars => ActiveOnce'
<1> SUFFICES ASSUME ColourInv, ActiveOnce, [Next]_vars
             PROVE  ActiveOnce'
  OBVIOUS
<1>0. /\ TypeOK /\ frames \in Seq(Activation) /\ << >> \in Seq(Activation)
      /\ \A n \in DOMAIN frames : marked[frames[n].blk]
  BY DEF ColourInv, ListInv, FramesMarked, TypeOK
<1>u. ASSUME UNCHANGED frames
      PROVE  ActiveOnce'
  BY <1>u DEF ActiveOnce
<1>m. ASSUME NEW w, mark(w, << >>)
      PROVE  ActiveOnce'
  <2>1. DOMAIN << >> = {}
    OBVIOUS
  <2> QED
    BY <1>0, <1>m, <2>1, MarkOnce
<1>1. CASE MarkStep
  <2> DEFINE n == Len(frames)
             f == frames[n]
             rest == [frames EXCEPT ![n] = [f EXCEPT !.k = @ + 1]]
  <2>1. n \in DOMAIN frames /\ n \in Nat /\ f \in Activation /\ DOMAIN frames = 1..n
    <3>1. n \in DOMAIN frames /\ n \in Nat /\ DOMAIN frames = 1..n
      BY <1>0, <1>1 DEF MarkStep
    <3> QED
      BY <1>0, <3>1, SeqElement
  <2>2. CASE f.k <= Words(f.blk)
    <3>1. mark(heap[f.blk][f.k], rest)
      BY <1>1, <2>2 DEF MarkStep
    <3>2. [f EXCEPT !.k = @ + 1] \in Activation /\ [f EXCEPT !.k = @ + 1].blk = f.blk
      BY <2>1 DEF Activation
    <3>3. rest \in Seq(Activation) /\ DOMAIN rest = DOMAIN frames
      BY <1>0, <2>1, <3>2, ExceptSeq
    <3>4. \A m \in DOMAIN frames : rest[m].blk = frames[m].blk
      BY <2>1, <3>2
    <3> HIDE DEF rest
    <3>5. /\ \A m \in DOMAIN rest : marked[rest[m].blk]
          /\ \A m, l \in DOMAIN rest : rest[m].blk = rest[l].blk => m = l
      BY <1>0, <3>3, <3>4 DEF ActiveOnce
    <3> QED
      BY <1>0, <3>1, <3>3, <3>5, MarkOnce
  <2>3. CASE ~(f.k <= Words(f.blk))
    <3>1. frames' = SubSeq(frames, 1, n - 1)
      BY <1>1, <2>3 DEF MarkStep
    <3>2. \A m \in DOMAIN frames' : m \in DOMAIN frames /\ frames'[m] = frames[m]
      BY <1>0, <2>1, <3>1
    <3> QED
      BY <3>2 DEF ActiveOnce
  <2> QED
    BY <2>2, <2>3
<1>2. CASE ScanStack \/ ScanRoots
  BY <1>2, <1>m, <1>u DEF ScanStack, ScanRoots
<1>3. CASE RegisterGlobals \/ EnterMain \/ Mutator
  BY <1>3, <1>u DEF RegisterGlobals, ms_register_root, EnterMain, Mutator, EnterScope, LeaveScope,
                    StoreLocal, StoreGlobal, StoreField, gcVars
<1>4. CASE Alloc
  BY <1>4, <1>u DEF Alloc, OutOfMemory, ms_alloc, collect_garbage, gcVars
<1>5. CASE ms_gc \/ ms_shutdown
  BY <1>5, <1>u DEF ms_gc, ms_shutdown, collect_garbage
<1>6. CASE RuntimeCall
  BY <1>4, <1>5, <1>6, <1>u DEF RuntimeCall, ms_dealloc, ms_set_gc_threshold, ms_register_root, gcVars
<1>7. CASE SweepStep \/ SweepDone \/ DrainStep \/ UNCHANGED vars
  BY <1>7, <1>u DEF SweepStep, SweepDone, DrainStep, vars, gcVars
<1> QED
  BY <1>1, <1>2, <1>3, <1>6, <1>7 DEF Next, Collector, Terminated

\* However cyclic the heap, mark is never active twice for a block, so its recursion
\* is no deeper than the number of live blocks.
THEOREM DepthCorrect == Spec => []MarkDepth
<1>1. Init => ActiveOnce
  <2>1. DOMAIN << >> = {}
    OBVIOUS
  <2> QED
    BY <2>1 DEF Init, ActiveOnce
<1>2. ColourInv /\ ActiveOnce => MarkDepth
  <2> SUFFICES ASSUME ColourInv, ActiveOnce
               PROVE  MarkDepth
    OBVIOUS
  <2>1. \A n \in DOMAIN frames : frames[n].blk \in Block
    BY ActivationBlocks DEF ColourInv, ListInv, TypeOK
  <2> QED
    BY <2>1 DEF ColourInv, FramesMarked, MarkedAlive, ActiveOnce, MarkDepth
<1> QED
  BY <1>1, <1>2, ColourInit, ColourNext, DepthNext, PTL DEF Spec

\* ms_shutdown ends with nothing allocated: the drain stops when the list is empty,
\* and the list holds every block.
THEOREM ShutdownCorrect == Spec => []ShutdownFreesAll
<1> DEFINE Drained == pc = "down" => allocation_list = Null
<1>1. Init => Drained
  BY DEF Init
<1>2. ColourInv /\ Drained /\ [Next]_vars => Drained'
  <2> SUFFICES ASSUME ColourInv, Drained, [Next]_vars, pc' = "down"
               PROVE  allocation_list' = Null
    OBVIOUS
  <2>1. CASE RegisterGlobals \/ EnterMain \/ Mutator
    BY <2>1 DEF RegisterGlobals, ms_register_root, EnterMain, Mutator, EnterScope, LeaveScope,
                StoreLocal, StoreGlobal, StoreField
  <2>2. CASE RuntimeCall
    BY <2>2 DEF RuntimeCall, Alloc, OutOfMemory, ms_alloc, collect_garbage, ms_gc, ms_shutdown,
                ms_dealloc, ms_set_gc_threshold, ms_register_root
  <2>3. CASE Collector
    <3>1. pc = "down" => frames = << >>
      BY ScanTypes DEF ColourInv, ListInv, FramesMarked
    <3> QED
      BY <2>3, <3>1 DEF Collector, MarkStep, ScanStack, ScanRoots, SweepStep, SweepDone, DrainStep
  <2>4. CASE UNCHANGED vars
    BY <2>4 DEF vars, listVars
  <2> QED
    BY <2>1, <2>2, <2>3, <2>4 DEF Next, Terminated
<1>3. ColourInv /\ Drained => ShutdownFreesAll
  <2> SUFFICES ASSUME ColourInv, allocation_list = Null
               PROVE  alive = {}
    BY DEF ShutdownFreesAll
  <2>1. Walk(next, Null) \subseteq {}
    <3>1. {} \in SUBSET Block /\ Null \in Word /\ next \in [Block -> Word]
      BY DEF ColourInv, ListInv, TypeOK, Word
    <3> QED
      BY <3>1, WalkLeast
  <2> QED
    BY <2>1, ListIntactIs DEF ColourInv, ListInv, Chained
<1> HIDE DEF Drained
<1> QED
  BY <1>1, <1>2, <1>3, ColourInit, ColourNext, PTL DEF Spec

=============================================================================
