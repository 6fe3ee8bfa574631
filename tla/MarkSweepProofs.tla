--------------------------- MODULE MarkSweepProofs ---------------------------
(***************************************************************************)
(* Theorems about MarkSweep for every set of blocks, every heap shape and  *)
(* every value of the other constants.                                     *)
(***************************************************************************)
EXTENDS MarkSweep, SequenceTheorems, TLAPS

USE DEF TableFull, Skipped, is_valid_pointer, FirstWord, StackLeft, RootsLeft, AfterSwept, FreedBytes, DrainLeft

\* What free, the two list updates and mark assign has its type.
LEMMA FreeType ==
  ASSUME TypeOK, NEW b \in Block, free(b)
  PROVE  /\ alive' \subseteq alive
         /\ marked' \in [Block -> BOOLEAN]
         /\ heap' \in [Block -> Payload]
         /\ filled' \subseteq Block \X (1..MaxWords)
BY DEF TypeOK, free, Payload, Word

\* Taking a block off the list and freeing it keeps the types.
LEMMA UnlinkType ==
  ASSUME TypeOK, NEW b \in Block, unlink_and_free(b)
  PROVE  /\ allocation_list' \in Word
         /\ next' \in [Block -> Word]
         /\ prev' \in [Block -> Word]
         /\ alive' \subseteq alive
         /\ marked' \in [Block -> BOOLEAN]
         /\ heap' \in [Block -> Payload]
         /\ filled' \subseteq Block \X (1..MaxWords)
<1>1. free(b)
  BY DEF unlink_and_free
<1>2. /\ next' \in [Block -> Word]
      /\ prev' \in [Block -> Word]
      /\ allocation_list' \in Word
  BY DEF TypeOK, unlink_and_free, Word
<1> QED
  BY <1>1, <1>2, FreeType

\* So does one call of mark.
LEMMA MarkType ==
  ASSUME TypeOK, NEW w, NEW rest \in Seq(Activation), mark(w, rest)
  PROVE  /\ marked' \in [Block -> BOOLEAN]
         /\ frames' \in Seq(Activation)
<1> DEFINE h == find_header(w)
<1>1. h \in Block \/ h = Null
  BY DEF find_header, OnList, ListFrom, Closure
<1>2. CASE h = Null \/ marked[h]
  BY <1>2 DEF mark, TypeOK
<1>3. CASE ~(h = Null \/ marked[h])
  <2>1. h \in Block
    BY <1>1, <1>3
  <2>2. [blk |-> h, k |-> 1] \in Activation
    BY <2>1 DEF Activation
  <2>3. marked' = [marked EXCEPT ![h] = TRUE] /\ frames' = Append(rest, [blk |-> h, k |-> 1])
    BY <1>3 DEF mark
  <2>4. marked' \in [Block -> BOOLEAN]
    BY <2>3 DEF TypeOK
  <2>5. frames' \in Seq(Activation)
    BY <2>2, <2>3
  <2> QED
    BY <2>4, <2>5
<1> QED
  BY <1>2, <1>3

\* So does the start of a collection.
LEMMA CollectType ==
  ASSUME TypeOK, NEW who \in {"gc", "shutdown", "alloc"}, NEW listed,
         collect_garbage(who, listed)
  PROVE  /\ marked' \in [Block -> BOOLEAN]
         /\ stale' \in [1..Slack -> Word]
         /\ i' \in Nat
         /\ pc' = "stack"
         /\ caller' = who
         /\ frames' = frames /\ current' = current
<1>1. marked' \in [Block -> BOOLEAN]
  <2>1. \A b \in Block : (IF b \in listed THEN FALSE ELSE marked[b]) \in BOOLEAN
    BY DEF TypeOK
  <2> QED
    BY <2>1 DEF collect_garbage
<1>2. i' \in Nat
  BY ConstantsOK DEF TypeOK, collect_garbage
<1> QED
  BY <1>1, <1>2 DEF collect_garbage

\* The case split on Next: TypeOK is preserved by every operation.
LEMMA TypeInit == Init => TypeOK
<1> SUFFICES ASSUME Init
             PROVE  TypeOK
  OBVIOUS
<1>2. heap \in [Block -> Payload] /\ stack \in [1..StackSize -> Word] /\ stale \in [1..Slack -> Word]
  BY DEF Init, Payload, Word
<1>3. sp \in 0..StackSize /\ dst \in 0..StackSize /\ Len(roots) <= MAX_ROOTS
  BY ConstantsOK DEF Init
<1>4. /\ next \in [Block -> Word] /\ prev \in [Block -> Word] /\ globals \in [Global -> Word]
      /\ marked \in [Block -> BOOLEAN] /\ size \in [Block -> Nat]
  BY DEF Init, Word
<1>5. roots \in Seq(Global) /\ frames \in Seq(Activation)
  BY DEF Init
<1>6. GC_THRESHOLD \in Nat
  BY DEF Init, DefaultThreshold
<1>7. assigned \subseteq 1..sp /\ filled \subseteq Block \X (1..MaxWords)
  BY DEF Init
<1>8. /\ alive = {} /\ pc = "boot" /\ caller = "gc" /\ i = 0
      /\ allocation_list = Null /\ current = Null /\ fresh = Null
      /\ current_bytes = 0 /\ peak_bytes = 0 /\ total_allocations = 0 /\ total_collections = 0
  BY DEF Init
<1>9. lost \in BOOLEAN
  BY DEF Init
<1> QED
  BY <1>2, <1>3, <1>4, <1>5, <1>6, <1>7, <1>8, <1>9 DEF TypeOK, Word

\* Every step keeps the types.
LEMMA TypeNext == TypeOK /\ [Next]_vars => TypeOK'
<1> SUFFICES ASSUME TypeOK, [Next]_vars
             PROVE  TypeOK'
  OBVIOUS
<1> USE ConstantsOK DEF listVars, hdrVars, cfgVars, stats, progVars, gcVars, callVars
<1>reg. ASSUME NEW g \in Global, ms_register_root(g), pc \in {"boot", "app"}
        PROVE  TypeOK'
  <2>0. roots \in Seq(Global) /\ Len(roots) <= MAX_ROOTS
    BY DEF TypeOK
  <2>1. roots' \in Seq(Global) /\ Len(roots') <= MAX_ROOTS
    <3>1. roots' \in Seq(Global)
      BY <1>reg, <2>0 DEF ms_register_root
    <3>2. Len(roots') <= MAX_ROOTS
      BY <1>reg, <2>0 DEF ms_register_root
    <3> QED
      BY <3>1, <3>2
  <2>2. pc' \in {"boot", "app", "exit"}
    BY <1>reg DEF ms_register_root
  <2> QED
    BY <1>reg, <2>1, <2>2
    DEF TypeOK, ms_register_root
<1>1. CASE RegisterGlobals
  BY <1>1, <1>reg DEF RegisterGlobals
<1>2. CASE EnterMain
  BY <1>2 DEF TypeOK, EnterMain
<1>3. CASE EnterScope
  BY <1>3 DEF TypeOK, EnterScope
<1>4. CASE LeaveScope
  <2>1. sp' \in 0..StackSize /\ assigned' \subseteq 1..sp'
    BY <1>4 DEF TypeOK, LeaveScope
  <2>2. stack' \in [1..StackSize -> Word]
    BY <1>4 DEF TypeOK, LeaveScope, Word
  <2> QED
    BY <1>4, <2>1, <2>2 DEF TypeOK, LeaveScope
<1>p. Pointers \subseteq Block
  BY DEF Pointers, Range, TypeOK, Word
<1>w. Loadable \subseteq Word
  <2>1. Pointers \subseteq Word
    BY <1>p DEF Word
  <2>2. ASSUME NEW e \in filled
        PROVE  heap[e[1]][e[2]] \in Word
    <3>1. e[1] \in Block /\ e[2] \in 1..MaxWords
      BY DEF TypeOK
    <3> QED
      BY <3>1 DEF TypeOK, Payload
  <2> QED
    BY <2>1, <2>2 DEF Loadable, Word
<1>5. ASSUME NEW w \in Loadable, NEW k \in 1..StackSize, StoreLocal(k, w)
      PROVE  TypeOK'
  BY <1>5, <1>w DEF TypeOK, StoreLocal
<1>6. ASSUME NEW w \in Loadable, NEW g \in Global, StoreGlobal(g, w)
      PROVE  TypeOK'
  BY <1>6, <1>w DEF TypeOK, StoreGlobal
<1>7. ASSUME NEW w \in Loadable, NEW b \in Pointers, NEW k \in 1..MaxWords,
             StoreField(b, k, w)
      PROVE  TypeOK'
  <2>1. b \in Block
    BY <1>p
  <2>2. heap' \in [Block -> Payload]
    BY <1>7, <1>w, <2>1 DEF TypeOK, StoreField, Payload
  <2>3. filled' \subseteq Block \X (1..MaxWords)
    BY <1>7, <2>1 DEF TypeOK, StoreField
  <2> QED
    BY <1>7, <2>2, <2>3 DEF TypeOK, StoreField
<1>8. CASE Alloc
  <2>0. UNCHANGED <<cfgVars, sp, globals, filled, lost>> /\ pc = "app"
    BY <1>8 DEF Alloc
  <2>1. ASSUME NEW d \in 1..sp, OutOfMemory(d)
        PROVE  TypeOK'
    BY <2>0, <2>1 DEF TypeOK, OutOfMemory, Word
  <2>2. ASSUME NEW d \in 1..sp, NEW bytes \in Sizes, NEW b \in Block \ alive,
               NEW junk \in Payload, ms_alloc(bytes, d, b, junk)
        PROVE  TypeOK'
    <3> DEFINE total == HeaderBytes + bytes
               now == current_bytes + total
    <3>1. total \in Nat /\ total - HeaderBytes = bytes /\ now \in Int
      BY DEF TypeOK, HeaderBytes
    <3>2. size' \in [Block -> Nat] /\ \A x \in alive' : size'[x] - HeaderBytes \in Sizes
      <4>1. size' = [size EXCEPT ![b] = total] /\ alive' = alive \cup {b} /\ size \in [Block -> Nat]
        BY <2>2 DEF TypeOK, ms_alloc
      <4>2. size' \in [Block -> Nat] /\ size'[b] = total /\ \A x \in Block \ {b} : size'[x] = size[x]
        BY <3>1, <4>1
      <4> QED
        BY <3>1, <4>1, <4>2 DEF TypeOK
    <3>3. heap' \in [Block -> Payload]
      BY <2>2 DEF TypeOK, ms_alloc, Payload, Word
    <3>4. /\ allocation_list' \in Word
          /\ next' \in [Block -> Word]
          /\ prev' \in [Block -> Word]
      BY <2>2 DEF TypeOK, ms_alloc, add_allocation, Word
    <3>5. /\ current_bytes' \in Int /\ peak_bytes' \in Int
          /\ total_allocations' \in Nat /\ total_collections' \in Nat
      <4>1. /\ current_bytes' = now /\ total_allocations' = total_allocations + 1
            /\ peak_bytes' = (IF now > peak_bytes THEN now ELSE peak_bytes)
            /\ total_collections' = total_collections
        BY <2>2 DEF ms_alloc
      <4> QED
        BY <3>1, <4>1 DEF TypeOK
    <3>6. alive' \subseteq Block
      BY <2>2 DEF TypeOK, ms_alloc
    <3>7. CASE now > GC_THRESHOLD
      <4>1. collect_garbage("alloc", OnList \cup {b}) /\ fresh' = b /\ dst' = d
            /\ UNCHANGED <<stack, assigned>>
        BY <2>2, <3>7 DEF ms_alloc
      <4>2. /\ marked' \in [Block -> BOOLEAN]
            /\ stale' \in [1..Slack -> Word]
            /\ i' \in Nat
            /\ pc' = "stack"
            /\ caller' = "alloc"
            /\ frames' = frames /\ current' = current
        BY <4>1, CollectType
      <4>3. fresh' \in Word /\ dst' \in 0..StackSize /\ dst' \in 1..sp'
        BY <4>1, <2>0 DEF TypeOK, Word
      <4>4. current' \in Word /\ frames' \in Seq(Activation) /\ stack' \in [1..StackSize -> Word]
        BY <4>1, <4>2 DEF TypeOK
      <4> QED
        BY <4>1, <4>2, <4>3, <4>4, <3>2, <3>3, <3>4, <3>5, <3>6, <2>0 DEF TypeOK
    <3>8. CASE ~(now > GC_THRESHOLD)
      <4>1. /\ marked' = [marked EXCEPT ![b] = FALSE]
            /\ stack' = [stack EXCEPT ![d] = b]
            /\ assigned' = assigned \cup {d}
            /\ UNCHANGED <<pc, gcVars, callVars>>
        BY <2>2, <3>8 DEF ms_alloc
      <4>2. stack' \in [1..StackSize -> Word] /\ marked' \in [Block -> BOOLEAN]
        BY <4>1 DEF TypeOK, Word
      <4> QED
        BY <4>1, <4>2, <3>2, <3>3, <3>4, <3>5, <3>6, <2>0 DEF TypeOK
    <3> QED
      BY <3>7, <3>8
  <2> QED
    BY <1>8, <2>1, <2>2 DEF Alloc
<1>9. CASE ms_gc \/ ms_shutdown
  <2>1. PICK who \in {"gc", "shutdown"} : collect_garbage(who, OnList)
    BY <1>9 DEF ms_gc, ms_shutdown
  <2>2. /\ marked' \in [Block -> BOOLEAN]
        /\ stale' \in [1..Slack -> Word]
        /\ i' \in Nat
        /\ pc' = "stack"
        /\ caller' = who
        /\ frames' = frames /\ current' = current
    BY <2>1, CollectType
  <2>3. UNCHANGED <<listVars, size, cfgVars, stats, alive, heap, progVars, fresh, dst, lost>>
    BY <1>9 DEF ms_gc, ms_shutdown
  <2> QED
    BY <2>2, <2>3 DEF TypeOK
<1>10. ASSUME NEW b \in Block, ms_dealloc(b)
       PROVE  TypeOK'
  <2>1. unlink_and_free(b)
    BY <1>10 DEF ms_dealloc
  <2>2. current_bytes' \in Int /\ total_collections' \in Nat
    BY <1>10 DEF ms_dealloc, TypeOK
  <2> QED
    BY <1>10, <2>1, <2>2, UnlinkType DEF ms_dealloc, TypeOK
<1>11. ASSUME NEW t \in Thresholds, ms_set_gc_threshold(t)
       PROVE  TypeOK'
  BY <1>11 DEF ms_set_gc_threshold, TypeOK
<1>12. CASE MarkStep
  <2> DEFINE n == Len(frames)
             f == frames[n]
  <2>1. /\ n \in 1..Len(frames) /\ n \in Nat /\ f \in Activation
    BY <1>12 DEF MarkStep, TypeOK
  <2>2. [frames EXCEPT ![n] = [f EXCEPT !.k = @ + 1]] \in Seq(Activation)
    <3>1. [f EXCEPT !.k = @ + 1] \in Activation
      BY <2>1 DEF Activation
    <3> QED
      BY <2>1, <3>1, ExceptSeq DEF TypeOK
  <2>3. SubSeq(frames, 1, n - 1) \in Seq(Activation)
    BY <2>1 DEF TypeOK
  <2>4. marked' \in [Block -> BOOLEAN] /\ frames' \in Seq(Activation)
    <3>1. CASE f.k <= Words(f.blk)
      <4>1. mark(heap[f.blk][f.k], [frames EXCEPT ![n] = [f EXCEPT !.k = @ + 1]])
        BY <1>12, <3>1 DEF MarkStep
      <4> QED
        BY <4>1, <2>2, MarkType
    <3>2. CASE ~(f.k <= Words(f.blk))
      BY <1>12, <3>2, <2>3 DEF MarkStep, TypeOK
    <3> QED
      BY <3>1, <3>2
  <2> QED
    BY <1>12, <2>4 DEF MarkStep, TypeOK
<1>e. << >> \in Seq(Activation)
  OBVIOUS
<1>13. CASE ScanStack
  <2>1. CASE i > 0
    <3>1. mark(ScanWord(i), << >>) /\ i' = i - 1 /\ pc' = pc
      BY <1>13, <2>1 DEF ScanStack
    <3>2. marked' \in [Block -> BOOLEAN] /\ frames' \in Seq(Activation)
      BY <3>1, <1>e, MarkType
    <3> QED
      BY <1>13, <2>1, <3>1, <3>2 DEF ScanStack, TypeOK
  <2>2. CASE ~(i > 0)
    BY <1>13, <2>2 DEF ScanStack, TypeOK
  <2> QED
    BY <2>1, <2>2
<1>14. CASE ScanRoots
  <2>1. CASE i <= Len(roots)
    <3>1. mark(globals[roots[i]], << >>) /\ i' = i + 1 /\ UNCHANGED <<pc, current>>
      BY <1>14, <2>1 DEF ScanRoots
    <3>2. marked' \in [Block -> BOOLEAN] /\ frames' \in Seq(Activation)
      BY <3>1, <1>e, MarkType
    <3> QED
      BY <1>14, <2>1, <3>1, <3>2 DEF ScanRoots, TypeOK
  <2>2. CASE ~(i <= Len(roots))
    BY <1>14, <2>2 DEF ScanRoots, TypeOK
  <2> QED
    BY <2>1, <2>2
<1>15. CASE SweepStep
  <2>1. current \in Block /\ current' \in Word
    BY <1>15 DEF SweepStep, TypeOK, Word
  <2>2. CASE marked[current]
    BY <1>15, <2>1, <2>2 DEF SweepStep, TypeOK
  <2>3. CASE ~marked[current]
    <3>1. unlink_and_free(current)
      BY <1>15, <2>3 DEF SweepStep
    <3>2. current_bytes' \in Int /\ total_collections' \in Nat
      <4>1. current_bytes \in Int /\ size[current] \in Nat /\ total_collections \in Nat
        BY <2>1 DEF TypeOK
      <4>2. /\ current_bytes' = current_bytes - size[current]
            /\ total_collections' = total_collections + 1
        BY <1>15, <2>3 DEF SweepStep
      <4> QED
        BY <4>1, <4>2
    <3> QED
      BY <1>15, <2>1, <3>1, <3>2, UnlinkType DEF SweepStep, TypeOK
  <2> QED
    BY <2>2, <2>3
<1>16. CASE SweepDone
  <2>1. stale' \in [1..Slack -> Word]
    BY <1>16 DEF SweepDone, Word
  <2>2. stack' \in [1..StackSize -> Word] /\ assigned' \subseteq 1..sp /\ lost' \in BOOLEAN
    BY <1>16 DEF SweepDone, TypeOK, Word
  <2> QED
    BY <1>16, <2>1, <2>2 DEF SweepDone, TypeOK, Word
<1>17. CASE DrainStep
  <2>1. CASE allocation_list # Null
    <3>1. allocation_list \in Block /\ free(allocation_list)
      BY <1>17, <2>1 DEF DrainStep, TypeOK, Word
    <3> QED
      BY <1>17, <2>1, <3>1, FreeType DEF DrainStep, TypeOK, Word
  <2>2. CASE ~(allocation_list # Null)
    BY <1>17, <2>2 DEF DrainStep, TypeOK
  <2> QED
    BY <2>1, <2>2
<1>18. CASE UNCHANGED vars
  BY <1>18 DEF TypeOK, vars
<1> QED
  BY <1>1, <1>2, <1>3, <1>4, <1>5, <1>6, <1>7, <1>8, <1>9, <1>10, <1>11, <1>12, <1>13, <1>14,
     <1>15, <1>16, <1>17, <1>18, <1>reg
  DEF Next, Mutator, RuntimeCall, Collector, Terminated

\* Type correctness of the allocator and its client.
THEOREM TypeCorrect == Spec => []TypeOK
<1>1. TypeOK /\ [Next]_vars => TypeOK'
  BY TypeNext
<1> QED
  BY <1>1, TypeInit, PTL DEF Spec

-----------------------------------------------------------------------------
(***************************************************************************)
(* Closures and list walks.                                                *)
(***************************************************************************)

\* Closure is a closed set ...
LEMMA ClosureClosed ==
  ASSUME NEW start \in SUBSET Block, NEW succ \in [Block -> SUBSET Block]
  PROVE  /\ Closure(start, succ) \subseteq Block
         /\ start \subseteq Closure(start, succ)
         /\ \A x \in Closure(start, succ) : succ[x] \subseteq Closure(start, succ)
BY DEF Closure

\* ... and the least one.
LEMMA ClosureLeast ==
  ASSUME NEW start, NEW succ, NEW S \in SUBSET Block,
         start \subseteq S, \A x \in S : succ[x] \subseteq S
  PROVE  Closure(start, succ) \subseteq S
BY DEF Closure

\* ListFrom, with the links as a parameter: the lists before and after a step.
Walk(nx, h) == Closure({h} \ {Null}, [x \in Block |-> {nx[x]} \ {Null}])

\* What a walk from h along nx meets is closed under nx ...
LEMMA WalkClosed ==
  ASSUME NEW nx \in [Block -> Word], NEW h \in Word
  PROVE  /\ Walk(nx, h) \subseteq Block
         /\ h # Null => h \in Walk(nx, h)
         /\ \A x \in Walk(nx, h) : nx[x] # Null => nx[x] \in Walk(nx, h)
<1> DEFINE start == {h} \ {Null}
           succ == [x \in Block |-> {nx[x]} \ {Null}]
<1>1. start \in SUBSET Block /\ succ \in [Block -> SUBSET Block]
  BY DEF Word
<1>2. /\ Walk(nx, h) \subseteq Block
      /\ start \subseteq Walk(nx, h)
      /\ \A x \in Walk(nx, h) : succ[x] \subseteq Walk(nx, h)
  BY <1>1, ClosureClosed DEF Walk
<1>3. \A x \in Block : nx[x] # Null => nx[x] \in succ[x]
  OBVIOUS
<1> QED
  BY <1>2, <1>3

\* ... and is the least such set that holds h.
LEMMA WalkLeast ==
  ASSUME NEW nx \in [Block -> Word], NEW h \in Word, NEW S \in SUBSET Block,
         h # Null => h \in S,
         \A x \in S : nx[x] # Null => nx[x] \in S
  PROVE  Walk(nx, h) \subseteq S
<1> DEFINE start == {h} \ {Null}
           succ == [x \in Block |-> {nx[x]} \ {Null}]
<1>1. start \subseteq S /\ \A x \in S : succ[x] \subseteq S
  OBVIOUS
<1> QED
  BY <1>1, ClosureLeast DEF Walk

\* The links of a list of exactly the blocks L from head h, as ListIntact has them.
Chained(nx, pv, h, L) ==
  /\ Walk(nx, h) = L
  /\ h # Null => pv[h] \notin L
  /\ \A b \in L : nx[b] # Null => pv[nx[b]] = b

BackLinked(nx, pv, h, L) ==
  \A b \in L : IF pv[b] = Null THEN b = h ELSE pv[b] \in L /\ nx[pv[b]] = b

\* A chained list visits no block twice: without b, what remains of a list in which
\* b follows itself is still closed under next.
LEMMA NoSelfLoop ==
  ASSUME NEW nx \in [Block -> Word], NEW pv \in [Block -> Word], NEW h \in Word,
         NEW L, Chained(nx, pv, h, L), NEW b \in L
  PROVE  nx[b] # b
<1> SUFFICES ASSUME nx[b] = b
             PROVE  FALSE
  OBVIOUS
<1>1. L \subseteq Block /\ b # Null /\ pv[b] = b
  BY WalkClosed, ConstantsOK DEF Chained
<1>2. h # Null => h \in L \ {b}
  BY <1>1, WalkClosed DEF Chained
<1>3. \A x \in L \ {b} : nx[x] # Null => nx[x] \in L \ {b}
  BY <1>1, WalkClosed DEF Chained
<1>4. L \subseteq L \ {b}
  BY <1>1, <1>2, <1>3, WalkLeast DEF Chained
<1> QED
  BY <1>4

\* add_allocation puts a new block in front of the list.
LEMMA AddKeeps ==
  ASSUME NEW nx \in [Block -> Word], NEW pv \in [Block -> Word], NEW h \in Word, NEW L,
         Chained(nx, pv, h, L), BackLinked(nx, pv, h, L),
         NEW b \in Block \ L,
         NEW nx2, nx2 = [nx EXCEPT ![b] = h],
         NEW pv2, pv2 = [x \in Block |-> CASE x = b -> Null [] x = h -> b [] OTHER -> pv[x]]
  PROVE  Chained(nx2, pv2, b, L \cup {b}) /\ BackLinked(nx2, pv2, b, L \cup {b})
<1>0. b # Null /\ Null \notin Block /\ L \subseteq Block /\ h # b
  BY ConstantsOK, WalkClosed DEF Chained
<1>1. nx2 \in [Block -> Word] /\ nx2[b] = h /\ \A x \in Block \ {b} : nx2[x] = nx[x]
  OBVIOUS
<1>2. /\ pv2[b] = Null
      /\ h # Null => pv2[h] = b
      /\ \A x \in Block : x # b /\ x # h => pv2[x] = pv[x]
  BY <1>0 DEF Word
<1>3. L = Walk(nx, h) /\ (h # Null => h \in L) /\ \A x \in L : nx[x] # Null => nx[x] \in L
  BY WalkClosed DEF Chained
<1>4. Walk(nx2, b) \subseteq L \cup {b}
  <2> DEFINE S == L \cup {b}
  <2>1. S \in SUBSET Block /\ b \in S /\ b \in Word
    BY <1>0 DEF Word
  <2>2. \A x \in S : nx2[x] # Null => nx2[x] \in S
    BY <1>0, <1>1, <1>3
  <2> HIDE DEF S
  <2>3. Walk(nx2, b) \subseteq S
    BY <1>1, <2>1, <2>2, WalkLeast
  <2> QED
    BY <2>3 DEF S
<1>5. L \cup {b} \subseteq Walk(nx2, b)
  <2> DEFINE W == Walk(nx2, b)
  <2>1. b \in W /\ (\A x \in W : nx2[x] # Null => nx2[x] \in W)
    BY <1>0, <1>1, WalkClosed DEF Word
  <2>2. h # Null => h \in W \cap L
    <3>1. h # Null => h \in W
      BY <1>1, <2>1
    <3> QED
      BY <1>3, <3>1
  <2>3. \A x \in W \cap L : nx[x] # Null => nx[x] \in W \cap L
    BY <1>0, <1>1, <1>3, <2>1
  <2>4. L \subseteq W \cap L
    BY <1>0, <1>3, <2>2, <2>3, WalkLeast
  <2> QED
    BY <2>1, <2>4
<1>6. \A x \in L \cup {b} : nx2[x] # Null => pv2[nx2[x]] = x
  <2>1. ASSUME NEW x \in L, nx[x] # Null
        PROVE  nx[x] # h /\ nx[x] # b /\ pv[nx[x]] = x
    BY <1>0, <1>3, <2>1 DEF Chained
  <2>2. ASSUME NEW x \in L, nx2[x] # Null
        PROVE  pv2[nx2[x]] = x
    BY <1>0, <1>1, <1>2, <1>3, <2>1, <2>2
  <2> QED
    BY <1>1, <1>2, <2>2
<1>7. BackLinked(nx2, pv2, b, L \cup {b})
  <2>1. ASSUME NEW x \in L, x # h
        PROVE  pv2[x] # Null /\ pv2[x] \in L /\ nx2[pv2[x]] = x
    BY <1>0, <1>1, <1>2, <2>1 DEF BackLinked
  <2> QED
    BY <1>0, <1>1, <1>2, <2>1 DEF BackLinked
<1> QED
  BY <1>2, <1>4, <1>5, <1>6, <1>7, <1>0 DEF Chained

\* remove_allocation takes one block out, wherever it is, and what followed it in
\* the list still follows.
LEMMA RemoveKeeps ==
  ASSUME NEW nx \in [Block -> Word], NEW pv \in [Block -> Word], NEW h \in Word, NEW L,
         Chained(nx, pv, h, L), BackLinked(nx, pv, h, L),
         NEW b \in L,
         NEW nx2, nx2 = [x \in Block |-> CASE x = b -> Null [] x = pv[b] -> nx[b] [] OTHER -> nx[x]],
         NEW pv2, pv2 = [x \in Block |-> CASE x = b -> Null [] x = nx[b] -> pv[b] [] OTHER -> pv[x]],
         NEW h2, h2 = IF pv[b] = Null THEN nx[b] ELSE h
  PROVE  /\ Chained(nx2, pv2, h2, L \ {b})
         /\ BackLinked(nx2, pv2, h2, L \ {b})
         /\ Walk(nx, b) \ {b} \subseteq Walk(nx2, nx[b])
<1>0. b # Null /\ Null \notin Block /\ L \subseteq Block /\ nx[b] # b /\ b \in Block
  BY ConstantsOK, WalkClosed, NoSelfLoop DEF Chained
<1>3. L = Walk(nx, h) /\ (h # Null => h \in L) /\ \A x \in L : nx[x] # Null => nx[x] \in L
  BY WalkClosed DEF Chained
<1>4. IF pv[b] = Null THEN b = h ELSE pv[b] \in L /\ nx[pv[b]] = b
  BY DEF BackLinked
<1>5. pv[b] # b
  BY <1>0, <1>4
<1>1. /\ nx2 \in [Block -> Word] /\ nx2[b] = Null
      /\ pv[b] # Null => nx2[pv[b]] = nx[b]
      /\ \A x \in Block : x # b /\ x # pv[b] => nx2[x] = nx[x]
  BY <1>0, <1>4, <1>5 DEF Word
<1>2. /\ pv2[b] = Null
      /\ nx[b] # Null => pv2[nx[b]] = pv[b]
      /\ \A x \in Block : x # b /\ x # nx[b] => pv2[x] = pv[x]
  BY <1>0 DEF Word
<1>6. \A x \in L : nx[x] = b => x = pv[b]
  BY <1>0 DEF Chained
<1>7. h2 \in Word /\ (h2 # Null => h2 \in L \ {b})
  BY <1>0, <1>3, <1>4 DEF Chained
<1>8. \A x \in L \ {b} : nx2[x] # Null => nx2[x] \in L \ {b}
  BY <1>0, <1>1, <1>3, <1>6
<1>9. Walk(nx2, h2) \subseteq L \ {b}
  <2> DEFINE S == L \ {b}
  <2>1. S \in SUBSET Block /\ (h2 # Null => h2 \in S) /\ \A x \in S : nx2[x] # Null => nx2[x] \in S
    BY <1>0, <1>7, <1>8
  <2> HIDE DEF S
  <2>2. Walk(nx2, h2) \subseteq S
    BY <1>1, <1>7, <2>1, WalkLeast
  <2> QED
    BY <2>2 DEF S
<1>10. L \ {b} \subseteq Walk(nx2, h2)
  <2> DEFINE W == Walk(nx2, h2)
             S == (W \ {b}) \cup (IF pv[b] = Null \/ pv[b] \in W THEN {b} ELSE {})
  <2>1. /\ W \subseteq L \ {b}
        /\ h2 # Null => h2 \in W
        /\ \A x \in W : nx2[x] # Null => nx2[x] \in W
    BY <1>1, <1>7, <1>9, WalkClosed
  <2>2. h # Null => h \in S
    BY <1>0, <1>3, <1>4, <2>1 DEF Chained
  <2>3. \A x \in S : nx[x] # Null => nx[x] \in S
    BY <1>0, <1>1, <1>3, <1>4, <1>6, <2>1
  <2>4. S \in SUBSET Block /\ S \ {b} \subseteq W
    BY <1>0, <2>1
  <2> HIDE DEF S
  <2>5. L \subseteq S
    BY <1>3, <2>2, <2>3, <2>4, WalkLeast
  <2> QED
    BY <2>4, <2>5
<1>11. h2 # Null => pv2[h2] \notin L \ {b}
  BY <1>0, <1>2, <1>3, <1>4, <1>6, <1>7 DEF Chained
<1>12. \A x \in L \ {b} : nx2[x] # Null => pv2[nx2[x]] = x
  BY <1>0, <1>1, <1>2, <1>3, <1>4, <1>6 DEF Chained
<1>13. BackLinked(nx2, pv2, h2, L \ {b})
  BY <1>0, <1>1, <1>2, <1>3, <1>4, <1>6 DEF Chained, BackLinked
<1>14. Walk(nx, b) \ {b} \subseteq Walk(nx2, nx[b])
  <2> DEFINE S == Walk(nx2, nx[b]) \cup {b}
  <2>1. /\ Walk(nx2, nx[b]) \subseteq Block
        /\ nx[b] # Null => nx[b] \in Walk(nx2, nx[b])
        /\ \A x \in Walk(nx2, nx[b]) : nx2[x] # Null => nx2[x] \in Walk(nx2, nx[b])
    BY <1>0, <1>1, WalkClosed
  <2>2. \A x \in S : nx[x] # Null => nx[x] \in S
    BY <1>0, <1>1, <1>4, <2>1
  <2>3. S \in SUBSET Block /\ b \in S /\ b \in Word
    BY <1>0, <2>1 DEF Word
  <2> HIDE DEF S
  <2>4. Walk(nx, b) \subseteq S
    BY <2>2, <2>3, WalkLeast
  <2> QED
    BY <2>4 DEF S
<1> QED
  BY <1>9, <1>10, <1>11, <1>12, <1>13, <1>14 DEF Chained

\* The drain of ms_shutdown takes the head off and leaves prev alone.
LEMMA DrainKeeps ==
  ASSUME NEW nx \in [Block -> Word], NEW pv \in [Block -> Word], NEW h \in Block, NEW L,
         Chained(nx, pv, h, L),
         NEW nx2, nx2 = [nx EXCEPT ![h] = Null]
  PROVE  h \in L /\ Chained(nx2, pv, nx[h], L \ {h})
<1>0. h # Null /\ Null \notin Block /\ h \in Word
  BY ConstantsOK DEF Word
<1>1. L = Walk(nx, h) /\ L \subseteq Block /\ h \in L /\ \A x \in L : nx[x] # Null => nx[x] \in L
  BY <1>0, WalkClosed DEF Chained
<1>2. /\ nx2 \in [Block -> Word] /\ nx2[h] = Null
      /\ \A x \in Block \ {h} : nx2[x] = nx[x]
  BY DEF Word
<1>3. nx[h] # h /\ nx[h] \in Word /\ \A x \in L : nx[x] # h
  BY <1>0, <1>1, NoSelfLoop DEF Chained
<1>4. Walk(nx2, nx[h]) \subseteq L \ {h}
  <2> DEFINE S == L \ {h}
  <2>1. /\ S \in SUBSET Block /\ (nx[h] # Null => nx[h] \in S)
        /\ \A x \in S : nx2[x] # Null => nx2[x] \in S
    BY <1>1, <1>2, <1>3
  <2> HIDE DEF S
  <2>2. Walk(nx2, nx[h]) \subseteq S
    BY <1>2, <1>3, <2>1, WalkLeast
  <2> QED
    BY <2>2 DEF S
<1>5. L \ {h} \subseteq Walk(nx2, nx[h])
  <2> DEFINE S == Walk(nx2, nx[h]) \cup {h}
  <2>1. /\ Walk(nx2, nx[h]) \subseteq Block
        /\ nx[h] # Null => nx[h] \in Walk(nx2, nx[h])
        /\ \A x \in Walk(nx2, nx[h]) : nx2[x] # Null => nx2[x] \in Walk(nx2, nx[h])
    BY <1>2, <1>3, WalkClosed
  <2>2. S \in SUBSET Block /\ h \in S /\ \A x \in S : nx[x] # Null => nx[x] \in S
    BY <1>2, <1>4, <2>1
  <2> HIDE DEF S
  <2>3. Walk(nx, h) \subseteq S
    BY <1>0, <2>2, WalkLeast
  <2> QED
    BY <1>1, <2>3 DEF S
<1>6. nx[h] # Null => pv[nx[h]] \notin L \ {h}
  BY <1>1 DEF Chained
<1>7. \A x \in L \ {h} : nx2[x] # Null => pv[nx2[x]] = x
  BY <1>1, <1>2 DEF Chained
<1> QED
  BY <1>1, <1>4, <1>5, <1>6, <1>7 DEF Chained

-----------------------------------------------------------------------------
(***************************************************************************)
(* The allocation list.  The inductive invariant adds to ListIntact that   *)
(* the cursor of the sweep is on the list: sweep_phase saves next before   *)
(* it frees, and the saved header is never the freed one.                  *)
(***************************************************************************)
CursorAlive == pc = "sweep" /\ current # Null => current \in alive

ListInv == TypeOK /\ ListIntact /\ CursorAlive

\* ListIntact in terms of Chained and BackLinked.
LEMMA ListIntactIs ==
  ListIntact <=> /\ Chained(next, prev, allocation_list, alive)
                 /\ pc \notin {"drain", "down"} =>
                      BackLinked(next, prev, allocation_list, alive)
BY DEF ListIntact, Chained, BackLinked, OnList, ListFrom, Walk

\* The same after the step.
LEMMA ListIntactIsPrimed ==
  ListIntact' <=> /\ Chained(next', prev', allocation_list', alive')
                  /\ pc' \notin {"drain", "down"} =>
                       BackLinked(next', prev', allocation_list', alive')
BY DEF ListIntact, Chained, BackLinked, OnList, ListFrom, Walk

\* A step that leaves the list and malloc alone.
LEMMA ListUntouched ==
  ASSUME ListIntact, UNCHANGED <<listVars, alive>>,
         pc \in {"drain", "down"} => pc' \in {"drain", "down"}
  PROVE  ListIntact'
BY ListIntactIs, ListIntactIsPrimed DEF listVars

\* A step that unlinks and frees a block of the list.
LEMMA ListUnlinked ==
  ASSUME TypeOK, ListIntact, NEW b \in alive, unlink_and_free(b),
         pc \notin {"drain", "down"}
  PROVE  ListIntact' /\ Walk(next, b) \ {b} \subseteq Walk(next', next[b])
<1>1. /\ next \in [Block -> Word] /\ prev \in [Block -> Word] /\ allocation_list \in Word
      /\ alive' = alive \ {b}
  BY DEF TypeOK, unlink_and_free, free
<1>2. Chained(next, prev, allocation_list, alive) /\ BackLinked(next, prev, allocation_list, alive)
  BY ListIntactIs
<1>3. /\ Chained(next', prev', allocation_list', alive \ {b})
      /\ BackLinked(next', prev', allocation_list', alive \ {b})
      /\ Walk(next, b) \ {b} \subseteq Walk(next', next[b])
  BY <1>1, <1>2, RemoveKeeps DEF unlink_and_free
<1> QED
  BY <1>1, <1>3, ListIntactIsPrimed

\* The empty list of ms_init is intact.
LEMMA ListInit == Init => ListInv
<1> SUFFICES ASSUME Init
             PROVE  ListInv
  OBVIOUS
<1>1. TypeOK
  BY TypeInit
<1>2. Walk(next, Null) = {}
  <2>0. {} \in SUBSET Block /\ Null \in Word /\ next \in [Block -> Word]
    BY <1>1 DEF TypeOK, Word
  <2>1. Walk(next, Null) \subseteq {}
    BY <2>0, WalkLeast
  <2> QED
    BY <2>1
<1>3. ListIntact
  BY <1>2, ListIntactIs DEF Init, Chained, BackLinked
<1> QED
  BY <1>1, <1>3 DEF Init, ListInv, CursorAlive

\* Every step keeps the list intact, whichever block it adds, frees or steps over.
LEMMA ListNext == ListInv /\ [Next]_vars => ListInv'
<1> SUFFICES ASSUME ListInv, [Next]_vars
             PROVE  ListInv'
  OBVIOUS
<1> USE DEF ListInv
<1>0. TypeOK'
  BY TypeNext
<1>t. /\ next \in [Block -> Word] /\ prev \in [Block -> Word] /\ allocation_list \in Word
  BY DEF TypeOK
<1>s. ASSUME UNCHANGED <<listVars, alive, current, pc>>
      PROVE  ListInv'
  BY <1>0, <1>s, ListUntouched DEF CursorAlive
<1>1. ASSUME NEW g \in Global, ms_register_root(g), pc \in {"boot", "app"}
      PROVE  ListInv'
  <2>1. UNCHANGED <<listVars, alive, current>> /\ pc' \in {"boot", "app", "exit"}
    BY <1>1 DEF ms_register_root, gcVars
  <2> QED
    BY <1>0, <1>1, <2>1, ListUntouched DEF CursorAlive
<1>2. CASE EnterMain
  <2>1. UNCHANGED <<listVars, alive>> /\ pc' = "app" /\ pc = "boot"
    BY <1>2 DEF EnterMain
  <2> QED
    BY <1>0, <2>1, ListUntouched DEF CursorAlive
<1>3. CASE EnterScope \/ LeaveScope
  BY <1>3, <1>s DEF EnterScope, LeaveScope, gcVars
<1>4. ASSUME NEW w, NEW k, StoreLocal(k, w)
      PROVE  ListInv'
  BY <1>4, <1>s DEF StoreLocal, gcVars
<1>5. ASSUME NEW w, NEW g, StoreGlobal(g, w)
      PROVE  ListInv'
  BY <1>5, <1>s DEF StoreGlobal, gcVars
<1>6. ASSUME NEW w, NEW b, NEW k, StoreField(b, k, w)
      PROVE  ListInv'
  BY <1>6, <1>s DEF StoreField, gcVars
<1>7. ASSUME NEW t, ms_set_gc_threshold(t)
      PROVE  ListInv'
  BY <1>7, <1>s DEF ms_set_gc_threshold, gcVars
<1>8. CASE Alloc
  <2>1. ASSUME NEW d, OutOfMemory(d)
        PROVE  ListInv'
    BY <2>1, <1>s DEF OutOfMemory, gcVars
  <2>2. ASSUME NEW d, NEW bytes, NEW b \in Block \ alive, NEW junk, ms_alloc(bytes, d, b, junk)
        PROVE  ListInv'
    <3>1. pc = "app" /\ alive' = alive \cup {b} /\ add_allocation(b) /\ pc' \in {"app", "stack"}
      BY <1>8, <2>2 DEF Alloc, ms_alloc, collect_garbage
    <3>2. /\ Chained(next', prev', b, alive \cup {b})
          /\ BackLinked(next', prev', b, alive \cup {b})
      <4>1. /\ Chained(next, prev, allocation_list, alive)
            /\ BackLinked(next, prev, allocation_list, alive)
        BY <3>1, ListIntactIs
      <4>2. /\ next' = [next EXCEPT ![b] = allocation_list]
            /\ prev' = [x \in Block |-> CASE x = b -> Null
                                          [] x = allocation_list -> b
                                          [] OTHER -> prev[x]]
        BY <3>1 DEF add_allocation
      <4> QED
        BY <1>t, <4>1, <4>2, AddKeeps, ZenonT(30)
    <3> QED
      BY <1>0, <3>1, <3>2, ListIntactIsPrimed DEF add_allocation, CursorAlive
  <2> QED
    BY <1>8, <2>1, <2>2 DEF Alloc
<1>9. ASSUME NEW b \in Block, ms_dealloc(b)
      PROVE  ListInv'
  BY <1>0, <1>9, ListUnlinked DEF ms_dealloc, CursorAlive
<1>10. CASE ms_gc \/ ms_shutdown
  <2>1. UNCHANGED <<listVars, alive>> /\ pc' = "stack" /\ pc = "app"
    BY <1>10 DEF ms_gc, ms_shutdown, collect_garbage
  <2> QED
    BY <1>0, <2>1, ListUntouched DEF CursorAlive
<1>11. CASE MarkStep
  BY <1>11, <1>s DEF MarkStep
<1>12. CASE ScanStack
  <2>1. UNCHANGED <<listVars, alive>> /\ pc' \in {"stack", "roots"} /\ pc = "stack"
    BY <1>12 DEF ScanStack
  <2> QED
    BY <1>0, <2>1, ListUntouched DEF CursorAlive
<1>13. CASE ScanRoots
  <2>1. UNCHANGED <<listVars, alive>> /\ pc' \in {"roots", "sweep"} /\ pc = "roots"
    BY <1>13 DEF ScanRoots
  <2>2. pc' = "sweep" => current' = allocation_list
    BY <1>13, <2>1 DEF ScanRoots
  <2>3. allocation_list # Null => allocation_list \in alive
    BY <1>t, ListIntactIs, WalkClosed DEF Chained
  <2> QED
    BY <1>0, <2>1, <2>2, <2>3, ListUntouched DEF CursorAlive
<1>14. CASE SweepStep
  <2>1. pc = "sweep" /\ pc' = "sweep" /\ current \in alive /\ current' = next[current]
    BY <1>14 DEF SweepStep, CursorAlive
  <2>2. Chained(next, prev, allocation_list, alive)
    BY ListIntactIs
  <2>3. (next[current] # Null => next[current] \in alive) /\ next[current] # current
    BY <1>t, <2>1, <2>2, WalkClosed, NoSelfLoop DEF Chained
  <2>4. CASE marked[current]
    BY <1>0, <1>14, <2>1, <2>3, <2>4, ListUntouched DEF SweepStep, CursorAlive
  <2>5. CASE ~marked[current]
    <3>1. unlink_and_free(current) /\ alive' = alive \ {current}
      BY <1>14, <2>5 DEF SweepStep, unlink_and_free, free
    <3> QED
      BY <1>0, <2>1, <2>3, <3>1, ListUnlinked DEF CursorAlive
  <2> QED
    BY <2>4, <2>5
<1>15. CASE SweepDone
  <2>1. UNCHANGED <<listVars, alive>> /\ pc' \in {"drain", "app"} /\ pc = "sweep"
    BY <1>15 DEF SweepDone
  <2> QED
    BY <1>0, <2>1, ListUntouched DEF CursorAlive
<1>16. CASE DrainStep
  <2>1. CASE allocation_list = Null
    <3>1. UNCHANGED <<listVars, alive>> /\ pc' = "down"
      BY <1>16, <2>1 DEF DrainStep, listVars
    <3> QED
      BY <1>0, <3>1, ListUntouched DEF CursorAlive
  <2>2. CASE allocation_list # Null
    <3>1. /\ allocation_list \in Block
          /\ allocation_list' = next[allocation_list] /\ prev' = prev
          /\ next' = [next EXCEPT ![allocation_list] = Null]
          /\ alive' = alive \ {allocation_list} /\ pc' = "drain"
      BY <1>16, <1>t, <2>2 DEF DrainStep, free, Word
    <3>2. Chained(next', prev', allocation_list', alive')
      BY <1>t, <3>1, ListIntactIs, DrainKeeps
    <3> QED
      BY <1>0, <3>1, <3>2, ListIntactIsPrimed DEF CursorAlive
  <2> QED
    BY <2>1, <2>2
<1>17. CASE UNCHANGED vars
  BY <1>17, <1>s DEF vars, gcVars
<1> QED
  BY <1>1, <1>2, <1>3, <1>4, <1>5, <1>6, <1>7, <1>8, <1>9, <1>10, <1>11, <1>12, <1>13, <1>14,
     <1>15, <1>16, <1>17, ConstantsOK
  DEF Next, RegisterGlobals, Mutator, RuntimeCall, Collector, Terminated

\* The allocation list stays whole through every allocation, deallocation, sweep
\* and shutdown, for any number of blocks.
THEOREM ListCorrect == Spec => []ListIntact
<1>1. ListInv /\ [Next]_vars => ListInv'
  BY ListNext
<1>2. ListInv => ListIntact
  BY DEF ListInv
<1> QED
  BY <1>1, <1>2, ListInit, PTL DEF Spec

-----------------------------------------------------------------------------
(***************************************************************************)
(* Marking.  Tricolour alone is not inductive: the activations of mark     *)
(* must belong to marked blocks and be gone when the scans are, marks must *)
(* not survive a free, and the sweep must not have passed an unmarked      *)
(* block.                                                                  *)
(***************************************************************************)
MarkedAlive == \A b \in Block : marked[b] => b \in alive

FramesMarked ==
  /\ frames # << >> => pc \in {"stack", "roots"}
  /\ \A n \in DOMAIN frames : marked[frames[n].blk]

SweepCovers ==
  pc = "sweep" => \A b \in alive : marked[b] \/ b \in Walk(next, current)

ScanIndex == (pc = "stack" => i <= sp + Slack) /\ (pc = "roots" => i # 0)

ColourInv == ListInv /\ ScanIndex /\ MarkedAlive /\ FramesMarked /\ Tricolour /\ SweepCovers

\* What no step of the mark phase changes.
SameHeap == UNCHANGED <<listVars, size, heap, stack, sp, stale, globals, roots>>

\* Every child of a marked block is marked, is w, or is ahead of an activation in rest.
CoveredBut(w, rest) ==
  \A b \in Block : marked[b] =>
    \A k \in 1..Words(b) : heap[b][k] \in Valid =>
      \/ marked[heap[b][k]] \/ heap[b][k] = w
      \/ \E n \in DOMAIN rest : rest[n].blk = b /\ rest[n].k <= k

\* The types that the marking lemmas need.
LEMMA ScanTypes ==
  ASSUME TypeOK
  PROVE  /\ i \in Nat /\ sp + Slack \in Nat
         /\ Len(roots) \in Nat /\ DOMAIN roots = 1..Len(roots)
         /\ frames \in Seq(Activation) /\ Len(frames) \in Nat /\ DOMAIN frames = 1..Len(frames)
         /\ marked \in [Block -> BOOLEAN]
<1>1. i \in Nat /\ sp \in Nat /\ marked \in [Block -> BOOLEAN] /\ frames \in Seq(Activation)
      /\ roots \in Seq(Global)
  BY ConstantsOK DEF TypeOK
<1> QED
  BY <1>1, ConstantsOK

\* Elements of a sequence over S are in S.
LEMMA SeqElement ==
  ASSUME NEW S, NEW s \in Seq(S)
  PROVE  \A n \in DOMAIN s : s[n] \in S
OBVIOUS

\* The activations of mark are of blocks.
LEMMA ActivationBlocks ==
  ASSUME NEW s \in Seq(Activation)
  PROVE  \A n \in DOMAIN s : s[n].blk \in Block
<1>1. \A n \in DOMAIN s : s[n] \in Activation
  BY SeqElement
<1>2. \A a \in Activation : a.blk \in Block
  BY DEF Activation
<1> QED
  BY <1>1, <1>2

\* The elements of a sequence with one more at its end.
LEMMA AppendParts ==
  ASSUME NEW S, NEW s \in Seq(S), NEW e \in S
  PROVE  /\ DOMAIN Append(s, e) = (DOMAIN s) \cup {Len(s) + 1}
         /\ Append(s, e)[Len(s) + 1] = e
         /\ \A n \in DOMAIN s : Append(s, e)[n] = s[n]
OBVIOUS

\* What a call of mark does: it marks w if w points into a block, it marks nothing
\* else, and a block it marks becomes the innermost activation, at its first word.
LEMMA MarkEffect ==
  ASSUME TypeOK, NEW w, NEW rest \in Seq(Activation), mark(w, rest)
  PROVE  /\ \A b \in Block : marked[b] => marked'[b]
         /\ w \in Valid => marked'[w]
         /\ \A n \in DOMAIN rest : n \in DOMAIN frames' /\ frames'[n] = rest[n]
         /\ \/ frames' = rest /\ marked' = marked
            \/ /\ w \in Valid
               /\ marked' = [marked EXCEPT ![w] = TRUE]
               /\ DOMAIN frames' = (DOMAIN rest) \cup {Len(rest) + 1}
               /\ frames'[Len(rest) + 1] = [blk |-> w, k |-> 1]
<1> DEFINE h == find_header(w)
<1>0. Valid \subseteq Block /\ Null \notin Block
  BY ConstantsOK DEF Valid, OnList, ListFrom, Closure
<1>1. IF w \in Valid THEN h = w ELSE h = Null
  BY DEF find_header, Valid
<1>2. CASE h = Null \/ marked[h]
  <2>1. frames' = rest /\ marked' = marked
    BY <1>2 DEF mark
  <2> QED
    BY <1>0, <1>1, <1>2, <2>1
<1>3. CASE ~(h = Null \/ marked[h])
  <2>1. w \in Valid /\ h = w /\ w \in Block
    BY <1>0, <1>1, <1>3
  <2>2. marked' = [marked EXCEPT ![w] = TRUE] /\ frames' = Append(rest, [blk |-> w, k |-> 1])
    BY <1>3, <2>1 DEF mark
  <2>3. /\ DOMAIN frames' = (DOMAIN rest) \cup {Len(rest) + 1}
        /\ frames'[Len(rest) + 1] = [blk |-> w, k |-> 1]
        /\ \A n \in DOMAIN rest : frames'[n] = rest[n]
    <3>1. [blk |-> w, k |-> 1] \in Activation
      BY <2>1 DEF Activation
    <3> QED
      BY <2>2, <3>1, AppendParts
  <2>4. marked'[w] /\ \A b \in Block : marked[b] => marked'[b]
    BY <2>1, <2>2 DEF TypeOK
  <2> QED
    BY <2>1, <2>2, <2>3, <2>4
<1> QED
  BY <1>2, <1>3

\* Reach contains the recognised roots and, with a block, what it points to.
LEMMA ReachClosed ==
  ASSUME TypeOK
  PROVE  /\ RootWords \cap Valid \subseteq Reach
         /\ \A x \in Reach : \A k \in 1..Words(x) : heap[x][k] \in Valid => heap[x][k] \in Reach
<1>1. Valid \subseteq Block
  BY DEF Valid, OnList, ListFrom, Closure
<1>2. RootWords \cap Valid \in SUBSET Block /\ Points \in [Block -> SUBSET Block]
  BY <1>1 DEF Points
<1>3. /\ Reach \subseteq Block
      /\ RootWords \cap Valid \subseteq Reach
      /\ \A x \in Reach : Points[x] \subseteq Reach
  BY <1>2, ClosureClosed DEF Reach
<1>4. \A x \in Block : \A k \in 1..Words(x) : heap[x][k] \in Valid => heap[x][k] \in Points[x]
  BY DEF Points
<1> QED
  BY <1>3, <1>4

\* ReachClosed after a step.
LEMMA ReachClosedPrimed ==
  ASSUME TypeOK'
  PROVE  /\ RootWords' \cap Valid' \subseteq Reach'
         /\ \A x \in Reach' : \A k \in 1..(Words(x)') :
              heap'[x][k] \in Valid' => heap'[x][k] \in Reach'
<1>1. Valid' \subseteq Block
  BY DEF Valid, OnList, ListFrom, Closure
<1>2. RootWords' \cap Valid' \in SUBSET Block /\ Points' \in [Block -> SUBSET Block]
  BY <1>1 DEF Points
<1>3. Reach' = Closure(RootWords' \cap Valid', Points')
  BY DEF Reach, Closure
<1>4. /\ Reach' \subseteq Block
      /\ RootWords' \cap Valid' \subseteq Reach'
      /\ \A x \in Reach' : Points'[x] \subseteq Reach'
  BY <1>2, <1>3, ClosureClosed
<1>5. \A x \in Block : \A k \in 1..(Words(x)') : heap'[x][k] \in Valid' => heap'[x][k] \in Points'[x]
  BY DEF Points
<1> QED
  BY <1>4, <1>5

\* The steps of the mark phase change neither the heap nor the roots.
LEMMA ReachSame ==
  ASSUME SameHeap
  PROVE  /\ Valid' = Valid /\ Reach' = Reach
         /\ \A b : Words(b)' = Words(b)
         /\ \A k : ScanWord(k)' = ScanWord(k)
<1>1. Valid' = Valid
  BY DEF Valid, OnList, ListFrom, Closure, listVars, SameHeap
<1>2. \A b : Words(b)' = Words(b)
  BY DEF Words, SameHeap
<1>3. \A k : ScanWord(k)' = ScanWord(k)
  BY DEF ScanWord, SameHeap
<1>4. RootWords' = RootWords
  BY <1>3 DEF RootWords, SameHeap
<1>5. Points' = Points
  BY <1>1, <1>2 DEF Points, SameHeap
<1>6. Reach' = Reach
  BY <1>1, <1>4, <1>5 DEF Reach, Closure
<1> QED
  BY <1>1, <1>2, <1>3, <1>6

\* A call of mark with a reachable argument keeps the marking sound and hides no
\* child, if rest only drops from the activations what the call takes care of.
LEMMA MarkKeeps ==
  ASSUME TypeOK, SameHeap, MarkedReachable,
         NEW w, NEW rest \in Seq(Activation), mark(w, rest),
         w \in Valid => w \in Reach,
         \A n \in DOMAIN rest : marked[rest[n].blk],
         CoveredBut(w, rest)
  PROVE  /\ MarkedReachable' /\ NoHiddenChild'
         /\ \A n \in DOMAIN frames' : marked'[frames'[n].blk]
         /\ \A b \in Block : marked[b] => marked'[b]
         /\ w \in Valid => marked'[w]
<1>1. /\ Valid' = Valid /\ Reach' = Reach /\ heap' = heap
      /\ \A b : Words(b)' = Words(b)
  BY ReachSame DEF SameHeap
<1>2. /\ \A b \in Block : marked[b] => marked'[b]
      /\ w \in Valid => marked'[w]
      /\ \A n \in DOMAIN rest : n \in DOMAIN frames' /\ frames'[n] = rest[n]
      /\ \/ frames' = rest /\ marked' = marked
         \/ /\ w \in Valid
            /\ marked' = [marked EXCEPT ![w] = TRUE]
            /\ DOMAIN frames' = (DOMAIN rest) \cup {Len(rest) + 1}
            /\ frames'[Len(rest) + 1] = [blk |-> w, k |-> 1]
  BY MarkEffect
<1>3. Valid \subseteq Block
  BY DEF Valid, OnList, ListFrom, Closure
<1>4. \A b \in Block : marked'[b] => marked[b] \/ (b = w /\ w \in Valid)
  BY <1>2, <1>3, ScanTypes
<1>5. MarkedReachable'
  BY <1>1, <1>4 DEF MarkedReachable
<1>6. \A n \in DOMAIN frames' : marked'[frames'[n].blk]
  <2>1. \A n \in DOMAIN rest : rest[n].blk \in Block
    BY ActivationBlocks
  <2>2. CASE frames' = rest /\ marked' = marked
    BY <2>2
  <2>3. CASE /\ w \in Valid
             /\ DOMAIN frames' = (DOMAIN rest) \cup {Len(rest) + 1}
             /\ frames'[Len(rest) + 1] = [blk |-> w, k |-> 1]
    <3>1. \A n \in DOMAIN rest : marked'[frames'[n].blk]
      BY <1>2, <2>1
    <3>2. frames'[Len(rest) + 1].blk = w
      BY <2>3
    <3> QED
      BY <1>2, <2>3, <3>1, <3>2
  <2> QED
    BY <1>2, <2>2, <2>3
<1>7. NoHiddenChild'
  <2> SUFFICES ASSUME NEW b \in Block, marked'[b], NEW k \in 1..Words(b), heap[b][k] \in Valid
               PROVE  \/ marked'[heap[b][k]]
                      \/ \E n \in DOMAIN frames' : frames'[n].blk = b /\ frames'[n].k <= k
    BY <1>1 DEF NoHiddenChild
  <2>1. CASE marked[b]
    <3>1. CASE marked[heap[b][k]] \/ heap[b][k] = w
      BY <1>2, <1>3, <3>1
    <3>2. CASE \E n \in DOMAIN rest : rest[n].blk = b /\ rest[n].k <= k
      BY <1>2, <3>2
    <3> QED
      BY <2>1, <3>1, <3>2 DEF CoveredBut
  <2>2. CASE ~marked[b]
    <3>1. b = w /\ frames'[Len(rest) + 1] = [blk |-> b, k |-> 1] /\ Len(rest) + 1 \in DOMAIN frames'
      BY <1>2, <1>4, <2>2
    <3>2. frames'[Len(rest) + 1].blk = b /\ frames'[Len(rest) + 1].k = 1
      BY <3>1
    <3>3. 1 <= k
      OBVIOUS
    <3> QED
      BY <3>1, <3>2, <3>3
  <2> QED
    BY <2>1, <2>2
<1> QED
  BY <1>2, <1>5, <1>6, <1>7

\* Nothing is marked or active at the start.
LEMMA ColourInit == Init => ColourInv
BY ListInit DEF Init, ColourInv, ScanIndex, MarkedAlive, FramesMarked, Tricolour, SweepCovers

\* ColourInv after a step within the mark phase, from its parts.
LEMMA ColourFrom ==
  ASSUME ListInv', pc' \in {"stack", "roots"}, ScanIndex', MarkedAlive', FramesMarked',
         MarkedReachable', NoHiddenChild', ScannedMarked'
  PROVE  ColourInv'
<1>1. Tricolour'
  BY DEF Tricolour
<1>2. SweepCovers'
  BY DEF SweepCovers
<1> QED
  BY <1>1, <1>2 DEF ColourInv

\* The parts of ColourInv that every step of the mark phase keeps alike.
LEMMA MarkPhaseKeeps ==
  ASSUME ColourInv, ListInv', UNCHANGED alive, pc \in {"stack", "roots"},
         NEW w, NEW rest \in Seq(Activation), mark(w, rest), w \in Valid => w \in Block
  PROVE  MarkedAlive'
<1>1. OnList = alive
  BY DEF ColourInv, ListInv, ListIntact
<1>2. \A b \in Block : marked'[b] => marked[b] \/ (b = w /\ w \in Valid)
  <2>1. TypeOK /\ marked \in [Block -> BOOLEAN]
    BY DEF ColourInv, ListInv, TypeOK
  <2>2. marked' = marked \/ (w \in Valid /\ marked' = [marked EXCEPT ![w] = TRUE])
    BY <2>1, MarkEffect
  <2> QED
    BY <2>1, <2>2
<1> QED
  BY <1>1, <1>2 DEF ColourInv, MarkedAlive, Valid

\* A collection starts with no mark and nothing scanned.
LEMMA CollectKeeps ==
  ASSUME ColourInv, ListInv', NEW who, NEW listed, collect_garbage(who, listed),
         alive' \subseteq listed, alive \subseteq listed, sp' = sp, pc = "app"
  PROVE  ColourInv'
<1>1. pc' = "stack" /\ frames' = << >> /\ i' = sp + Slack
  BY DEF collect_garbage, ColourInv, FramesMarked
<1>2. \A b \in Block : ~marked'[b]
  BY DEF collect_garbage, ColourInv, MarkedAlive
<1>3. MarkedReachable' /\ NoHiddenChild' /\ MarkedAlive'
  BY <1>2 DEF MarkedReachable, NoHiddenChild, MarkedAlive
<1>t. sp + Slack \in Nat
  BY ScanTypes DEF ColourInv, ListInv
<1>4. ScannedMarked'
  BY <1>1, <1>t DEF ScannedMarked
<1>5. ScanIndex'
  BY <1>1, <1>t DEF ScanIndex
<1>6. FramesMarked'
  BY <1>1 DEF FramesMarked
<1> QED
  BY <1>1, <1>3, <1>4, <1>5, <1>6, ColourFrom

\* One iteration of mark's loop, or its return, keeps the colours.
LEMMA MarkStepKeeps ==
  ASSUME ColourInv, ListInv', MarkStep
  PROVE  ColourInv'
<1> DEFINE n == Len(frames)
           f == frames[n]
           w == heap[f.blk][f.k]
           rest == [frames EXCEPT ![n] = [f EXCEPT !.k = @ + 1]]
<1>0. TypeOK /\ TypeOK' /\ pc \in {"stack", "roots"} /\ pc' = pc /\ alive' = alive /\ i' = i
  BY DEF MarkStep, ColourInv, ListInv, FramesMarked
<1>1. SameHeap
  BY DEF MarkStep, progVars, cfgVars, SameHeap
<1>2. n \in DOMAIN frames /\ n \in Nat /\ f \in Activation /\ DOMAIN frames = 1..n
  <2>1. frames # << >> /\ frames \in Seq(Activation)
    BY <1>0, ScanTypes DEF MarkStep
  <2>2. n \in DOMAIN frames /\ n \in Nat /\ DOMAIN frames = 1..n
    BY <2>1
  <2> QED
    BY <2>1, <2>2, SeqElement
<1>3. f.blk \in Block /\ f.k \in Nat \ {0} /\ marked[f.blk]
  BY <1>2 DEF Activation, ColourInv, FramesMarked
<1>4. MarkedReachable /\ NoHiddenChild /\ ScannedMarked
  BY <1>0 DEF ColourInv, Tricolour
<1>5. /\ Valid' = Valid /\ \A k : ScanWord(k)' = ScanWord(k)
      /\ Valid \subseteq Block
  BY <1>1, ReachSame DEF Valid, OnList, ListFrom, Closure
<1>w. Words(f.blk) \in Int
  <2>1. size[f.blk] \in Nat
    BY <1>0, <1>3 DEF TypeOK
  <2> QED
    BY <2>1 DEF Words, WordsIn, WordBytes, HeaderBytes
<1>6. CASE f.k <= Words(f.blk)
  <2>1. mark(w, rest)
    BY <1>6 DEF MarkStep
  <2>2. /\ rest \in Seq(Activation) /\ DOMAIN rest = DOMAIN frames
        /\ rest[n].blk = f.blk /\ rest[n].k = f.k + 1
        /\ \A m \in DOMAIN frames \ {n} : rest[m] = frames[m]
    <3>1. [f EXCEPT !.k = @ + 1] \in Activation
      BY <1>2 DEF Activation
    <3>2. [f EXCEPT !.k = @ + 1].blk = f.blk /\ [f EXCEPT !.k = @ + 1].k = f.k + 1
      BY <1>2 DEF Activation
    <3>3. rest \in Seq(Activation)
      BY <1>0, <1>2, <3>1, ExceptSeq DEF TypeOK
    <3> QED
      BY <1>2, <3>2, <3>3
  <2> HIDE DEF rest
  <2>3. w \in Valid => w \in Reach
    <3>1. f.blk \in Reach
      BY <1>3, <1>4 DEF MarkedReachable
    <3>2. f.k \in 1..Words(f.blk)
      BY <1>3, <1>6, <1>w
    <3> QED
      BY <1>0, <3>1, <3>2, ReachClosed
  <2>4. \A m \in DOMAIN rest : marked[rest[m].blk]
    BY <1>3, <2>2 DEF ColourInv, FramesMarked
  <2>5. ASSUME NEW b \in Block, marked[b], NEW k \in 1..Words(b), heap[b][k] \in Valid
        PROVE  \/ marked[heap[b][k]] \/ heap[b][k] = w
               \/ \E m \in DOMAIN rest : rest[m].blk = b /\ rest[m].k <= k
    <3>1. CASE \E m \in DOMAIN frames : frames[m].blk = b /\ frames[m].k <= k
      <4> PICK m \in DOMAIN frames : frames[m].blk = b /\ frames[m].k <= k
        BY <3>1
      <4>1. CASE m # n
        BY <2>2, <4>1
      <4>2. CASE m = n
        <5>1. f.blk = b /\ f.k <= k
          BY <4>2
        <5>2. CASE f.k = k
          BY <5>1, <5>2
        <5>3. CASE f.k # k
          <6>1. rest[n].blk = b /\ rest[n].k <= k
            BY <1>3, <2>2, <5>1, <5>3
          <6> QED
            BY <1>2, <2>2, <6>1
        <5> QED
          BY <5>2, <5>3
      <4> QED
        BY <4>1, <4>2
    <3> QED
      BY <1>4, <2>5, <3>1 DEF NoHiddenChild
  <2>6. /\ MarkedReachable' /\ NoHiddenChild'
        /\ \A m \in DOMAIN frames' : marked'[frames'[m].blk]
        /\ \A b \in Block : marked[b] => marked'[b]
    <3>1. CoveredBut(w, rest)
      BY <2>5 DEF CoveredBut
    <3> HIDE DEF w
    <3> QED
      BY <1>0, <1>1, <1>4, <2>1, <2>2, <2>3, <2>4, <3>1, MarkKeeps
  <2>7. MarkedAlive'
    BY <1>0, <1>5, <2>1, <2>2, MarkPhaseKeeps
  <2>8. ScannedMarked'
    BY <1>0, <1>1, <1>4, <1>5, <2>6 DEF ScannedMarked, SameHeap
  <2> QED
    <3>1. ScanIndex'
      BY <1>0, <1>1 DEF ColourInv, ScanIndex, SameHeap
    <3>2. FramesMarked'
      BY <1>0, <2>6 DEF FramesMarked
    <3> QED
      BY <1>0, <2>6, <2>7, <2>8, <3>1, <3>2, ColourFrom
<1>7. CASE ~(f.k <= Words(f.blk))
  <2>1. frames' = SubSeq(frames, 1, n - 1) /\ marked' = marked
    BY <1>7 DEF MarkStep
  <2>2. DOMAIN frames' = 1..(n - 1) /\ \A m \in 1..(n - 1) : frames'[m] = frames[m]
    <3>1. frames \in Seq(Activation) /\ n - 1 \in 0..Len(frames)
      BY <1>0, <1>2, ScanTypes
    <3> QED
      BY <2>1, <3>1
  <2>3. /\ Reach' = Reach /\ \A b : Words(b)' = Words(b)
    BY <1>1, ReachSame
  <2>4. MarkedReachable' /\ MarkedAlive'
    BY <1>0, <1>4, <2>1, <2>3 DEF MarkedReachable, MarkedAlive, ColourInv
  <2>5. NoHiddenChild'
    <3> SUFFICES ASSUME NEW b \in Block, marked[b], NEW k \in 1..Words(b), heap[b][k] \in Valid
                 PROVE  \/ marked[heap[b][k]]
                        \/ \E m \in DOMAIN frames' : frames'[m].blk = b /\ frames'[m].k <= k
      BY <1>1, <1>5, <2>1, <2>3 DEF NoHiddenChild, SameHeap
    <3>1. CASE \E m \in DOMAIN frames : frames[m].blk = b /\ frames[m].k <= k
      <4> PICK m \in DOMAIN frames : frames[m].blk = b /\ frames[m].k <= k
        BY <3>1
      <4>1. CASE m = n
        <5>1. f.blk = b /\ f.k <= k
          BY <4>1
        <5>2. k \in Int /\ k <= Words(f.blk)
          BY <1>w, <5>1
        <5> QED
          BY <1>3, <1>7, <1>w, <5>1, <5>2
      <4>2. CASE m # n
        <5>1. m \in 1..(n - 1)
          BY <1>2, <4>2
        <5> QED
          BY <2>2, <5>1
      <4> QED
        BY <4>1, <4>2
    <3> QED
      BY <1>4, <3>1 DEF NoHiddenChild
  <2>6. ScannedMarked'
    BY <1>0, <1>1, <1>4, <1>5, <2>1 DEF ScannedMarked, SameHeap
  <2>7. FramesMarked'
    BY <1>0, <1>2, <2>1, <2>2 DEF ColourInv, FramesMarked
  <2> QED
    <3>1. ScanIndex'
      BY <1>0, <1>1 DEF ColourInv, ScanIndex, SameHeap
    <3> QED
      BY <1>0, <2>4, <2>5, <2>6, <2>7, <3>1, ColourFrom
<1> QED
  BY <1>6, <1>7

\* A scan step marks one root word, with no activation of mark pending.
LEMMA ScanKeeps ==
  ASSUME ColourInv, frames = << >>, pc \in {"stack", "roots"}, UNCHANGED alive, SameHeap,
         NEW w \in RootWords, mark(w, << >>), ListInv'
  PROVE  /\ MarkedReachable' /\ NoHiddenChild' /\ MarkedAlive'
         /\ \A n \in DOMAIN frames' : marked'[frames'[n].blk]
         /\ \A b \in Block : marked[b] => marked'[b]
         /\ w \in Valid => marked'[w]
<1>0. << >> \in Seq(Activation) /\ DOMAIN << >> = {}
  OBVIOUS
<1>1. TypeOK /\ MarkedReachable /\ NoHiddenChild
  BY DEF ColourInv, ListInv, Tricolour
<1>2. w \in Valid => w \in Reach
  BY <1>1, ReachClosed
<1>3. \A b \in Block : marked[b] =>
        \A k \in 1..Words(b) : heap[b][k] \in Valid => marked[heap[b][k]]
  BY <1>0, <1>1 DEF NoHiddenChild
<1>4. Valid \subseteq Block
  BY DEF Valid, OnList, ListFrom, Closure
<1>5. MarkedAlive'
  BY <1>0, <1>4, MarkPhaseKeeps
<1>6. CoveredBut(w, << >>)
  BY <1>3 DEF CoveredBut
<1> QED
  BY <1>0, <1>1, <1>2, <1>5, <1>6, MarkKeeps

\* Scanning one word of the stack keeps the colours.
LEMMA ScanStackKeeps ==
  ASSUME ColourInv, ListInv', ScanStack
  PROVE  ColourInv'
<1>0. /\ TypeOK /\ TypeOK' /\ pc = "stack" /\ frames = << >> /\ alive' = alive
      /\ SameHeap
  BY DEF ScanStack, ColourInv, ListInv, progVars, cfgVars, SameHeap
<1>1. MarkedReachable /\ NoHiddenChild /\ ScannedMarked
  BY <1>0 DEF ColourInv, Tricolour
<1>2. /\ Valid' = Valid /\ Reach' = Reach
      /\ \A b : Words(b)' = Words(b)
      /\ \A k : ScanWord(k)' = ScanWord(k)
  BY <1>0, ReachSame
<1>t. i \in Nat /\ sp + Slack \in Nat
  BY <1>0, ScanTypes
<1>v. Valid \subseteq Block
  BY DEF Valid, OnList, ListFrom, Closure
<1>3. CASE i > 0
  <2>1. mark(ScanWord(i), << >>) /\ i' = i - 1 /\ pc' = "stack"
    BY <1>0, <1>3 DEF ScanStack
  <2>2. ScanWord(i) \in RootWords
    BY <1>0, <1>3, <1>t DEF RootWords, ColourInv, ScanIndex
  <2>3. /\ MarkedReachable' /\ NoHiddenChild' /\ MarkedAlive'
        /\ \A n \in DOMAIN frames' : marked'[frames'[n].blk]
        /\ \A b \in Block : marked[b] => marked'[b]
        /\ ScanWord(i) \in Valid => marked'[ScanWord(i)]
    BY <1>0, <2>1, <2>2, ScanKeeps
  <2>4. ScannedMarked'
    <3> SUFFICES ASSUME NEW k \in 1..(sp + Slack), k > i - 1, ScanWord(k) \in Valid
                 PROVE  marked'[ScanWord(k)]
      BY <1>0, <1>2, <2>1 DEF ScannedMarked, SameHeap
    <3>1. CASE k = i
      BY <2>3, <3>1
    <3>2. CASE k > i
      BY <1>0, <1>1, <1>v, <2>3, <3>2 DEF ScannedMarked
    <3> QED
      BY <1>t, <3>1, <3>2
  <2>5. ScanIndex'
    BY <1>0, <1>t, <2>1 DEF ScanIndex, ColourInv, SameHeap
  <2> QED
    <3>1. FramesMarked'
      BY <2>1, <2>3 DEF FramesMarked
    <3> QED
      BY <2>1, <2>3, <2>4, <2>5, <3>1, ColourFrom
<1>4. CASE ~(i > 0)
  <2>1. pc' = "roots" /\ i' = 1 /\ marked' = marked /\ frames' = frames
    BY <1>4 DEF ScanStack
  <2>2. MarkedReachable' /\ NoHiddenChild' /\ MarkedAlive' /\ FramesMarked'
    <3>1. MarkedReachable'
      BY <1>1, <1>2, <2>1 DEF MarkedReachable
    <3>2. NoHiddenChild'
      BY <1>0, <1>1, <1>2, <2>1 DEF NoHiddenChild, SameHeap
    <3>3. MarkedAlive' /\ FramesMarked'
      BY <1>0, <2>1 DEF MarkedAlive, FramesMarked, ColourInv
    <3> QED
      BY <3>1, <3>2, <3>3
  <2>3. ScannedMarked'
    <3>1. \A k \in 1..(sp + Slack) : ScanWord(k) \in Valid => marked[ScanWord(k)]
      BY <1>0, <1>1, <1>4, <1>t DEF ScannedMarked
    <3>2. sp' = sp /\ roots' = roots /\ globals' = globals
      BY <1>0 DEF SameHeap
    <3> QED
      BY <1>2, <1>t, <2>1, <3>1, <3>2 DEF ScannedMarked
  <2> QED
    <3>1. ScanIndex'
      BY <2>1 DEF ScanIndex
    <3> QED
      BY <2>1, <2>2, <2>3, <3>1, ColourFrom
<1> QED
  BY <1>3, <1>4

\* Scanning one root keeps the colours, and after the last one the marks are exact.
LEMMA ScanRootsKeeps ==
  ASSUME ColourInv, ListInv', ScanRoots
  PROVE  ColourInv'
<1>0. /\ TypeOK /\ TypeOK' /\ pc = "roots" /\ frames = << >> /\ alive' = alive
      /\ SameHeap
  BY DEF ScanRoots, ColourInv, ListInv, progVars, cfgVars, SameHeap
<1>1. MarkedReachable /\ NoHiddenChild /\ ScannedMarked
  BY <1>0 DEF ColourInv, Tricolour
<1>2. /\ Valid' = Valid /\ Reach' = Reach
      /\ \A b : Words(b)' = Words(b)
      /\ \A k : ScanWord(k)' = ScanWord(k)
  BY <1>0, ReachSame
<1>t. i \in Nat /\ Len(roots) \in Nat
  BY <1>0, ScanTypes
<1>v. Valid \subseteq Block
  BY DEF Valid, OnList, ListFrom, Closure
<1>3. CASE i <= Len(roots)
  <2>1. mark(globals[roots[i]], << >>) /\ i' = i + 1 /\ pc' = "roots"
    BY <1>0, <1>3 DEF ScanRoots
  <2>2. CASE i # 0
    <3>1. globals[roots[i]] \in RootWords
      <4>1. roots[i] \in Range(roots)
        <5>1. i \in DOMAIN roots
          BY <1>0, <1>3, <1>t, <2>2, ScanTypes
        <5> QED
          BY <5>1 DEF Range
      <4> QED
        BY <4>1 DEF RootWords
    <3>2. /\ MarkedReachable' /\ NoHiddenChild' /\ MarkedAlive'
          /\ \A n \in DOMAIN frames' : marked'[frames'[n].blk]
          /\ \A b \in Block : marked[b] => marked'[b]
          /\ globals[roots[i]] \in Valid => marked'[globals[roots[i]]]
      BY <1>0, <2>1, <3>1, ScanKeeps
    <3>3. ScannedMarked'
      <4>1. ASSUME NEW k \in 1..(sp + Slack), ScanWord(k) \in Valid
            PROVE  marked'[ScanWord(k)]
        BY <1>0, <1>1, <1>v, <3>2, <4>1 DEF ScannedMarked
      <4>2. ASSUME NEW j \in 1..Len(roots), j < i + 1, globals[roots[j]] \in Valid
            PROVE  marked'[globals[roots[j]]]
        <5>1. CASE j = i
          BY <3>2, <4>2, <5>1
        <5>2. CASE j < i
          BY <1>0, <1>1, <1>v, <3>2, <4>2, <5>2 DEF ScannedMarked
        <5> QED
          BY <1>t, <4>2, <5>1, <5>2
      <4> QED
        BY <1>0, <1>2, <2>1, <4>1, <4>2 DEF ScannedMarked, SameHeap
    <3> QED
      <4>1. ScanIndex'
        BY <1>t, <2>1 DEF ScanIndex
      <4> QED
        <5>1. FramesMarked'
          BY <2>1, <3>2 DEF FramesMarked
        <5> QED
          BY <2>1, <3>2, <3>3, <4>1, <5>1, ColourFrom
  <2> QED
    BY <1>0, <2>2 DEF ColourInv, ScanIndex
<1>4. CASE ~(i <= Len(roots))
  <2>1. pc' = "sweep" /\ current' = allocation_list /\ marked' = marked /\ frames' = frames
    BY <1>4 DEF ScanRoots
  <2>2. MarkedReachable' /\ NoHiddenChild' /\ MarkedAlive' /\ FramesMarked'
    <3>1. MarkedReachable'
      BY <1>1, <1>2, <2>1 DEF MarkedReachable
    <3>2. NoHiddenChild'
      BY <1>0, <1>1, <1>2, <2>1 DEF NoHiddenChild, SameHeap
    <3>3. MarkedAlive' /\ FramesMarked'
      BY <1>0, <2>1 DEF MarkedAlive, FramesMarked, ColourInv
    <3> QED
      BY <3>1, <3>2, <3>3
  <2>3. ScannedMarked'
    <3>1. /\ \A k \in 1..(sp + Slack) : ScanWord(k) \in Valid => marked[ScanWord(k)]
          /\ \A j \in 1..Len(roots) : globals[roots[j]] \in Valid => marked[globals[roots[j]]]
      BY <1>0, <1>1, <1>4, <1>t DEF ScannedMarked
    <3>2. sp' = sp /\ roots' = roots /\ globals' = globals
      BY <1>0 DEF SameHeap
    <3> QED
      BY <1>2, <2>1, <3>1, <3>2 DEF ScannedMarked
  <2>4. alive' = Walk(next', current')
    BY <1>0, <2>1, ListIntactIs DEF ColourInv, ListInv, Chained, listVars, SameHeap
  <2> QED
    <3>1. ScanIndex' /\ Tricolour'
      BY <2>1, <2>2, <2>3 DEF ScanIndex, Tricolour
    <3>2. SweepCovers'
      BY <2>1, <2>4 DEF SweepCovers
    <3> QED
      BY <2>2, <3>1, <3>2 DEF ColourInv
<1> QED
  BY <1>3, <1>4

\* When no activation is pending and everything is scanned, the marked blocks are
\* exactly the reachable ones.
LEMMA SweepExact ==
  ASSUME ColourInv, pc = "sweep"
  PROVE  {b \in Block : marked[b]} = Reach
<1> DEFINE M == {b \in Block : marked[b]}
<1>1. TypeOK /\ MarkedReachable /\ NoHiddenChild /\ ScannedMarked /\ DOMAIN frames = {}
  BY DEF ColourInv, ListInv, Tricolour, FramesMarked
<1>v. Valid \subseteq Block
  BY DEF Valid, OnList, ListFrom, Closure
<1>2. RootWords \cap Valid \subseteq M
  <2>1. \A k \in 1..(sp + Slack) : ScanWord(k) \in Valid => ScanWord(k) \in M
    BY <1>1, <1>v DEF ScannedMarked
  <2>2. \A g \in Range(roots) : globals[g] \in Valid => globals[g] \in M
    <3>1. \A j \in 1..Len(roots) : globals[roots[j]] \in Valid => globals[roots[j]] \in M
      BY <1>1, <1>v DEF ScannedMarked
    <3>2. DOMAIN roots = 1..Len(roots)
      BY <1>1, ScanTypes
    <3> QED
      BY <3>1, <3>2 DEF Range
  <2> QED
    BY <2>1, <2>2 DEF RootWords
<1>3. \A x \in M : Points[x] \subseteq M
  BY <1>1, <1>v DEF NoHiddenChild, Points
<1>4. M \in SUBSET Block
  OBVIOUS
<1>5. Reach \subseteq M
  <2> HIDE DEF M
  <2> QED
    BY <1>2, <1>3, <1>4, ClosureLeast DEF Reach
<1>6. M \subseteq Reach
  BY <1>1 DEF MarkedReachable
<1> QED
  BY <1>5, <1>6

\* Freeing or unmarking the block under the cursor keeps the colours.
LEMMA SweepStepKeeps ==
  ASSUME ColourInv, ListInv', SweepStep
  PROVE  ColourInv'
<1> DEFINE c == current
           M == {b \in Block : marked[b]}
<1>0. /\ TypeOK /\ TypeOK' /\ pc = "sweep" /\ pc' = "sweep" /\ c \in alive /\ c \in Block
      /\ current' = next[c] /\ frames = << >> /\ frames' = frames /\ DOMAIN frames = {}
      /\ UNCHANGED <<size, stack, sp, stale, globals, roots>>
  <2>1. TypeOK /\ TypeOK' /\ pc = "sweep" /\ frames = << >> /\ c \in alive
    BY DEF SweepStep, ColourInv, ListInv, FramesMarked, CursorAlive
  <2>2. /\ pc' = "sweep" /\ current' = next[c] /\ frames' = frames
        /\ UNCHANGED <<size, stack, sp, stale, globals, roots>>
    BY <2>1 DEF SweepStep, cfgVars
  <2>3. c \in Block
    BY <2>1 DEF TypeOK
  <2> QED
    BY <2>1, <2>2, <2>3
<1>1. MarkedReachable /\ NoHiddenChild /\ ScannedMarked
  BY <1>0 DEF ColourInv, Tricolour
<1>v. Valid \subseteq Block
  BY DEF Valid, OnList, ListFrom, Closure
<1>n. next \in [Block -> Word] /\ next[c] \in Word /\ c \in Word
  BY <1>0 DEF TypeOK, Word
<1>2. CASE marked[c]
  <2>1. UNCHANGED <<listVars, alive, heap, marked>>
    BY <1>2 DEF SweepStep
  <2>2. /\ Valid' = Valid /\ Reach' = Reach
        /\ \A b : Words(b)' = Words(b)
        /\ \A k : ScanWord(k)' = ScanWord(k)
    BY <1>0, <2>1, ReachSame DEF SameHeap
  <2>3. MarkedReachable' /\ NoHiddenChild' /\ ScannedMarked' /\ MarkedAlive'
    BY <1>0, <1>1, <2>1, <2>2
    DEF MarkedReachable, NoHiddenChild, ScannedMarked, MarkedAlive, ColourInv
  <2>4. Walk(next, c) \subseteq Walk(next, next[c]) \cup {c}
    <3> DEFINE S == Walk(next, next[c]) \cup {c}
    <3>1. /\ Walk(next, next[c]) \subseteq Block
          /\ next[c] # Null => next[c] \in Walk(next, next[c])
          /\ \A x \in Walk(next, next[c]) : next[x] # Null => next[x] \in Walk(next, next[c])
      BY <1>n, WalkClosed
    <3>2. S \in SUBSET Block /\ c \in S /\ \A x \in S : next[x] # Null => next[x] \in S
      BY <1>0, <3>1
    <3> HIDE DEF S
    <3>3. Walk(next, c) \subseteq S
      BY <1>n, <3>2, WalkLeast
    <3> QED
      BY <3>3 DEF S
  <2>5. SweepCovers'
    BY <1>0, <1>2, <2>1, <2>4 DEF SweepCovers, ColourInv, listVars
  <2> QED
    BY <1>0, <2>1, <2>3, <2>5 DEF ColourInv, ScanIndex, FramesMarked, Tricolour
<1>3. CASE ~marked[c]
  <2>1. unlink_and_free(c)
    BY <1>3 DEF SweepStep
  <2>2. /\ alive' = alive \ {c} /\ marked' = [marked EXCEPT ![c] = FALSE]
        /\ \A b \in Block \ {c} : heap'[b] = heap[b] /\ marked'[b] = marked[b]
        /\ ~marked'[c]
    BY <1>0, <2>1 DEF unlink_and_free, free, TypeOK
  <2>3. \A b \in Block : marked'[b] <=> marked[b]
    BY <1>3, <2>2
  <2>4. Valid' = Valid \ {c}
    <3>1. OnList = alive /\ OnList' = alive'
      BY DEF ColourInv, ListInv, ListIntact
    <3> QED
      BY <1>0, <2>2, <3>1 DEF Valid
  <2>5. /\ RootWords' = RootWords
        /\ \A k : ScanWord(k)' = ScanWord(k)
        /\ \A b : Words(b)' = Words(b)
    BY <1>0 DEF RootWords, ScanWord, Words
  <2>6. M = Reach
    BY <1>0, SweepExact
  <2>7. Reach \subseteq Reach'
    <3> DEFINE S == Reach' \cap M
    <3>0. S \in SUBSET Block
      OBVIOUS
    <3>1. /\ RootWords \cap Valid' \subseteq Reach'
          /\ \A x \in Reach' : \A k \in 1..Words(x) : heap'[x][k] \in Valid' => heap'[x][k] \in Reach'
      BY <1>0, <2>5, ReachClosedPrimed
    <3>2. RootWords \cap Valid \subseteq M
      BY <1>0, <2>6, ReachClosed
    <3>3. RootWords \cap Valid \subseteq S
      BY <1>3, <2>4, <3>1, <3>2
    <3>4. ASSUME NEW x \in S
          PROVE  Points[x] \subseteq S
      <4>1. x \in Block /\ marked[x] /\ x # c /\ x \in Reach' /\ heap'[x] = heap[x]
        BY <1>3, <2>2
      <4>2. ASSUME NEW k \in 1..Words(x), heap[x][k] \in Valid
            PROVE  heap[x][k] \in S
        <5>1. marked[heap[x][k]] /\ heap[x][k] \in Block
          BY <1>0, <1>1, <1>v, <4>1, <4>2 DEF NoHiddenChild
        <5>2. heap'[x][k] \in Valid'
          BY <1>3, <2>4, <4>1, <4>2, <5>1
        <5> QED
          BY <3>1, <4>1, <5>1, <5>2
      <4> QED
        BY <4>1, <4>2 DEF Points
    <3> HIDE DEF S
    <3>5. Reach \subseteq S
      BY <3>0, <3>3, <3>4, ClosureLeast DEF Reach
    <3> QED
      BY <3>5 DEF S
  <2>8. MarkedReachable'
    BY <1>1, <2>3, <2>7 DEF MarkedReachable
  <2>9. NoHiddenChild'
    <3> SUFFICES ASSUME NEW b \in Block, marked'[b], NEW k \in 1..Words(b), heap'[b][k] \in Valid'
                 PROVE  marked'[heap'[b][k]]
      BY <2>5 DEF NoHiddenChild
    <3>1. marked[b] /\ heap'[b] = heap[b] /\ heap[b][k] \in Valid
      BY <2>2, <2>3, <2>4
    <3> QED
      BY <1>0, <1>1, <1>v, <2>3, <3>1 DEF NoHiddenChild
  <2>10. ScannedMarked'
    <3>1. Valid' \subseteq Valid
      BY <2>4
    <3> QED
      BY <1>0, <1>1, <1>v, <2>3, <2>5, <3>1 DEF ScannedMarked
  <2>11. SweepCovers'
    <3>1. Walk(next, c) \ {c} \subseteq Walk(next', next[c])
      BY <1>0, <2>1, ListUnlinked DEF ColourInv, ListInv
    <3> QED
      BY <1>0, <2>2, <2>3, <3>1 DEF SweepCovers, ColourInv, ListInv, TypeOK
  <2>12. MarkedAlive'
    BY <2>2, <2>3 DEF MarkedAlive, ColourInv
  <2> QED
    BY <1>0, <2>8, <2>9, <2>10, <2>11, <2>12 DEF ColourInv, ScanIndex, FramesMarked, Tricolour
<1> QED
  BY <1>2, <1>3

\* Every step keeps the colours.
LEMMA ColourNext == ColourInv /\ [Next]_vars => ColourInv'
<1> SUFFICES ASSUME ColourInv, [Next]_vars
             PROVE  ColourInv'
  OBVIOUS
<1>0. ListInv' /\ TypeOK /\ MarkedAlive /\ OnList = alive
  BY ListNext DEF ColourInv, ListInv, ListIntact
<1>f. pc \notin {"stack", "roots"} => frames = << >>
  BY DEF ColourInv, FramesMarked
\* Outside collections only the marks of live blocks matter.
<1>s. ASSUME UNCHANGED <<marked, alive, frames>>, pc \notin {"stack", "roots"},
             pc' \notin {"stack", "roots", "sweep"}
      PROVE  ColourInv'
  <2>1. frames' = << >> /\ DOMAIN frames' = {}
    BY <1>f, <1>s
  <2>2. MarkedAlive'
    BY <1>0, <1>s DEF MarkedAlive
  <2> QED
    BY <1>0, <1>s, <2>1, <2>2 DEF ColourInv, ScanIndex, FramesMarked, Tricolour, SweepCovers
<1>b. ASSUME NEW b \in Block, free(b), UNCHANGED frames, pc \notin {"stack", "roots"},
             pc' \notin {"stack", "roots", "sweep"}
      PROVE  ColourInv'
  <2>1. frames' = << >> /\ DOMAIN frames' = {}
    BY <1>f, <1>b
  <2>2. MarkedAlive'
    BY <1>0, <1>b DEF MarkedAlive, free, TypeOK
  <2> QED
    BY <1>0, <1>b, <2>1, <2>2 DEF ColourInv, ScanIndex, FramesMarked, Tricolour, SweepCovers
<1>1. ASSUME NEW g, ms_register_root(g), pc \in {"boot", "app"}
      PROVE  ColourInv'
  BY <1>1, <1>s DEF ms_register_root, hdrVars, gcVars
<1>2. CASE EnterMain
  BY <1>2, <1>s DEF EnterMain, hdrVars, gcVars
<1>3. CASE EnterScope \/ LeaveScope
  BY <1>3, <1>s DEF EnterScope, LeaveScope, hdrVars, gcVars
<1>4. ASSUME NEW w, NEW k, StoreLocal(k, w)
      PROVE  ColourInv'
  BY <1>4, <1>s DEF StoreLocal, hdrVars, gcVars
<1>5. ASSUME NEW w, NEW g, StoreGlobal(g, w)
      PROVE  ColourInv'
  BY <1>5, <1>s DEF StoreGlobal, hdrVars, gcVars
<1>6. ASSUME NEW w, NEW b, NEW k, StoreField(b, k, w)
      PROVE  ColourInv'
  BY <1>6, <1>s DEF StoreField, hdrVars, gcVars
<1>7. ASSUME NEW t, ms_set_gc_threshold(t)
      PROVE  ColourInv'
  BY <1>7, <1>s DEF ms_set_gc_threshold, hdrVars, gcVars
<1>8. CASE Alloc
  <2>0. pc = "app" /\ sp' = sp
    BY <1>8 DEF Alloc
  <2>1. ASSUME NEW d, OutOfMemory(d)
        PROVE  ColourInv'
    BY <2>0, <2>1, <1>s DEF OutOfMemory, hdrVars, gcVars
  <2>2. ASSUME NEW d, NEW bytes, NEW b \in Block \ alive, NEW junk, ms_alloc(bytes, d, b, junk)
        PROVE  ColourInv'
    <3>1. alive' = alive \cup {b}
      BY <2>2 DEF ms_alloc
    <3>2. CASE current_bytes + (HeaderBytes + bytes) > GC_THRESHOLD
      <4>1. collect_garbage("alloc", OnList \cup {b})
        BY <2>2, <3>2 DEF ms_alloc
      <4> QED
        BY <1>0, <2>0, <3>1, <4>1, CollectKeeps
    <3>3. CASE ~(current_bytes + (HeaderBytes + bytes) > GC_THRESHOLD)
      <4>1. marked' = [marked EXCEPT ![b] = FALSE] /\ UNCHANGED <<pc, gcVars>>
        BY <2>2, <3>3 DEF ms_alloc
      <4>2. MarkedAlive'
        BY <1>0, <3>1, <4>1 DEF MarkedAlive, TypeOK
      <4>3. frames' = << >> /\ DOMAIN frames' = {} /\ pc' = "app"
        BY <1>f, <2>0, <4>1 DEF gcVars
      <4> QED
        BY <1>0, <4>2, <4>3 DEF ColourInv, ScanIndex, FramesMarked, Tricolour, SweepCovers
    <3> QED
      BY <3>2, <3>3
  <2> QED
    BY <1>8, <2>1, <2>2 DEF Alloc
<1>9. ASSUME NEW b \in Block, ms_dealloc(b)
      PROVE  ColourInv'
  BY <1>9, <1>b DEF ms_dealloc, unlink_and_free, gcVars
<1>10. CASE ms_gc \/ ms_shutdown
  <2>1. PICK who : collect_garbage(who, OnList)
    BY <1>10 DEF ms_gc, ms_shutdown
  <2>2. pc = "app" /\ sp' = sp /\ alive' = alive
    BY <1>10 DEF ms_gc, ms_shutdown, progVars
  <2> QED
    BY <1>0, <2>1, <2>2, CollectKeeps
<1>11. CASE SweepDone
  BY <1>11, <1>s DEF SweepDone, hdrVars
<1>12. CASE DrainStep
  <2>1. CASE allocation_list # Null
    <3>1. allocation_list \in Block
      BY <1>0, <2>1 DEF TypeOK, Word
    <3> QED
      BY <1>12, <1>b, <2>1, <3>1 DEF DrainStep, gcVars
  <2>2. CASE ~(allocation_list # Null)
    BY <1>12, <1>s, <2>2 DEF DrainStep, gcVars
  <2> QED
    BY <2>1, <2>2
<1>13. CASE UNCHANGED vars
  <2>1. /\ UNCHANGED <<listVars, size, heap, stack, sp, stale, globals, roots>>
        /\ UNCHANGED <<marked, alive, frames, pc, i, current>>
    BY <1>13 DEF vars, hdrVars, cfgVars, progVars, gcVars
  <2>2. /\ Valid' = Valid /\ Reach' = Reach
        /\ \A b : Words(b)' = Words(b)
        /\ \A k : ScanWord(k)' = ScanWord(k)
    BY <2>1, ReachSame DEF SameHeap
  <2>3. Tricolour'
    BY <2>1, <2>2 DEF Tricolour, MarkedReachable, NoHiddenChild, ScannedMarked, ColourInv
  <2>4. ScanIndex' /\ FramesMarked' /\ MarkedAlive' /\ SweepCovers'
    BY <2>1 DEF ColourInv, ScanIndex, FramesMarked, MarkedAlive, SweepCovers, listVars
  <2> QED
    BY <1>0, <2>3, <2>4 DEF ColourInv
<1>14. CASE MarkStep \/ ScanStack \/ ScanRoots \/ SweepStep
  BY <1>0, <1>14, MarkStepKeeps, ScanStackKeeps, ScanRootsKeeps, SweepStepKeeps
<1> QED
  BY <1>1, <1>2, <1>3, <1>4, <1>5, <1>6, <1>7, <1>8, <1>9, <1>10, <1>11, <1>12, <1>13, <1>14
  DEF Next, RegisterGlobals, Mutator, RuntimeCall, Collector, Terminated

\* Between any two steps of the collector the marking is sound and complete up to
\* the pending activations of mark.
THEOREM MarkingInvariant == Spec => []Tricolour
<1>1. ColourInv /\ [Next]_vars => ColourInv'
  BY ColourNext
<1>2. ColourInv => Tricolour
  BY DEF ColourInv
<1> QED
  BY <1>1, <1>2, ColourInit, PTL DEF Spec

\* When the sweep runs, the marks are exactly the reachable blocks: for any heap,
\* any stack contents and any registered roots.
THEOREM MarkCorrect == Spec => []MarkExact
<1>1. ColourInv => MarkExact
  BY SweepExact DEF MarkExact, ColourInv, MarkedAlive, ListInv, TypeOK
<1>2. ColourInv /\ [Next]_vars => ColourInv'
  BY ColourNext
<1> QED
  BY <1>1, <1>2, ColourInit, PTL DEF Spec

\* A collection leaves the reachable blocks and only those.
THEOREM CollectionCorrect == Spec => []CollectionComplete
<1>1. ColourInv => CollectionComplete
  <2> SUFFICES ASSUME ColourInv, pc = "sweep", current = Null
               PROVE  alive = Reach
    BY DEF CollectionComplete
  <2>1. Walk(next, Null) \subseteq {}
    <3>1. {} \in SUBSET Block /\ Null \in Word /\ next \in [Block -> Word]
      BY DEF ColourInv, ListInv, TypeOK, Word
    <3> QED
      BY <3>1, WalkLeast
  <2>2. \A b \in alive : marked[b]
    BY <2>1 DEF ColourInv, SweepCovers
  <2> QED
    BY <2>2, SweepExact DEF ColourInv, MarkedAlive, ListInv, TypeOK
<1>2. ColourInv /\ [Next]_vars => ColourInv'
  BY ColourNext
<1> QED
  BY <1>1, <1>2, ColourInit, PTL DEF Spec

=============================================================================
