--------------------------- MODULE RefCountProofs ---------------------------
(***************************************************************************)
(* Theorems about the allocator of RefCount for every program, the ones    *)
(* that the visitor miscounts included: the recursion of dec_ref_count     *)
(* visits a block once, no live block is left without a count, and the     *)
(* statistics are exact.                                                   *)
(***************************************************************************)
EXTENDS RefCount, FiniteSetTheorems, TLAPS

USE DEF HasRoom, FreedBytes

Activation == [blk : Block, i : Int]

\* What the proofs need to know of the types.
AllocTypes ==
  /\ alive \subseteq Block /\ IsFiniteSet(alive)
  /\ count \in [Block -> Int]
  /\ calls \in Seq(Activation)
  /\ {current_bytes, peak_bytes, total_allocations, total_collections} \subseteq Int

AllocInv == AllocTypes /\ CascadeOnce /\ StatsExact

\* Elements of a sequence over S are in S.
LEMMA SeqFacts ==
  ASSUME NEW S, NEW s \in Seq(S)
  PROVE  /\ DOMAIN s = 1..Len(s) /\ Len(s) \in Nat
         /\ \A n \in DOMAIN s : s[n] \in S
OBVIOUS

\* The elements of a sequence with one more at its end.
LEMMA AppendFacts ==
  ASSUME NEW S, NEW s \in Seq(S), NEW e \in S
  PROVE  /\ Append(s, e) \in Seq(S)
         /\ DOMAIN Append(s, e) = (DOMAIN s) \cup {Len(s) + 1}
         /\ Append(s, e)[Len(s) + 1] = e
         /\ \A n \in DOMAIN s : Append(s, e)[n] = s[n]
OBVIOUS

\* A function of counts with one of them cleared.
LEMMA ExceptType ==
  ASSUME NEW S, NEW f \in [S -> Int], NEW x \in S
  PROVE  [f EXCEPT ![x] = 0] \in [S -> Int]
OBVIOUS

\* A call of dec_ref_count for a live block, or for NULL, below activations that are
\* in order.
LEMMA DecKeeps ==
  ASSUME AllocTypes, CascadeOnce, NEW w \in alive \cup {Null}, NEW rest \in Seq(Activation),
         DOMAIN rest = DOMAIN calls,
         \A n \in DOMAIN calls : rest[n].blk = calls[n].blk,
         dec_ref_count(w, rest), alive' = alive,
         UNCHANGED stats
  PROVE  AllocTypes' /\ CascadeOnce'
<1>t. alive \subseteq Block /\ count \in [Block -> Int] /\ Null \notin Block
  BY ConstantsOK DEF AllocTypes
<1>s. UNCHANGED <<current_bytes, peak_bytes, total_allocations, total_collections>>
  BY DEF stats
<1>1. CASE w = Null
  <2>1. count' = count /\ calls' = rest
    BY <1>1 DEF dec_ref_count
  <2>2. AllocTypes'
    BY <1>s, <2>1 DEF AllocTypes
  <2>3. CascadeOnce'
    BY <2>1 DEF CascadeOnce
  <2> QED
    BY <2>2, <2>3
<1>2. CASE w \in alive /\ count[w] # 1
  <2>1. w # Null /\ count' = [count EXCEPT ![w] = count[w] - 1] /\ calls' = rest
    BY <1>t, <1>2 DEF dec_ref_count
  <2>2. \A b \in alive : count[b] <= 0 <=> count'[b] <= 0
    BY <1>t, <1>2, <2>1
  <2>3. \A n \in DOMAIN calls' : calls'[n].blk = calls[n].blk
    BY <2>1
  <2>4. AllocTypes'
    BY <1>s, <1>t, <1>2, <2>1 DEF AllocTypes
  <2> QED
    BY <2>1, <2>2, <2>3, <2>4 DEF CascadeOnce
<1>3. CASE w \in alive /\ count[w] = 1
  <2> DEFINE e == [blk |-> w, i |-> 1]
  <2>1. w # Null /\ count' = [count EXCEPT ![w] = 0] /\ calls' = Append(rest, e)
    BY <1>t, <1>3 DEF dec_ref_count
  <2>2. e \in Activation /\ e.blk = w
    BY <1>t, <1>3 DEF Activation
  <2> HIDE DEF e
  <2>3. /\ calls' \in Seq(Activation)
        /\ DOMAIN calls' = (DOMAIN calls) \cup {Len(rest) + 1}
        /\ calls'[Len(rest) + 1].blk = w
        /\ \A n \in DOMAIN calls : calls'[n].blk = calls[n].blk
    BY <2>1, <2>2, AppendFacts
  <2>4. AllocTypes'
    BY <1>s, <1>t, <1>3, <2>1, <2>3 DEF AllocTypes
  <2>5. /\ count'[w] = 0 /\ \A b \in alive \ {w} : count'[b] = count[b]
        /\ \A n \in DOMAIN calls : calls[n].blk # w
    BY <1>t, <1>3, <2>1 DEF CascadeOnce
  <2>6. \A m, n \in DOMAIN calls' : calls'[m].blk = calls'[n].blk => m = n
    BY <2>3, <2>5 DEF CascadeOnce
  <2>7. \A n \in DOMAIN calls' : calls'[n].blk \in alive' /\ count'[calls'[n].blk] <= 0
    BY <1>3, <2>3, <2>5 DEF CascadeOnce
  <2>8. \A b \in alive' : count'[b] <= 0 => \E n \in DOMAIN calls' : calls'[n].blk = b
    BY <2>3, <2>5 DEF CascadeOnce
  <2> QED
    BY <2>4, <2>6, <2>7, <2>8 DEF CascadeOnce
<1> QED
  BY <1>1, <1>2, <1>3

\* The statistics are exact as long as nothing is allocated or freed.
LEMMA StatsKept ==
  ASSUME StatsExact, UNCHANGED <<alive, stats>>
  PROVE  StatsExact'
BY DEF StatsExact, stats

\* One block more or less.
LEMMA Times ==
  ASSUME NEW c \in Int, NEW K \in Int
  PROVE  (c + 1) * K = c * K + K /\ (c - 1) * K = c * K - K
OBVIOUS

\* rc_alloc gives the new block a count of one and counts its bytes.
LEMMA AllocKeeps ==
  ASSUME AllocInv, calls = << >>, UNCHANGED calls, NEW b \in Block \ alive, rc_alloc(b)
  PROVE  AllocInv'
<1>t. /\ alive \subseteq Block /\ IsFiniteSet(alive) /\ count \in [Block -> Int]
      /\ {current_bytes, peak_bytes, total_allocations, total_collections} \subseteq Int
      /\ HeaderBytes + Bytes \in Nat
  BY ConstantsOK DEF AllocInv, AllocTypes, HeaderBytes
<1>1. /\ alive' = alive \cup {b} /\ count' = [count EXCEPT ![b] = 1]
      /\ total_allocations' = total_allocations + 1 /\ total_collections' = total_collections
      /\ current_bytes' = current_bytes + (HeaderBytes + Bytes)
      /\ peak_bytes' = IF current_bytes' > peak_bytes THEN current_bytes' ELSE peak_bytes
  <2>1. current_bytes + HeaderBytes + Bytes = current_bytes + (HeaderBytes + Bytes)
    BY <1>t, ConstantsOK DEF HeaderBytes
  <2> QED
    BY <2>1 DEF rc_alloc
<1>2. IsFiniteSet(alive') /\ Cardinality(alive') = Cardinality(alive) + 1 /\ Cardinality(alive) \in Nat
  BY <1>t, <1>1, FS_AddElement, FS_CardinalityType
<1>3. AllocTypes'
  BY <1>t, <1>1, <1>2 DEF AllocInv, AllocTypes
<1>4. DOMAIN calls = {} /\ DOMAIN calls' = {}
  OBVIOUS
<1>5. CascadeOnce'
  <2>1. \A x \in alive' : count'[x] > 0
    BY <1>t, <1>1, <1>4 DEF AllocInv, CascadeOnce
  <2>2. \A x \in alive' : count'[x] \in Int
    BY <1>3 DEF AllocTypes
  <2> QED
    BY <1>4, <2>1, <2>2 DEF CascadeOnce
<1>6. StatsExact'
  <2>1. Cardinality(alive') * (HeaderBytes + Bytes)
          = Cardinality(alive) * (HeaderBytes + Bytes) + (HeaderBytes + Bytes)
    BY <1>t, <1>2, Times
  <2> DEFINE K == HeaderBytes + Bytes
             p == Cardinality(alive) * K
  <2>2. current_bytes = p /\ Cardinality(alive') * K = p + K
    BY <2>1 DEF AllocInv, StatsExact
  <2> HIDE DEF K, p
  <2>3. current_bytes' = Cardinality(alive') * K
    BY <1>1, <2>2 DEF K
  <2>4. total_allocations' = total_collections' + Cardinality(alive')
    BY <1>t, <1>1, <1>2 DEF AllocInv, StatsExact
  <2>5. current_bytes' <= peak_bytes'
    BY <1>1, <1>3 DEF AllocTypes
  <2> QED
    BY <2>3, <2>4, <2>5 DEF StatsExact, K
<1> QED
  BY <1>3, <1>5, <1>6 DEF AllocInv

\* The end of dec_ref_count's loop frees the block of the innermost activation only.
LEMMA FreeKeeps ==
  ASSUME AllocInv, calls # << >>, NEW b, b = calls[Len(calls)].blk,
         calls' = SubSeq(calls, 1, Len(calls) - 1),
         alive' = alive \ {b}, count' = [count EXCEPT ![b] = 0],
         total_collections' = total_collections + 1,
         current_bytes' = current_bytes - (HeaderBytes + Bytes),
         UNCHANGED <<peak_bytes, total_allocations>>
  PROVE  AllocInv'
<1> DEFINE n == Len(calls)
<1>t. /\ alive \subseteq Block /\ IsFiniteSet(alive) /\ count \in [Block -> Int]
      /\ calls \in Seq(Activation)
      /\ {current_bytes, peak_bytes, total_allocations, total_collections} \subseteq Int
      /\ HeaderBytes + Bytes \in Nat
  BY ConstantsOK DEF AllocInv, AllocTypes, HeaderBytes
<1>1. n \in DOMAIN calls /\ DOMAIN calls = 1..n /\ n \in Nat
  BY <1>t
<1>2. /\ calls' \in Seq(Activation) /\ DOMAIN calls' = (DOMAIN calls) \ {n}
      /\ \A m \in DOMAIN calls' : calls'[m] = calls[m]
  BY <1>t, <1>1
<1>3. b \in alive
  BY <1>1 DEF AllocInv, CascadeOnce
<1>4. IsFiniteSet(alive') /\ Cardinality(alive') = Cardinality(alive) - 1 /\ Cardinality(alive) \in Nat
  <2>1. /\ IsFiniteSet(alive \ {b})
        /\ Cardinality(alive \ {b}) = IF b \in alive THEN Cardinality(alive) - 1 ELSE Cardinality(alive)
    BY <1>t, FS_RemoveElement
  <2>2. Cardinality(alive) \in Nat
    BY <1>t, FS_CardinalityType
  <2> QED
    BY <1>3, <2>1, <2>2
<1>5. AllocTypes'
  <2>1. count' \in [Block -> Int]
    BY <1>t, <1>3, ExceptType, Zenon
  <2>2. /\ current_bytes \in Int /\ peak_bytes \in Int
        /\ total_allocations \in Int /\ total_collections \in Int
    BY <1>t
  <2>3. /\ current_bytes' \in Int /\ peak_bytes' \in Int
        /\ total_allocations' \in Int /\ total_collections' \in Int
    BY <1>t, <2>2
  <2> QED
    BY <1>t, <1>2, <1>4, <2>1, <2>3 DEF AllocTypes
<1>6. \A x \in alive' : count'[x] = count[x]
  BY <1>t
<1>7. CascadeOnce'
  <2>1. \A m \in DOMAIN calls' : calls[m].blk # b
    BY <1>1, <1>2 DEF AllocInv, CascadeOnce
  <2>2. \A m \in DOMAIN calls' : calls'[m].blk \in alive' /\ count'[calls'[m].blk] <= 0
    BY <1>2, <1>6, <2>1 DEF AllocInv, CascadeOnce
  <2>3. \A x \in alive' : count'[x] <= 0 => \E m \in DOMAIN calls' : calls'[m].blk = x
    <3> SUFFICES ASSUME NEW x \in alive', count'[x] <= 0
                 PROVE  \E m \in DOMAIN calls' : calls'[m].blk = x
      OBVIOUS
    <3>1. x \in alive /\ x # b /\ count[x] <= 0
      BY <1>6
    <3>2. PICK m \in DOMAIN calls : calls[m].blk = x
      BY <3>1 DEF AllocInv, CascadeOnce
    <3>3. m # n
      BY <3>1, <3>2
    <3>4. m \in DOMAIN calls' /\ calls'[m].blk = x
      BY <1>2, <3>2, <3>3
    <3> QED
      BY <3>4
  <2>4. \A l, m \in DOMAIN calls' : calls'[l].blk = calls'[m].blk => l = m
    BY <1>2 DEF AllocInv, CascadeOnce
  <2> QED
    BY <2>2, <2>3, <2>4 DEF CascadeOnce
<1>8. StatsExact'
  <2> DEFINE K == HeaderBytes + Bytes
             p == Cardinality(alive) * K
  <2>1. current_bytes = p /\ Cardinality(alive') * K = p - K /\ p \in Int /\ K \in Nat
    <3>1. current_bytes = p
      BY DEF AllocInv, StatsExact
    <3>2. K \in Nat /\ p \in Int
      BY <1>t, <1>4
    <3>3. (Cardinality(alive) - 1) * K = p - K
      BY <1>4, <3>2, Times
    <3> QED
      BY <1>4, <3>1, <3>2, <3>3
  <2>2. current_bytes <= peak_bytes
    BY DEF AllocInv, StatsExact
  <2>3. current_bytes' = current_bytes - K /\ peak_bytes' = peak_bytes
    OBVIOUS
  <2>4. current_bytes \in Int /\ peak_bytes \in Int
    BY <1>t
  <2> HIDE DEF K, p
  <2>6. current_bytes' = Cardinality(alive') * K
    BY <2>1, <2>3
  <2>7. current_bytes' <= peak_bytes'
    BY <2>1, <2>2, <2>3, <2>4
  <2>5. total_allocations' = total_collections' + Cardinality(alive')
    <3>1. total_allocations = total_collections + Cardinality(alive)
      BY DEF AllocInv, StatsExact
    <3>2. total_collections \in Int /\ Cardinality(alive') = Cardinality(alive) - 1 /\ Cardinality(alive) \in Nat
      BY <1>t, <1>4
    <3> QED
      BY <3>1, <3>2
  <2> QED
    BY <2>5, <2>6, <2>7 DEF StatsExact, K
<1> QED
  BY <1>5, <1>7, <1>8 DEF AllocInv

\* One iteration of dec_ref_count's loop enters only blocks that lose their last count.
LEMMA CascadeKeeps ==
  ASSUME AllocInv, CascadeStep
  PROVE  AllocInv'
<1> DEFINE n == Len(calls)
           b == calls[n].blk
           j == calls[n].i
           rest == [calls EXCEPT ![n].i = j + 1]
<1>1. CASE Undefined
  BY <1>1 DEF Undefined, allocVars, stats, AllocInv, AllocTypes, CascadeOnce, StatsExact
<1>2. CASE /\ to_free[b][j] \in alive /\ dec_ref_count(to_free[b][j], rest)
           /\ UNCHANGED <<alive, stats>>
  <2>1. calls \in Seq(Activation) /\ calls # << >>
    BY DEF CascadeStep, AllocInv, AllocTypes
  <2>2. n \in DOMAIN calls /\ DOMAIN calls = 1..n /\ n \in Nat /\ calls[n] \in Activation
    BY <2>1, SeqFacts
  <2>3. [calls[n] EXCEPT !.i = j + 1] \in Activation /\ [calls[n] EXCEPT !.i = j + 1].blk = b
    BY <2>2 DEF Activation
  <2>4. rest = [calls EXCEPT ![n] = [calls[n] EXCEPT !.i = j + 1]]
    OBVIOUS
  <2>5. DOMAIN rest = DOMAIN calls /\ \A m \in DOMAIN calls : rest[m].blk = calls[m].blk
    BY <2>2, <2>3, <2>4
  <2>6. rest \in Seq(Activation)
    BY <2>1, <2>2, <2>3, <2>4
  <2> HIDE DEF rest
  <2>7. AllocTypes' /\ CascadeOnce'
    BY <1>2, <2>5, <2>6, DecKeeps DEF AllocInv
  <2> QED
    BY <1>2, <2>7, StatsKept DEF AllocInv
<1>3. CASE /\ calls' = SubSeq(calls, 1, n - 1) /\ alive' = alive \ {b}
           /\ count' = [count EXCEPT ![b] = 0]
           /\ total_collections' = total_collections + 1
           /\ current_bytes' = current_bytes - FreedBytes
           /\ UNCHANGED <<peak_bytes, total_allocations>>
  BY <1>3, FreeKeeps DEF CascadeStep
<1> QED
  BY <1>1, <1>2, <1>3 DEF CascadeStep

\* A step that leaves the allocator alone.
LEMMA Untouched ==
  ASSUME AllocInv, UNCHANGED <<alive, count, calls, stats>>
  PROVE  AllocInv'
BY DEF AllocInv, AllocTypes, CascadeOnce, StatsExact, stats

\* Evaluating the right-hand side of an assignment at most allocates.
LEMMA EvaluateKeeps ==
  ASSUME AllocInv, calls = << >>, UNCHANGED calls, NEW e, NEW w, Evaluate(e, w)
  PROVE  AllocInv'
<1>1. CASE e.k = "new"
  <2>1. w \in Block \ alive /\ rc_alloc(w)
    BY <1>1 DEF Evaluate, Evaluates
  <2> QED
    BY <2>1, AllocKeeps
<1>2. CASE e.k # "new"
  BY <1>2, Untouched DEF Evaluate, allocVars
<1> QED
  BY <1>1, <1>2

\* inc_ref_count only raises a count.
LEMMA IncKeeps ==
  ASSUME AllocInv, calls = << >>, NEW w \in alive \cup {Null}, NEW other, inc_ref_count(w, other),
         UNCHANGED <<alive, stats, calls>>
  PROVE  AllocInv'
<1>1. CASE w = Null
  BY <1>1, Untouched DEF inc_ref_count
<1>2. CASE w # Null
  <2>1. /\ alive \subseteq Block /\ count \in [Block -> Int] /\ w \in alive
        /\ count' = [count EXCEPT ![w] = count[w] + 1]
    BY <1>2 DEF AllocInv, AllocTypes, inc_ref_count
  <2>2. DOMAIN calls = {}
    OBVIOUS
  <2>3. \A b \in alive : count[b] > 0
    BY <2>1, <2>2 DEF AllocInv, CascadeOnce
  <2>4. \A b \in alive : ~(count'[b] <= 0)
    BY <2>1, <2>3
  <2>5. AllocTypes'
    BY <2>1 DEF AllocInv, AllocTypes, stats
  <2> QED
    BY <2>2, <2>4, <2>5, StatsKept DEF AllocInv, CascadeOnce
<1> QED
  BY <1>1, <1>2

\* Every step of the program and of the allocator keeps the invariant.
LEMMA AllocNext == AllocInv /\ [Next]_vars => AllocInv'
<1> SUFFICES ASSUME AllocInv, [Next]_vars
             PROVE  AllocInv'
  OBVIOUS
<1>u. ASSUME Undefined
      PROVE  AllocInv'
  BY <1>u, Untouched DEF Undefined, allocVars
<1>1. CASE Program
  <2>1. UNCHANGED <<allocVars, calls>>
    BY <1>1 DEF Program, Declare, AssignVar, AssignField, CallStmt, Condition, StructInit, OpenBlock,
                EndBlock, Return, Statement
  <2> QED
    BY <2>1, Untouched DEF allocVars
<1>2. CASE ExecInc
  <2> DEFINE w == value(Head(code).x)
             other == IF Head(code).other = Nil THEN Null ELSE value(Head(code).other.x)
  <2>1. calls = << >>
    BY <1>2 DEF ExecInc, Executing
  <2>2. CASE w # Null /\ ~(Live(w) /\ Live(other))
    BY <1>2, <1>u, <2>2 DEF ExecInc
  <2>3. CASE ~(w # Null /\ ~(Live(w) /\ Live(other)))
    <3>1. inc_ref_count(w, other) /\ UNCHANGED <<alive, stats, calls>>
      BY <1>2, <2>3 DEF ExecInc
    <3>2. w \in alive \cup {Null}
      BY <2>3 DEF Live
    <3> HIDE DEF w, other
    <3> QED
      BY <2>1, <3>1, <3>2, IncKeeps
  <2> QED
    BY <2>2, <2>3
<1>3. CASE ExecDec
  <2> DEFINE w == value(Head(code).x)
  <2>1. calls = << >>
    BY <1>3 DEF ExecDec, Executing
  <2>2. CASE ~Live(w)
    BY <1>3, <1>u, <2>2 DEF ExecDec
  <2>3. CASE Live(w)
    <3>1. dec_ref_count(w, calls) /\ UNCHANGED <<alive, stats>>
      BY <1>3, <2>1, <2>3 DEF ExecDec
    <3>2. w \in alive \cup {Null} /\ calls \in Seq(Activation)
      BY <2>3 DEF Live, AllocInv, AllocTypes
    <3> HIDE DEF w
    <3>3. AllocTypes' /\ CascadeOnce'
      BY <3>1, <3>2, DecKeeps DEF AllocInv
    <3> QED
      BY <3>1, <3>3, StatsKept DEF AllocInv
  <2> QED
    BY <2>2, <2>3
<1>4. CASE ExecSet
  <2>1. calls = << >>
    BY <1>4 DEF ExecSet, Executing
  <2>2. Undefined \/ (UNCHANGED calls /\ \E w : Evaluate(Head(code).e, w))
    BY <1>4 DEF ExecSet
  <2> QED
    BY <1>u, <2>1, <2>2, EvaluateKeeps
<1>5. CASE ExecReturn
  <2>1. calls = << >>
    BY <1>5 DEF ExecReturn, Executing
  <2>2. Undefined \/ (UNCHANGED calls /\ \E w : Evaluate(Head(code).e, w))
    BY <1>5 DEF ExecReturn
  <2> QED
    BY <1>u, <2>1, <2>2, EvaluateKeeps
<1>6. CASE ExecCall \/ ExecLeave
  BY <1>6, Untouched DEF ExecCall, ExecLeave, allocVars
<1>7. CASE CascadeStep
  BY <1>7, CascadeKeeps
<1>8. CASE UNCHANGED vars
  BY <1>8, Untouched DEF vars, allocVars
<1> QED
  BY <1>1, <1>2, <1>3, <1>4, <1>5, <1>6, <1>7, <1>8 DEF Next, Machine, Terminated

\* The invariant holds at the start.
LEMMA AllocInit == Init => AllocInv
<1> SUFFICES ASSUME Init
             PROVE  AllocInv
  OBVIOUS
<1>1. IsFiniteSet({}) /\ Cardinality({}) = 0
  BY FS_EmptySet
<1>2. HeaderBytes + Bytes \in Nat
  BY ConstantsOK DEF HeaderBytes
<1>3. 0 * (HeaderBytes + Bytes) = 0
  BY <1>2
<1>4. DOMAIN << >> = {} /\ << >> \in Seq(Activation)
  OBVIOUS
<1>5. AllocTypes
  BY <1>1, <1>4 DEF Init, AllocTypes
<1>6. CascadeOnce
  BY <1>4 DEF Init, CascadeOnce
<1>7. StatsExact
  BY <1>1, <1>3 DEF Init, StatsExact
<1> QED
  BY <1>5, <1>6, <1>7 DEF AllocInv

\* For every program, dec_ref_count releases each block once and leaves no live block
\* without a count: a block is active in the recursion exactly from the moment its count
\* reaches zero until it is freed.
THEOREM CascadeCorrect == Spec => []CascadeOnce
<1>1. AllocInv => CascadeOnce
  BY DEF AllocInv
<1> QED
  BY <1>1, AllocInit, AllocNext, PTL DEF Spec

\* For every program the statistics of the allocator agree with its heap.
THEOREM StatsCorrect == Spec => []StatsExact
<1>1. AllocInv => StatsExact
  BY DEF AllocInv
<1> QED
  BY <1>1, AllocInit, AllocNext, PTL DEF Spec

=============================================================================
