------------------------------- MODULE RefCount -------------------------------
(***************************************************************************)
(* Reference counting: the calls that the transpiler compiles into the     *)
(* program (src/ast/TranspilerVisitor.cpp) and the allocator that counts   *)
(* them (runtime/src/reference_count_allocator.c).  Neither is correct     *)
(* alone, so they are modelled together.                                   *)
(*                                                                         *)
(* A program is any sequence of statements over pointer variables.  An     *)
(* operator named visit... translates one statement to the instructions    *)
(* that the visitor of that name emits for it, in their order; the machine *)
(* below executes them one at a time, and each runtime_dec_ref_count one   *)
(* recursive call at a time.                                               *)
(*                                                                         *)
(* Touching the header or a field of a freed block is undefined: the       *)
(* machine then stops with pc = "undefined".                               *)
(*                                                                         *)
(* A definition that no action uses, just above one of similar name, is a  *)
(* slip the code might have made there: the properties are tested on it.   *)
(***************************************************************************)
EXTENDS Integers, Sequences, FiniteSets

CONSTANTS
  Block,      \* the chunks malloc can hand out
  Null,       \* NULL
  Wild,       \* what uninitialised memory holds
  LocalNames, \* the names of local variables, in the order of std::map
  Global,     \* the names of global variables
  Param,      \* the name of every function's parameter
  Field,      \* the pointer fields of the program's struct
  Bytes,      \* its sizeof
  Slots,      \* length of RefcountHeader.to_free
  Features,   \* which of the statements listed in AllFeatures programs use
  MaxScopes,  \* bound: scopes open at once, in all active functions
  MaxAllocs,  \* bound: allocations per behaviour
  MaxCount    \* bound: the count up to which statements share a block

\* Statements whose counting goes wrong.  The first five lose a decrement.
Leaky == {"early",     \* return inside a nested block
          "newfield",  \* p->f = new T and p->f = f(y)
          "overflow",  \* p->f = y once the to_free of p is full
          "discard",   \* f(y); where f returns a pointer
          "init"}      \* T v = { .f = y };

AllFeatures == Leaky \cup
         {"load",      \* y->f as the source of an assignment, initialiser or return
          "cast",      \* a pointer to a class assigned to one to its parent class
          "param",     \* an assignment to the parameter
          "self",      \* x = f(x)
          "deep",      \* p->f->g = y
          "tail",      \* return f(x)
          "uninit",    \* T* x; and string x = "..": a string is no block
          "global"}    \* g = f(y), and f(g)

Local == {LocalNames[n] : n \in DOMAIN LocalNames}
Name == Local \cup Global \cup {Param}

ASSUME ConstantsOK ==
  /\ Null \notin Block /\ Wild \notin Block /\ Null # Wild
  /\ LocalNames \in Seq(Local)
  /\ Local \cap Global = {} /\ Param \notin Local \cup Global
  /\ Bytes \in Nat /\ Slots \in Nat
  /\ Features \subseteq AllFeatures
  /\ MaxScopes \in Nat /\ MaxAllocs \in Nat /\ MaxCount \in Nat

HeaderBytes == 48              \* sizeof(RefcountHeader)
Word == Block \cup {Null}

VARIABLES
  alive,                       \* chunks malloc has given out and not got back
  count, to_free,              \* header fields; idx is the length of to_free
  current_bytes, peak_bytes,   \* the fields of stats
  total_allocations, total_collections,
  heap,                        \* the fields of each block
  scopes,                      \* global scope, then those of the active functions
  code,                        \* instructions of the statement being executed
  result,                      \* the value of the last call that returned
  calls,                       \* the activations of dec_ref_count
  pc                           \* "run", "down" or "undefined"

stats == <<current_bytes, peak_bytes, total_allocations, total_collections>>
allocVars == <<alive, count, to_free, stats>>
progVars == <<heap, scopes, result>>
vars == <<allocVars, progVars, code, calls, pc>>

-----------------------------------------------------------------------------
(***************************************************************************)
(* The symbol table.  The scopes open at run time are those the visitor    *)
(* has open at the same place, under a scope that holds the parameter,     *)
(* which the visitor keeps apart: no end of scope decrements it.           *)
(***************************************************************************)

\* The scope that holds the parameter of the function whose innermost scope is n.
\* Its code is what the caller has left to execute.
BottomAt(n) == CHOOSE m \in 1..n :
                 /\ scopes[m].kind = "params"
                 /\ \A k \in (m + 1)..n : scopes[k].kind # "params"

VisibleAt(n) == {1} \cup BottomAt(n)..n

\* The scope in which that function finds x, and what x holds there.
lookupSymbol(n, x) ==
  CHOOSE m \in VisibleAt(n) :
    /\ x \in DOMAIN scopes[m].vars
    /\ \A k \in VisibleAt(n) : x \in DOMAIN scopes[k].vars => k <= m

valueAt(n, x) == scopes[lookupSymbol(n, x)].vars[x]

\* The same for the function that is running.
Depth == Len(scopes)
Top == scopes[Depth]
Bottom == BottomAt(Depth)
InScope == UNION {DOMAIN scopes[n].vars : n \in VisibleAt(Depth)}
value(x) == valueAt(Depth, x)

\* The pointers of the innermost scope, in the order of their names.
getCurrentScopeSymbols == SelectSeq(LocalNames, LAMBDA x : x \in DOMAIN Top.vars)

addSymbol(x, w) ==
  [scopes EXCEPT ![Depth].vars =
     [y \in DOMAIN @ \cup {x} |-> IF y = x THEN w ELSE @[y]]]

enterScope == Append(scopes, [kind |-> "block", vars |-> << >>, code |-> << >>])
exitScope == SubSeq(scopes, 1, Depth - 1)

-----------------------------------------------------------------------------
(***************************************************************************)
(* Expressions and instructions.                                           *)
(***************************************************************************)
Nil == [k |-> "nil"]
New == [k |-> "new"]
Junk == [k |-> "junk"]                        \* no initialiser
Result == [k |-> "result"]
VarOf(x) == [k |-> "var", x |-> x]
CastOf(x) == [k |-> "cast", x |-> x]
FieldOf(x, f) == [k |-> "field", x |-> x, f |-> f]
DeepOf(x, f, g) == [k |-> "deep", x |-> x, f |-> f, g |-> g]
CallOf(e) == [k |-> "call", arg |-> e]        \* f(e): e is Nil or a variable

generateIncRef(x, other) == << [op |-> "inc", x |-> x, other |-> other] >>
generateDecRef(x) == << [op |-> "dec", x |-> x] >>
DeclInstr(x, e) == << [op |-> "decl", l |-> VarOf(x), e |-> e] >>
SetInstr(l, e) == << [op |-> "set", l |-> l, e |-> e] >>
CallInstr(e) == << [op |-> "call", e |-> e] >>
ReturnInstr(e) == << [op |-> "return", e |-> e] >>
LeaveInstr == << [op |-> "leave"] >>

-----------------------------------------------------------------------------
(***************************************************************************)
(* What the visitor emits.  Visiting an expression emits pre at once; the  *)
(* text it returns calls a function (eval), denotes the value e, and goes  *)
(* on with post after the statement it is put into.                        *)
(***************************************************************************)
IncIfVar(e, other) == IF e.k = "var" THEN generateIncRef(e.x, other) ELSE << >>
DecIfVar(e) == IF e.k = "var" THEN generateDecRef(e.x) ELSE << >>

visitFunctionCall(e, addRefCounts) ==
  [pre |-> IF addRefCounts THEN IncIfVar(e, Nil) ELSE << >>,
   eval |-> CallInstr(e),
   e |-> Result,
   post |-> IF addRefCounts THEN DecIfVar(e) ELSE << >>]

visit(e, addRefCounts) ==
  IF e.k = "call" THEN visitFunctionCall(e.arg, addRefCounts)
  ELSE [pre |-> << >>, eval |-> << >>, e |-> e, post |-> << >>]

visitVarDecl(x, e) ==
  LET v == visit(e, TRUE)
  IN  v.pre \o IncIfVar(v.e, Nil) \o v.eval \o DeclInstr(x, v.e) \o v.post

visitAssignExprNoOwner(l, e) ==
  LET v == visit(e, TRUE)
  IN  v.pre \o (IF l.k = "var" THEN IncIfVar(v.e, Nil) \o DecIfVar(l) ELSE << >>)
      \o v.eval \o SetInstr(l, v.e) \o v.post

visitAssignExprDecFirst(l, e) ==
  LET v == visit(e, TRUE)
      owner == IF l.k = "var" THEN Nil ELSE VarOf(l.x)
  IN  v.pre \o DecIfVar(l) \o IncIfVar(v.e, owner) \o v.eval \o SetInstr(l, v.e) \o v.post

visitAssignExpr(l, e) ==
  LET v == visit(e, TRUE)
      owner == IF l.k = "var" THEN Nil ELSE VarOf(l.x)
  IN  v.pre \o IncIfVar(v.e, owner) \o DecIfVar(l) \o v.eval \o SetInstr(l, v.e) \o v.post

decScope == [n \in DOMAIN getCurrentScopeSymbols |->
               [op |-> "dec", x |-> getCurrentScopeSymbols[n]]]

visitReturnStmtNoInc(e) ==
  LET v == visit(e, FALSE)
  IN  decScope \o v.eval \o ReturnInstr(v.e)

visitReturnStmt(e) ==
  LET v == visit(e, FALSE)
  IN  IncIfVar(v.e, Nil) \o decScope \o v.eval \o ReturnInstr(v.e)

visitBlockNoDec == LeaveInstr

\* What visitBlock emits after the statements of the block.
visitBlock == decScope \o LeaveInstr

visitExprStmt(e) == LET v == visit(e, TRUE) IN v.pre \o v.eval \o v.post

\* f(y) in the condition of an if or a while, and every method call, counts nothing.
visitCondition(e) == visit(e, FALSE).eval

visitInitializerList(x) == generateIncRef(x, Nil)

-----------------------------------------------------------------------------
(***************************************************************************)
(* The allocator.                                                          *)
(***************************************************************************)
Undefined == pc' = "undefined" /\ UNCHANGED <<allocVars, progVars, code, calls>>

\* malloc returns chunk b.
rc_alloc(b) ==
  LET now == current_bytes + HeaderBytes + Bytes
  IN  /\ alive' = alive \cup {b}
      /\ count' = [count EXCEPT ![b] = 1]
      /\ to_free' = [to_free EXCEPT ![b] = << >>]
      /\ total_allocations' = total_allocations + 1
      /\ current_bytes' = now
      /\ peak_bytes' = IF now > peak_bytes THEN now ELSE peak_bytes
      /\ UNCHANGED total_collections

\* The owner's array takes a pointer while it has room.
HasRoom(b) == Len(to_free[b]) < Slots

inc_ref_count_off_by_one(w, other) ==
  IF w = Null THEN UNCHANGED <<count, to_free>>
  ELSE /\ count' = [count EXCEPT ![w] = @ + 1]
       /\ to_free' = IF other # Null /\ Len(to_free[other]) <= Slots
                       THEN [to_free EXCEPT ![other] = Append(@, w)] ELSE to_free

inc_ref_count(w, other) ==
  IF w = Null THEN UNCHANGED <<count, to_free>>
  ELSE /\ count' = [count EXCEPT ![w] = @ + 1]
       /\ to_free' = IF other # Null /\ HasRoom(other)
                       THEN [to_free EXCEPT ![other] = Append(@, w)] ELSE to_free

dec_ref_count_skip_first(w, rest) ==
  /\ count' = IF w = Null THEN count ELSE [count EXCEPT ![w] = @ - 1]
  /\ calls' = IF w # Null /\ count[w] = 1 THEN Append(rest, [blk |-> w, i |-> 2]) ELSE rest

dec_ref_count_again(w, rest) ==
  /\ count' = IF w = Null THEN count ELSE [count EXCEPT ![w] = @ - 1]
  /\ calls' = IF w # Null /\ count[w] <= 1 THEN Append(rest, [blk |-> w, i |-> 1]) ELSE rest

dec_ref_count_flat(w, rest) ==
  /\ count' = IF w = Null THEN count ELSE [count EXCEPT ![w] = @ - 1]
  /\ calls' = IF w # Null /\ count[w] = 1 /\ rest = << >>
                THEN << [blk |-> w, i |-> 1] >> ELSE rest

\* dec_ref_count(w), called below the activations rest.
dec_ref_count(w, rest) ==
  /\ count' = IF w = Null THEN count ELSE [count EXCEPT ![w] = @ - 1]
  /\ calls' = IF w # Null /\ count[w] = 1 THEN Append(rest, [blk |-> w, i |-> 1]) ELSE rest

\* What a freed block takes off current_bytes: header->size counts the header.
PayloadBytes == Bytes
FreedBytes == HeaderBytes + Bytes

\* One iteration of the loop of the innermost activation of dec_ref_count that has
\* reached zero, or its end.  A freed chunk forgets its contents.
CascadeStep ==
  /\ pc = "run" /\ calls # << >>
  /\ LET n == Len(calls)
         b == calls[n].blk
         j == calls[n].i
     IN  IF j <= Len(to_free[b])
           THEN IF to_free[b][j] \notin alive THEN Undefined
                ELSE /\ dec_ref_count(to_free[b][j], [calls EXCEPT ![n].i = j + 1])
                     /\ UNCHANGED <<alive, to_free, stats, progVars, code, pc>>
           ELSE /\ calls' = SubSeq(calls, 1, n - 1)
                /\ alive' = alive \ {b}
                /\ count' = [count EXCEPT ![b] = 0]
                /\ to_free' = [to_free EXCEPT ![b] = << >>]
                /\ heap' = [heap EXCEPT ![b] = [f \in Field |-> Wild]]
                /\ total_collections' = total_collections + 1
                /\ current_bytes' = current_bytes - FreedBytes
                /\ UNCHANGED <<peak_bytes, total_allocations, scopes, result, code, pc>>

-----------------------------------------------------------------------------
(***************************************************************************)
(* The machine.                                                            *)
(***************************************************************************)
Executing(ops) == pc = "run" /\ calls = << >> /\ code # << >> /\ Head(code).op \in ops

Live(w) == w \in alive \cup {Null}

ExecInc ==
  /\ Executing({"inc"})
  /\ LET w == value(Head(code).x)
         other == IF Head(code).other = Nil THEN Null ELSE value(Head(code).other.x)
     IN  IF w # Null /\ ~(Live(w) /\ Live(other)) THEN Undefined
         ELSE /\ inc_ref_count(w, other)
              /\ code' = Tail(code)
              /\ UNCHANGED <<alive, stats, progVars, calls, pc>>

ExecDec ==
  /\ Executing({"dec"})
  /\ LET w == value(Head(code).x)
     IN  IF ~Live(w) THEN Undefined
         ELSE /\ dec_ref_count(w, << >>)
              /\ code' = Tail(code)
              /\ UNCHANGED <<alive, to_free, stats, progVars, pc>>

\* Evaluating e, or storing to l, goes through a pointer to a freed block.
Faults(e) ==
  \/ e.k \in {"field", "deep"} /\ value(e.x) \notin alive
  \/ e.k = "deep" /\ value(e.x) \in alive /\ heap[value(e.x)][e.f] \notin alive

\* w is the value of e.
Evaluates(e, w) ==
  CASE e.k = "nil" -> w = Null
    [] e.k = "junk" -> TRUE
    [] e.k = "result" -> w = result
    [] e.k \in {"var", "cast"} -> w = value(e.x)
    [] e.k = "field" -> w = heap[value(e.x)][e.f]
    [] e.k = "new" -> w \in Block \ alive

Evaluate(e, w) ==
  /\ Evaluates(e, w)
  /\ IF e.k = "new" THEN rc_alloc(w) ELSE UNCHANGED allocVars

ExecSet ==
  /\ Executing({"set", "decl"})
  /\ LET l == Head(code).l
         e == Head(code).e
     IN  IF Faults(e) \/ Faults(l) THEN Undefined
         ELSE /\ \E w \in Word \cup {Wild} :
                   /\ Evaluate(e, w)
                   /\ CASE Head(code).op = "decl" ->
                             scopes' = addSymbol(l.x, w) /\ UNCHANGED heap
                        [] Head(code).op = "set" /\ l.k = "var" ->
                             /\ scopes' = [scopes EXCEPT ![lookupSymbol(Depth, l.x)].vars[l.x] = w]
                             /\ UNCHANGED heap
                        [] l.k = "field" ->
                             heap' = [heap EXCEPT ![value(l.x)][l.f] = w] /\ UNCHANGED scopes
                        [] l.k = "deep" ->
                             heap' = [heap EXCEPT ![heap[value(l.x)][l.f]][l.g] = w]
                             /\ UNCHANGED scopes
              /\ code' = Tail(code)
              /\ result' = Null
              /\ UNCHANGED <<calls, pc>>

ExecCall ==
  /\ Executing({"call"})
  /\ \E w \in Word \cup {Wild} :
       /\ Evaluates(Head(code).e, w)
       /\ scopes' = scopes \o
            << [kind |-> "params", vars |-> [x \in {Param} |-> w], code |-> Tail(code)],
               [kind |-> "block", vars |-> << >>, code |-> << >>] >>
  /\ code' = << >>
  /\ UNCHANGED <<allocVars, heap, result, calls, pc>>

\* The caller of the active function stores, or returns, what it gets back.
ResultUsed ==
  LET rest == scopes[Bottom].code
  IN  rest # << >> /\ Head(rest).op \in {"set", "decl", "return"}

\* The active function returns w; when it is main_, the program is over.
LeaveFunction(w) ==
  /\ scopes' = SubSeq(scopes, 1, Bottom - 1)
  /\ result' = IF ResultUsed THEN w ELSE Null
  /\ code' = scopes[Bottom].code
  /\ pc' = IF Bottom = 2 THEN "down" ELSE "run"

ExecReturn ==
  /\ Executing({"return"})
  /\ LET e == Head(code).e
     IN  IF Faults(e) THEN Undefined
         ELSE /\ \E w \in Word \cup {Wild} : Evaluate(e, w) /\ LeaveFunction(w)
              /\ UNCHANGED <<heap, calls>>

ExecLeave ==
  /\ Executing({"leave"})
  /\ IF Depth = Bottom + 1 THEN LeaveFunction(Null)
     ELSE /\ scopes' = exitScope
          /\ code' = << >>
          /\ UNCHANGED <<result, pc>>
  /\ UNCHANGED <<allocVars, heap, calls>>

-----------------------------------------------------------------------------
(***************************************************************************)
(* The statements of a program, each translated when control reaches it.   *)
(* A program does not go through NULL, does not read what it has not set,  *)
(* and shadows no variable in its own initialiser.                         *)
(***************************************************************************)
Ready == pc = "run" /\ calls = << >> /\ code = << >>

Statement(instructions) ==
  /\ code' = instructions
  /\ UNCHANGED <<allocVars, progVars, calls, pc>>

Has(feature) == feature \in Features

MayAllocate == total_allocations < MaxAllocs /\ alive # Block
MayCall == Depth + 2 <= MaxScopes

\* y->f can be read.
MayLoad(y, f) ==
  Has("load") /\ value(y) \in Block /\ (value(y) \in alive => heap[value(y)][f] # Wild)

\* The variables whose block is not yet shared up to the bound.
Shareable == {y \in InScope : value(y) \in Block => count[value(y)] < MaxCount}

Calls == {CallOf(e) : e \in {Nil} \cup
            {VarOf(y) : y \in {y \in Shareable : y \notin Global \/ Has("global")}}}

\* The right-hand sides of initialisers, assignments and returns.
Sources ==
  {Nil} \cup {VarOf(y) : y \in Shareable}
  \cup {FieldOf(e[1], e[2]) : e \in {e \in InScope \X Field : MayLoad(e[1], e[2])}}
  \cup (IF MayAllocate THEN {New} ELSE {})
  \cup (IF MayCall THEN Calls ELSE {})

Casts == IF Has("cast") THEN {CastOf(y) : y \in InScope} ELSE {}

\* The variable an expression mentions.
Mentions(e, x) == \/ e.k \in {"var", "field", "cast"} /\ e.x = x
                  \/ e.k = "call" /\ e.arg = VarOf(x)

Declare ==
  \E x \in Local \ DOMAIN Top.vars :
  \E e \in Sources \cup Casts \cup (IF Has("uninit") THEN {Junk} ELSE {}) :
    ~Mentions(e, x) /\ Statement(visitVarDecl(x, e))

AssignVar ==
  \E x \in InScope, e \in Sources \cup Casts :
    /\ x = Param => Has("param")
    /\ x \in Global /\ e.k = "call" => Has("global")
    /\ e.k = "call" /\ Mentions(e, x) => Has("self")
    /\ Statement(visitAssignExpr(VarOf(x), e))

\* Stores go through locals and the parameter, never through a global; without the feature
\* "overflow" a program stores to no block whose to_free is full.
AssignField ==
  \E p \in InScope \ Global, f \in Field, e \in Sources :
    /\ value(p) \in Block
    /\ e.k \in {"new", "call"} => Has("newfield")
    /\ e.k = "var" => HasRoom(value(p)) \/ value(e.x) = Null \/ Has("overflow")
    /\ \/ Statement(visitAssignExpr(FieldOf(p, f), e))
       \/ \E g \in Field :
            /\ Has("deep") /\ value(p) \in alive /\ heap[value(p)][f] \in Block
            /\ Statement(visitAssignExpr(DeepOf(p, f, g), e))

CallStmt == MayCall /\ \E e \in Calls : Statement(visitExprStmt(e))

Condition == MayCall /\ \E e \in Calls : Statement(visitCondition(e))

StructInit == Has("init") /\ \E y \in Shareable : Statement(visitInitializerList(y))

OpenBlock ==
  /\ Depth < MaxScopes
  /\ scopes' = enterScope
  /\ UNCHANGED <<allocVars, heap, result, code, calls, pc>>

\* Control reaches the end of the innermost block: of a function only when its
\* caller expects no value.
EndBlock ==
  /\ Depth = Bottom + 1 => ~ResultUsed
  /\ Statement(visitBlock)

\* main_ returns an int.
Return ==
  \E e \in Sources :
    /\ e # Nil => Bottom # 2 /\ (ResultUsed \/ Has("discard"))
    /\ e.k = "call" => Has("tail")
    /\ (\E n \in (Bottom + 1)..(Depth - 1) : DOMAIN scopes[n].vars # {}) => Has("early")
    /\ Statement(visitReturnStmt(e))

Program ==
  /\ Ready
  /\ \/ Declare \/ AssignVar \/ AssignField \/ CallStmt \/ Condition \/ StructInit
     \/ OpenBlock \/ EndBlock \/ Return

Machine == ExecInc \/ ExecDec \/ ExecSet \/ ExecCall \/ ExecReturn \/ ExecLeave \/ CascadeStep

Terminated == pc # "run" /\ UNCHANGED vars

Init ==
  /\ alive = {}
  /\ count = [b \in Block |-> 0]
  /\ to_free = [b \in Block |-> << >>]
  /\ current_bytes = 0 /\ peak_bytes = 0
  /\ total_allocations = 0 /\ total_collections = 0
  /\ heap = [b \in Block |-> [f \in Field |-> Wild]]
  /\ scopes = << [kind |-> "global", vars |-> [g \in Global |-> Null], code |-> << >>],
                 [kind |-> "params", vars |-> << >>, code |-> << >>],
                 [kind |-> "block", vars |-> << >>, code |-> << >>] >>
  /\ code = << >>
  /\ result = Null
  /\ calls = << >>
  /\ pc = "run"

Next == Program \/ Machine \/ Terminated

Spec == Init /\ [][Next]_vars

\* One thread runs the program: an instruction that has begun goes on.
FairSpec == Spec /\ WF_vars(Machine)

-----------------------------------------------------------------------------
(***************************************************************************)
(* Properties.                                                             *)
(***************************************************************************)

\* The variables that hold b, other than parameters, and the entries of the to_free
\* arrays of live blocks.
HoldingVars(b) ==
  {e \in (1..Depth) \X Name :
     /\ scopes[e[1]].kind # "params"
     /\ e[2] \in DOMAIN scopes[e[1]].vars
     /\ scopes[e[1]].vars[e[2]] = b}

HoldingOwners(b) ==
  {e \in alive \X (1..Slots) : e[2] <= Len(to_free[e[1]]) /\ to_free[e[1]][e[2]] = b}

\* What the callers of active functions have still to do: decrement the argument,
\* and overwrite a variable that they have already decremented: two instructions.
PendingDecs(b) ==
  {e \in (1..Depth) \X (1..2) :
     /\ e[2] <= Len(scopes[e[1]].code)
     /\ LET instr == scopes[e[1]].code[e[2]]
        IN  instr.op = "dec" /\ valueAt(e[1] - 1, instr.x) = b}

PendingSets(b) ==
  {e \in (1..Depth) \X (1..2) :
     /\ e[2] <= Len(scopes[e[1]].code)
     /\ LET instr == scopes[e[1]].code[e[2]]
        IN  instr.op = "set" /\ instr.l.k = "var" /\ valueAt(e[1] - 1, instr.l.x) = b}

Holders(b) == Cardinality(HoldingVars(b)) + Cardinality(HoldingOwners(b))
              + Cardinality(PendingDecs(b)) - Cardinality(PendingSets(b))

Expr == [k : {"nil", "new", "junk", "result"}]
        \cup [k : {"var", "cast"}, x : Name]
        \cup [k : {"field"}, x : Name, f : Field]
        \cup [k : {"deep"}, x : Name, f : Field, g : Field]

Instr == [op : {"inc"}, x : Name, other : Expr] \cup [op : {"dec"}, x : Name]
         \cup [op : {"decl", "set"}, l : Expr, e : Expr]
         \cup [op : {"call", "return"}, e : Expr] \cup [op : {"leave"}]

\* Every variable of the allocator and of the program has its type; no to_free array is
\* written past its end, however many pointers are stored to the fields of its block
\* (inc_ref_count); only live blocks have a count or own others.
TypeOK ==
  /\ alive \subseteq Block
  /\ count \in [Block -> Int]
  /\ to_free \in [Block -> Seq(Block)]
  /\ \A b \in Block : Len(to_free[b]) <= Slots
  /\ \A b \in Block \ alive : count[b] = 0 /\ to_free[b] = << >>
  /\ current_bytes \in Nat /\ peak_bytes \in Nat
  /\ total_allocations \in Nat /\ total_collections \in Nat
  /\ heap \in [Block -> [Field -> Word \cup {Wild}]]
  /\ \A n \in DOMAIN scopes :
       /\ scopes[n].kind \in {"global", "params", "block"}
       /\ DOMAIN scopes[n].vars \subseteq Name
       /\ \A x \in DOMAIN scopes[n].vars : scopes[n].vars[x] \in Word \cup {Wild}
       /\ scopes[n].code \in Seq(Instr)
  /\ code \in Seq(Instr)
  /\ result \in Word \cup {Wild}
  /\ calls \in Seq([blk : Block, i : Nat \ {0}])
  /\ pc \in {"run", "down", "undefined"}

\* No call that the visitor emits, and no access of the program, touches a freed
\* block.
NoUseAfterFree == pc # "undefined"

\* Between two statements, no variable that the running function can name points to a
\* freed block, and no field of a live block does: the increments around calls and
\* returns, and the entries of to_free, keep what is still in use.
NoDangling ==
  Ready =>
    /\ \A n \in VisibleAt(Depth) : \A x \in DOMAIN scopes[n].vars : Live(scopes[n].vars[x])
    /\ \A b \in alive, f \in Field : heap[b][f] = Wild \/ Live(heap[b][f])

\* Every holder of a block is counted, so that the count reaches zero only with the
\* last of them.
CountCovers == Ready => \A b \in alive : count[b] >= Holders(b)

\* Nothing else is counted: without the statements of Leaky a block's count is the
\* number of its holders, so that dropping the last one frees it.
CountExact == Ready => \A b \in alive : count[b] = Holders(b) /\ count[b] > 0

\* What b owns, directly or through others.
Owns(b) == {to_free[b][n] : n \in DOMAIN to_free[b]}
Owned(S) == {b \in Block : \A T \in SUBSET Block :
               S \subseteq T /\ (\A c \in T : Owns(c) \subseteq T) => b \in T}

\* When the program is over, only globals and cycles of ownership hold memory: every
\* block left is owned by a global, or by a block that owns itself.
LeaksAreCycles ==
  pc = "down" =>
    alive \subseteq Owned({scopes[1].vars[g] : g \in Global} \cap Block)
                    \cup Owned({b \in alive : b \in Owned(Owns(b))})

\* The recursion of dec_ref_count visits a block once, and frees it only after all
\* that it owned has been decremented: no block is active twice, active blocks are
\* live and have no count left, and no other live block is without a count.
CascadeOnce ==
  /\ \A m, n \in DOMAIN calls : calls[m].blk = calls[n].blk => m = n
  /\ \A n \in DOMAIN calls : calls[n].blk \in alive /\ count[calls[n].blk] <= 0
  /\ \A b \in alive : count[b] <= 0 => \E n \in DOMAIN calls : calls[n].blk = b

\* The statistics agree with the heap: every block is counted as allocated, and as
\* collected when it is freed, once.
StatsExact ==
  /\ current_bytes = Cardinality(alive) * (HeaderBytes + Bytes)
  /\ total_allocations = total_collections + Cardinality(alive)
  /\ current_bytes <= peak_bytes

\* A block whose count reaches zero is freed, however deep the structure that its
\* release takes down with it.
ZeroFreed ==
  \A b \in Block : b \in alive /\ count[b] = 0 ~> b \notin alive \/ pc = "undefined"

\* What the running statements have still to execute while scope n is innermost.
Pending(n) ==
  IF n = Depth THEN code
  ELSE IF scopes[n + 1].kind = "params" THEN scopes[n + 1].code ELSE << >>

\* The statement under way gives up variable x of scope n: it will overwrite it, or
\* leave its scope.
Doomed(n, x) ==
  \E m \in n..Depth : \E j \in DOMAIN Pending(m) :
    LET instr == Pending(m)[j]
    IN  \/ instr.op \in {"leave", "return"} /\ m = n
        \/ instr.op = "set" /\ instr.l = VarOf(x) /\ lookupSymbol(m, x) = n

\* What the program can name: through the variables it keeps, the value it is about to
\* store, pass or return, and the fields of what it can name.
Pointers ==
  {result}
  \cup UNION {{scopes[n].vars[x] : x \in {x \in DOMAIN scopes[n].vars : ~Doomed(n, x)}} :
              n \in 1..Depth}
  \cup {value(instr.e.x) : instr \in
         {code[j] : j \in {j \in DOMAIN code : /\ code[j].op \in {"set", "decl", "return"}
                                               /\ code[j].e.k = "var"}}}

Nameable ==
  LET start == Pointers \cap Block
  IN  {b \in Block : \A S \in SUBSET Block :
         /\ start \subseteq S
         /\ \A c \in S, f \in Field : heap[c][f] \in Block => heap[c][f] \in S
         => b \in S}

\* Counting implements the managed heap, at every instruction of a statement and every
\* step of a cascade: what a decrement frees the program can no longer name.
Heap == INSTANCE ManagedHeap WITH named <- Nameable, down <- pc = "down"
ImplementsHeap == Heap!Spec

\* The count of a block is the number of variables and fields that hold it: storing
\* a pointer to a field increments it, and overwriting the field decrements it, as
\* the comments of tests/examples/test_ref_count.jb have it.
FieldsCounted ==
  Ready /\ Bottom = 2 =>
    \A b \in alive :
      count[b] = Cardinality(HoldingVars(b))
                 + Cardinality({e \in alive \X Field : heap[e[1]][e[2]] = b})

=============================================================================
