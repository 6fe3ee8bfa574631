------------------------------- MODULE Visitor -------------------------------
(***************************************************************************)
(* The two passes of the transpiler over a program, its symbol table and   *)
(* the order of what it emits (TranspilerVisitor::visitProgram and the     *)
(* visitors of declarations, blocks and statements; SymbolTable).          *)
(*                                                                         *)
(* A program is a sequence of tokens, first written and then visited once  *)
(* in each pass.  A visitor that visits a block is one step where it       *)
(* starts, the steps of the statements in it, and one where it ends.       *)
(* Beside the symbol table stand the scopes of the C that is emitted, in   *)
(* which the C compiler will look names up.                                *)
(*                                                                         *)
(* A definition that no action uses, just above one of similar name, is a  *)
(* slip the code might have made there: the properties are tested on it.   *)
(***************************************************************************)
EXTENDS Integers, Sequences, FiniteSets
LOCAL INSTANCE SequencesExt

CONSTANTS
  Name,       \* the names that variables and parameters can have
  NoName,     \* the parameter of a function that has none
  MaxTokens   \* bound: the tokens of a program

ASSUME ConstantsOK == NoName \notin Name /\ MaxTokens \in Nat

\* int, a type that is a pointer (string, which is char *), and the program's one struct T
VarType == {"int", "string", "T"}
isPointer(ty) == ty = "string"

(***************************************************************************)
(* The tokens: the declaration of T; a variable; a function, whose block   *)
(* only the second pass visits (as that of a virtual method); a method or  *)
(* constructor, whose block both visit; a use of a variable; a block; an   *)
(* if or while with a block, or with a variable declaration in its place;  *)
(* a for with a variable and a block; the end of the last block opened.    *)
(***************************************************************************)
Token ==
       [t : {"struct", "block", "if", "end"}]
  \cup [t : {"var", "ifvar", "for"}, x : Name, ty : VarType]
  \cup [t : {"func", "method"}, x : Name, ty : VarType]
  \cup [t : {"func", "method"}, x : {NoName}, ty : {"int"}]
  \cup [t : {"use"}, x : Name]

Opens(tok) == tok.t \in {"func", "method", "block", "if", "for"}
Ends(tok) == tok.t = "end"

VARIABLES
  program,       \* the program
  pc,            \* what happens to it: being written, or a pass of visitProgram
  pos,           \* the token that is visited next
  scopes,        \* SymbolTable: the symbols of each open scope, with their types
  currentFunc,   \* SymbolTable: the function being visited
  globalVars,    \* SymbolTable: the globals that main registers as roots
  m_structs,     \* TypeSystem: T, once it is registered
  output,        \* the tokens emitted, in order
  cscopes        \* the scopes of the emitted C: globals, parameters, blocks

vars == <<program, pc, pos, scopes, currentFunc, globalVars, m_structs, output, cscopes>>

NoFunc == [x |-> NoName, ty |-> "int"]
Empty == [x \in {} |-> "int"]

-----------------------------------------------------------------------------
(* The shape of the program. *)

\* The number of blocks open before position p.
Depth(p) == Cardinality({q \in 1..(p - 1) : Opens(program[q])})
            - Cardinality({q \in 1..(p - 1) : Ends(program[q])})

\* The end of the block opened at p.
EndOf(p) == CHOOSE q \in (p + 1)..Len(program) :
              Depth(q + 1) = Depth(p) /\ \A r \in (p + 1)..(q - 1) : Depth(r + 1) > Depth(p)

\* Position p lies in the block of a token of kind t, or is that token.
Within(p, t) == \E q \in 1..p : program[q].t = t /\ p <= EndOf(q)

\* The positions before p in a block that is still open at p.
Known(p) == {q \in 1..(p - 1) : \A r \in q..p : Depth(r) >= Depth(q)}

TopLevel == {"struct", "func", "method"}

\* The program is written token by token.
Write(tok) ==
  LET depth == Depth(Len(program) + 1)
      left == MaxTokens - Len(program) - depth      \* tokens beside the ends still due
  IN  /\ pc = "write"
      /\ left >= (IF Opens(tok) THEN 2 ELSE IF Ends(tok) THEN 0 ELSE 1)
      /\ IF depth = 0 THEN tok.t \in TopLevel \cup {"var"} ELSE tok.t \notin TopLevel
      /\ tok.t = "struct" => \A q \in DOMAIN program : program[q].t # "struct"
      /\ program' = Append(program, tok)
      /\ UNCHANGED <<pc, pos, scopes, currentFunc, globalVars, m_structs, output, cscopes>>

-----------------------------------------------------------------------------
(* SymbolTable. *)

Top(stack) == stack[Len(stack)]
With(scope, x, ty) == [y \in DOMAIN scope \cup {x} |-> IF y = x THEN ty ELSE scope[y]]
Declare(stack, x, ty) == [stack EXCEPT ![Len(stack)] = With(@, x, ty)]

addSymbolGlobally(x, ty) == [scopes EXCEPT ![1] = With(@, x, ty)]

addSymbol(x, ty) == Declare(scopes, x, ty)

\* The type that x has in the innermost scope that knows it.
InScopes(stack, x) ==
  LET known == {n \in DOMAIN stack : x \in DOMAIN stack[n]}
  IN  IF known = {} THEN "none"
      ELSE stack[CHOOSE n \in known : \A m \in known : m <= n][x]

lookupSymbolOutermost(x) ==
  LET known == {n \in DOMAIN scopes : x \in DOMAIN scopes[n]}
  IN  IF known # {} THEN scopes[CHOOSE n \in known : \A m \in known : n <= m][x]
      ELSE IF currentFunc.x = x THEN currentFunc.ty ELSE "none"

\* SymbolTable::lookupSymbol: the scopes, the global one included, then the parameters.
lookupSymbol(x) ==
  IF InScopes(scopes, x) = "none" /\ currentFunc.x = x THEN currentFunc.ty
  ELSE InScopes(scopes, x)

\* resolveTypeFromContext throws: T has not been registered.
UnresolvedNever(ty) == FALSE

Unresolved(ty) == ty = "T" /\ "T" \notin m_structs

-----------------------------------------------------------------------------
Init ==
  /\ program = << >> /\ pc = "write" /\ pos = 1
  /\ scopes = << Empty >> /\ currentFunc = NoFunc /\ globalVars = << >>
  /\ m_structs = {} /\ output = << >>
  /\ cscopes = << Empty >>

First == pc = "first"
tok == program[pos]
At(kinds) == pc \in {"first", "second"} /\ pos <= Len(program) /\ tok.t \in kinds

enterScope(stack) == Append(stack, Empty)

exitScopeSecond == IF First THEN scopes ELSE Front(scopes)

exitScope == Front(scopes)

\* What a visitor writes to m_output in the second pass.
EmitBoth == output' = Append(output, pos)

Emit == output' = IF First THEN output ELSE Append(output, pos)

Throw == pc' = "error" /\ UNCHANGED <<pos, scopes, currentFunc, globalVars, m_structs, output, cscopes>>

\* visitProgram: the first pass starts, the second, and main is emitted.
StartFirstPass ==
  /\ pc = "write" /\ program # << >> /\ Depth(Len(program) + 1) = 0
  /\ pc' = "first"
  /\ UNCHANGED <<program, pos, scopes, currentFunc, globalVars, m_structs, output, cscopes>>

StartSecondPass ==
  /\ First /\ pos > Len(program)
  /\ pc' = "second" /\ pos' = 1
  /\ UNCHANGED <<program, scopes, currentFunc, globalVars, m_structs, output, cscopes>>

EmitMain ==
  /\ pc = "second" /\ pos > Len(program)
  /\ pc' = "done"
  /\ UNCHANGED <<program, pos, scopes, currentFunc, globalVars, m_structs, output, cscopes>>

visitStructDecl ==
  /\ At({"struct"})
  /\ m_structs' = m_structs \cup {"T"}
  /\ Emit /\ pos' = pos + 1
  /\ UNCHANGED <<program, pc, scopes, currentFunc, globalVars, cscopes>>

\* A variable that main is to register as a root.
NewRootTwice == Len(scopes) = 1 /\ isPointer(tok.ty)

NewRoot == Len(scopes) = 1 /\ isPointer(tok.ty) /\ First

visitVarDecl ==
  /\ At({"var"})
  /\ IF Unresolved(tok.ty) THEN Throw
     ELSE /\ globalVars' = IF NewRoot THEN Append(globalVars, tok.x) ELSE globalVars
          /\ scopes' = addSymbol(tok.x, tok.ty)
          /\ cscopes' = IF First THEN cscopes ELSE Declare(cscopes, tok.x, tok.ty)
          /\ Emit /\ pos' = pos + 1
          /\ UNCHANGED <<pc, currentFunc, m_structs>>
  /\ UNCHANGED program

\* visitFunctionDecl, and visitClassDecl on a method or constructor: the parameter's type is
\* resolved and the block is entered, except by the first pass in a function.
visitFunction ==
  /\ At({"func", "method"})
  /\ IF tok.x # NoName /\ Unresolved(tok.ty) THEN Throw
     ELSE /\ IF First /\ tok.t = "func"
               THEN pos' = EndOf(pos) + 1 /\ UNCHANGED <<scopes, currentFunc>>
               ELSE /\ pos' = pos + 1
                    /\ currentFunc' = [x |-> tok.x, ty |-> tok.ty]
                    /\ scopes' = enterScope(scopes)
          /\ cscopes' = IF First THEN cscopes
                        ELSE cscopes \o << IF tok.x = NoName THEN Empty ELSE With(Empty, tok.x, tok.ty), Empty >>
          /\ Emit
          /\ UNCHANGED <<pc, globalVars, m_structs>>
  /\ UNCHANGED program

\* A block, and visitIfStmt or visitWhileStmt with one, which the first pass does not visit.
EnterBlock ==
  /\ At({"block", "if"})
  /\ IF First /\ tok.t = "if" THEN pos' = EndOf(pos) + 1 /\ UNCHANGED scopes
     ELSE pos' = pos + 1 /\ scopes' = enterScope(scopes)
  /\ cscopes' = IF First THEN cscopes ELSE Append(cscopes, Empty)
  /\ Emit
  /\ UNCHANGED <<program, pc, currentFunc, globalVars, m_structs>>

\* The same with a declaration in place of the block: C puts it in braces of its own.
visitIfStmtVar ==
  /\ At({"ifvar"})
  /\ IF ~First /\ Unresolved(tok.ty) THEN Throw
     ELSE /\ scopes' = IF First THEN scopes ELSE addSymbol(tok.x, tok.ty)
          /\ Emit /\ pos' = pos + 1
          /\ UNCHANGED <<pc, currentFunc, globalVars, m_structs, cscopes>>
  /\ UNCHANGED program

\* visitForStmt returns at once in the second pass; in the first it writes the loop's head.
visitForStmt ==
  /\ At({"for"})
  /\ IF First /\ Unresolved(tok.ty) THEN Throw
     ELSE /\ IF First THEN /\ output' = Append(output, pos) /\ pos' = pos + 1
                           /\ scopes' = enterScope(addSymbol(tok.x, tok.ty))
                      ELSE pos' = EndOf(pos) + 1 /\ UNCHANGED <<output, scopes>>
          /\ UNCHANGED <<pc, currentFunc, globalVars, m_structs, cscopes>>
  /\ UNCHANGED program

\* An expression statement.
visitExprStmt ==
  /\ At({"use"})
  /\ Emit /\ pos' = pos + 1
  /\ UNCHANGED <<program, pc, scopes, currentFunc, globalVars, m_structs, cscopes>>

\* The end of visitBlock and, for the outermost block, of the function.
ExitBlock ==
  LET outermost == Depth(pos + 1) = 0
  IN  /\ At({"end"})
      /\ scopes' = exitScope
      /\ currentFunc' = IF outermost THEN NoFunc ELSE currentFunc
      /\ cscopes' = IF First THEN cscopes ELSE IF outermost THEN << Head(cscopes) >> ELSE Front(cscopes)
      /\ Emit /\ pos' = pos + 1
      /\ UNCHANGED <<program, pc, globalVars, m_structs>>

Stopped == pc \in {"done", "error"} /\ UNCHANGED vars

Next ==
  \/ \E next \in Token : Write(next)
  \/ StartFirstPass \/ StartSecondPass \/ EmitMain
  \/ visitStructDecl \/ visitVarDecl \/ visitFunction
  \/ EnterBlock \/ visitIfStmtVar \/ visitForStmt \/ visitExprStmt \/ ExitBlock
  \/ Stopped

Spec == Init /\ [][Next]_vars

-----------------------------------------------------------------------------
(* Properties. *)

\* In both passes the symbol table has one scope for each block open around the token that
\* is visited, and knows a current function just inside of functions (visitBlock,
\* visitFunctionDecl, visitClassDecl).
ScopesMirrorBlocks ==
  pc \in {"first", "second"} =>
    /\ Len(scopes) = 1 + Depth(pos)
    /\ (Depth(pos) = 0) => (currentFunc = NoFunc)

\* A use of a variable finds the declaration that it has in the emitted C, although the
\* global scope has kept every global of the first pass.  Two exceptions: a parameter with
\* the name of a global, which SymbolTable::lookupSymbol asks last; and a declaration that
\* is the whole body of an if or while, which stays known after it.
LookupAsInC ==
  pc = "second" /\ pos <= Len(program) /\ tok.t = "use" =>
    LET inC == InScopes(cscopes, tok.x)
    IN  \/ inC \in {"none", lookupSymbol(tok.x)}
        \/ currentFunc.x = tok.x /\ tok.x \in DOMAIN scopes[1]
        \/ \E q \in Known(pos) : program[q].t = "ifvar" /\ program[q].x = tok.x

\* The pointers that the end of a block decrements are the ones its C block declares (other
\* than in an if or while without braces): no decrement names a variable that is out of
\* scope or belongs to another block (visitBlock, getCurrentScopeSymbols).
DecrementsOwn ==
  pc = "second" /\ pos <= Len(program) /\ tok.t = "end" =>
    \/ Top(scopes) = Top(cscopes)
    \/ \E q \in Known(pos) : program[q].t = "ifvar" /\ Depth(q) = Depth(pos)

\* Everything but for loops is emitted exactly once and in the order of the source, whether
\* one or both passes visit it.  Of a for loop, the second pass emits nothing.
EmittedOnce ==
  pc = "done" =>
    LET outside(p) == ~Within(p, "for")
    IN  SelectSeq(output, outside) = SelectSeq([p \in 1..Len(program) |-> p], outside)

\* main registers every global pointer once, in the order of declaration, although both
\* passes visit the declaration and the first also visits the pointers of methods
\* (visitVarDecl, visitProgram).
RootsAreGlobals ==
  pc = "done" =>
    LET Root(p) == program[p].t = "var" /\ isPointer(program[p].ty) /\ Depth(p) = 0
        roots == SelectSeq([p \in 1..Len(program) |-> p], Root)
    IN  globalVars = [n \in DOMAIN roots |-> program[roots[n]].x]

\* A struct is emitted before every variable of its type, other than those in the blocks of
\* functions and of an if or while: what the first pass resolves it resolves in the order of
\* emission.  (Parameters of struct type are not in the model.)
TypesEmittedFirst ==
  \A n \in DOMAIN output :
    LET p == output[n]
    IN  program[p].t = "var" /\ program[p].ty = "T" /\ ~Within(p, "func") /\ ~Within(p, "if") =>
          \E m \in 1..(n - 1) : program[output[m]].t = "struct"

=============================================================================
