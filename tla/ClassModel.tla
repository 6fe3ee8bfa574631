------------------------------ MODULE ClassModel ------------------------------
(***************************************************************************)
(* Classes: how the transpiler visits class declarations in its two        *)
(* passes (TranspilerVisitor::visitClassDecl), what it keeps about them    *)
(* (TypeSystem), the structs, constructors and vtables it emits, and the   *)
(* method body or field that an expression of the program then reaches.    *)
(*                                                                         *)
(* Names are compared and cut at underscores by the code, so a name is the *)
(* sequence of its words: Big_Dog is <<"Big", "Dog">>, the C function for  *)
(* its method speak is <<"Big", "Dog", "speak">>, and the empty string is  *)
(* the empty sequence.                                                     *)
(*                                                                         *)
(* A definition that no action uses, just above one of similar name, is a  *)
(* slip the code might have made there: the properties are tested on it.   *)
(***************************************************************************)
EXTENDS Integers, Sequences, FiniteSets

CONSTANTS
  NameLists,  \* the names a program can give its classes, in the order of declaration
  Method,     \* the names that methods can have
  Field,      \* the names that fields can have
  Features    \* which of the programs listed in AllFeatures are written

AllFeatures == {"self",     \* class A : A
                "mention",  \* a method whose body contains the word virtual
                "unchained",\* a constructor that does not call its parent's
                "bare",     \* new A in place of new A()
                "noctor",   \* a class without constructor
                "noargs",   \* a constructor that calls its parent's without arguments
                "array",    \* a field that is an array
                "variable"} \* x->f where the class of x has virtual methods

NoName == << >>

ASSUME ConstantsOK ==
  /\ \A list \in NameLists : \A n \in DOMAIN list : list[n] # NoName
  /\ Method \cap Field = {}
  /\ Features \subseteq AllFeatures

VARIABLES
  names,                \* the name of each class declaration; a name can come twice
  program,              \* the declarations written so far
  pc,                   \* where the transpiler, or the compiled program, is
  k,                    \* the declaration to visit next
  m_classes,            \* TypeSystem: parent and fields of each class
  m_classMethods,       \* TypeSystem: the methods of each class
  m_classConstructors,  \* TypeSystem: the classes with a constructor
  vtables,              \* emitted: struct vtable, the prototypes, the instances
  structs, ctors,       \* emitted: the struct and constructor of each class
  functions,            \* emitted: the methods
  obj,                  \* the object of the running program
  this, static,         \* constructor being run; static type of main's variable
  reached               \* what the last call or access reached

tables == <<m_classes, m_classMethods, m_classConstructors>>
emitted == <<vtables, structs, ctors, functions>>
running == <<obj, this, static, reached>>
vars == <<names, program, pc, k, tables, emitted, running>>

Has(feature) == feature \in Features

Class == {names[n] : n \in DOMAIN names}

-----------------------------------------------------------------------------
(***************************************************************************)
(* TypeSystem.  Operators take the tables they read, as a declaration is   *)
(* visited with the tables it has just changed.                            *)
(***************************************************************************)
baseName(name) == Tail(name)           \* what follows the first underscore

hasParent(classes, c) == classes[c].parent # NoName

\* The classes that a loop over parents meets from c on.  It stops where there is no
\* parent, and here also after one step more than there are classes.
Chain(classes, c) ==
  LET up[n \in 0..Cardinality(DOMAIN classes)] ==
        IF n = 0 THEN << c >>
        ELSE LET below == up[n - 1]
                 last == below[Len(below)]
             IN  IF last \in DOMAIN classes /\ hasParent(classes, last)
                   THEN Append(below, classes[last].parent) ELSE below
  IN  up[Cardinality(DOMAIN classes)]

\* The loop never ends.
Loops(classes, c) ==
  LET chain == Chain(classes, c)
  IN  Len(chain) > Cardinality(DOMAIN classes) /\ chain[Len(chain)] \in DOMAIN classes

getClassMethods(methods, c) == IF c \in DOMAIN methods THEN methods[c] ELSE {}

getVirtualMethods(methods, c) == {f.name : f \in {f \in getClassMethods(methods, c) : f.isVirtual}}

hasVirtualMethods(methods, c) == getVirtualMethods(methods, c) # {}

getAllVirtualMethods(classes, methods, c) ==
  LET chain == Chain(classes, c)
  IN  UNION {getVirtualMethods(methods, chain[n]) : n \in DOMAIN chain}

\* The first class from c upwards that satisfies P; NoName if there is none.
Nearest(classes, c, P(_)) ==
  LET chain == Chain(classes, c)
      hits == {n \in DOMAIN chain : P(chain[n])}
  IN  IF hits = {} THEN NoName
      ELSE chain[CHOOSE n \in hits : \A other \in hits : n <= other]

findMethodImplementation(c, base) ==
  LET Declares(d) == \E f \in getClassMethods(m_classMethods, d) : baseName(f.name) = base
      d == Nearest(m_classes, c, Declares)
  IN  IF d = NoName THEN c \o base
      ELSE (CHOOSE f \in m_classMethods[d] : baseName(f.name) = base).name

isSubclassOf(child, parent) ==
  LET chain == Chain(m_classes, child)
  IN  \E n \in DOMAIN chain : n > 1 /\ chain[n] = parent

\* struct vtable: one entry for each virtual method of any class.
generateVTableStruct ==
  {baseName(name) : name \in UNION {getAllVirtualMethods(m_classes, m_classMethods, c) : c \in DOMAIN m_classes}}

\* The vtable of c, as a function from its entries to C functions.
generateVTableInstanceOwn(c) ==
  [base \in {baseName(name) : name \in getAllVirtualMethods(m_classes, m_classMethods, c)} |-> c \o base]

generateVTableInstance(c) ==
  [base \in {baseName(name) : name \in getAllVirtualMethods(m_classes, m_classMethods, c)} |->
     findMethodImplementation(c, base)]

-----------------------------------------------------------------------------
(***************************************************************************)
(* The visitor on a class declaration.                                     *)
(***************************************************************************)
Kinds == {"plain", "virtual"} \cup (IF Has("mention") THEN {"mention"} ELSE {})
FieldKinds == {"plain"} \cup (IF Has("array") THEN {"array"} ELSE {})

\* What the k-th declaration can be: `class names[k] : parent { fields methods constructor }'.
\* A constructor calls that of the class's parent, if at all, and only if there is one.
Declaration ==
  {d \in [parent  : Class \cup {NoName},
         fields  : UNION {[own -> FieldKinds] : own \in SUBSET Field},
         methods : UNION {[own -> Kinds] : own \in SUBSET Method},
         ctor    : {"none", "plain", "chained", "noargs"}] :
     /\ d.parent = names[k] => Has("self")
     /\ d.ctor = "none" => Has("noctor")
     /\ d.ctor = "noargs" => Has("noargs")
     /\ d.ctor = "plain" => d.parent = NoName \/ Has("unchained")
     /\ d.ctor \in {"chained", "noargs"} =>
          d.parent \notin {NoName} \cup (DOMAIN m_classes \ m_classConstructors)}

\* f extended, or changed, at c.
With(f, c, v) == [x \in DOMAIN f \cup {c} |-> IF x = c THEN v ELSE f[x]]

\* TranspilerVisitor::getClassFromCode: the class table once the k-th declaration is read.
\* The first pass registers the class anew, so a class that is declared again starts without
\* a parent; the second keeps the parent of the table where the declaration has none.
getClassFromCode(d) ==
  With(m_classes, names[k],
       [parent |-> IF pc = "second" /\ d.parent = NoName THEN m_classes[names[k]].parent ELSE d.parent,
        members |-> d.fields])

\* setClassParent throws: no class of that name has been registered.
ParentUnknownNever(d) == FALSE

ParentUnknown(d) == d.parent \notin DOMAIN m_classes \cup {NoName, names[k]}

\* The word virtual is looked for in the whole text of the method.  The parent asked for its
\* virtual methods is that of the table.
isVirtualSecond(classes, d, m) ==
  \/ d.methods[m] \in {"virtual", "mention"}
  \/ /\ pc = "second" /\ hasParent(classes, names[k])
     /\ \E name \in getAllVirtualMethods(classes, m_classMethods, classes[names[k]].parent) : baseName(name) = m

isVirtual(classes, d, m) ==
  \/ d.methods[m] \in {"virtual", "mention"}
  \/ /\ hasParent(classes, names[k])
     /\ \E name \in getAllVirtualMethods(classes, m_classMethods, classes[names[k]].parent) : baseName(name) = m

methodsFromCode(classes, d) ==
  {[name |-> names[k] \o m, isVirtual |-> isVirtual(classes, d, m)] : m \in DOMAIN d.methods}

\* Asking which methods the parent makes virtual never ends.
Stuck(classes, d) ==
  /\ hasParent(classes, names[k]) /\ Loops(classes, classes[names[k]].parent)
  /\ \E m \in DOMAIN d.methods : d.methods[m] = "plain"

Init ==
  /\ names \in NameLists
  /\ program = << >> /\ pc = "first" /\ k = 1
  /\ m_classes = << >> /\ m_classMethods = << >> /\ m_classConstructors = {}
  /\ vtables = [members |-> {}, prototypes |-> {}, instances |-> << >>]
  /\ structs = << >> /\ ctors = << >> /\ functions = {}
  /\ obj = [class |-> NoName, made |-> FALSE, vtable |-> NoName, todo |-> << >>]
  /\ this = NoName /\ static = NoName
  /\ reached = [member |-> NoName, name |-> NoName]

\* visitClassDecl in the first pass, on a declaration d written there.  registerClassMethod
\* adds to the methods that an earlier class of the same name has left.
FirstVisit(d) ==
  LET classes == getClassFromCode(d)
  IN  /\ pc = "first" /\ k <= Len(names)
      /\ program' = Append(program, d)
      /\ IF ParentUnknown(d) THEN pc' = "error" /\ UNCHANGED <<k, tables>>
         ELSE IF Stuck(classes, d) THEN pc' = "hang" /\ UNCHANGED <<k, tables>>
         ELSE /\ k' = k + 1
              /\ m_classes' = classes
              /\ m_classMethods' =
                   With(m_classMethods, names[k],
                        getClassMethods(m_classMethods, names[k]) \cup methodsFromCode(classes, d))
              /\ m_classConstructors' =
                   m_classConstructors \cup (IF d.ctor = "none" THEN {} ELSE {names[k]})
              /\ pc' = pc
      /\ UNCHANGED <<names, emitted, running>>

\* visitProgram between the passes: struct vtable, the prototypes of the virtual methods and
\* the vtable of each class that has some.
EmitVTables ==
  LET Virtuals(c) == getAllVirtualMethods(m_classes, m_classMethods, c)
  IN  /\ pc = "first" /\ k > Len(names)
      /\ IF \E c \in DOMAIN m_classes : Loops(m_classes, c)
           THEN pc' = "hang" /\ UNCHANGED <<k, vtables>>
           ELSE /\ pc' = "second" /\ k' = 1
                /\ vtables' = [members |-> generateVTableStruct,
                               prototypes |-> UNION {Virtuals(c) : c \in DOMAIN m_classes},
                               instances |-> [c \in {c \in DOMAIN m_classes : Virtuals(c) # {}} |->
                                                generateVTableInstance(c)]]
      /\ UNCHANGED <<names, program, tables, structs, ctors, functions, running>>

\* Where the constructor of c stores the address of its vtable.
vtableStoreOwn(classes, c) ==
  IF getVirtualMethods(m_classMethods, c) = {} THEN "none"
  ELSE IF hasParent(classes, c) THEN "parent" ELSE "own"

vtableStore(classes, c) ==
  IF getAllVirtualMethods(classes, m_classMethods, c) = {} THEN "none"
  ELSE IF hasParent(classes, c) THEN "parent" ELSE "own"

\* visitClassDecl in the second pass.  generateParentConstructorCall reads the list of
\* arguments, which is null where there are none.  The order of the members is left open.
SecondVisit ==
  LET c == names[k]
      d == program[k]
      classes == getClassFromCode(d)
      parent == classes[c].parent
      Fails(how) == /\ pc' = how
                    /\ UNCHANGED <<names, program, k, tables, emitted, running>>
  IN  /\ pc = "second" /\ k <= Len(names)
      /\ \/ d.ctor = "noargs" /\ Fails("crashed")
         \/ /\ Stuck(classes, d) \/ (d.ctor \in {"plain", "chained"} /\ Loops(classes, c))
            /\ Fails("hang")
         \/ /\ ~Stuck(classes, d) /\ d.ctor # "noargs" /\ (d.ctor = "none" \/ ~Loops(classes, c))
            /\ m_classes' = classes
            /\ structs' = With(structs, c,
                 [parent |-> parent, fields |-> d.fields,
                  vtable |-> parent = NoName /\ hasVirtualMethods(m_classMethods, c)])
            /\ ctors' = IF d.ctor = "none" THEN ctors
                        ELSE With(ctors, c, [calls |-> IF d.ctor = "chained" THEN d.parent ELSE NoName,
                                             store |-> vtableStore(classes, c)])
            /\ functions' = functions \cup methodsFromCode(classes, d)
            /\ k' = k + 1
            /\ UNCHANGED <<names, program, pc, m_classMethods, m_classConstructors, vtables, running>>

-----------------------------------------------------------------------------
(***************************************************************************)
(* The C compiler on what was emitted.                                     *)
(***************************************************************************)
\* `x->vtable' or `x->parent.vtable' names a member, for x of static type c.
VTableReached(c) == IF structs[c].parent = NoName THEN structs[c].vtable
                    ELSE structs[structs[c].parent].vtable

\* A struct may be defined once.  A field that is an array comes out as `int a[2] a;'.
Compiles ==
  /\ Cardinality(DOMAIN structs) = Len(program)
  /\ \A c \in DOMAIN structs : \A f \in DOMAIN structs[c].fields : structs[c].fields[f] = "plain"
  /\ \A c \in DOMAIN ctors :
       /\ ctors[c].calls # NoName => ctors[c].calls \in DOMAIN ctors
       /\ ctors[c].store # "none" => VTableReached(c)
  /\ \A c \in DOMAIN vtables.instances : \A base \in DOMAIN vtables.instances[c] :
       base \in vtables.members /\ vtables.instances[c][base] \in vtables.prototypes
  /\ \A f \in functions : f.isVirtual <=> f.name \in vtables.prototypes

Compile ==
  /\ pc = "second" /\ k > Len(names)
  /\ pc' = IF Compiles THEN "run" ELSE "rejected"
  /\ UNCHANGED <<names, program, k, tables, emitted, running>>

-----------------------------------------------------------------------------
(***************************************************************************)
(* Expressions of the program.  Each is translated (and compiled) when     *)
(* control reaches it.  The program has one object and, outside of         *)
(* constructors, one variable that points to it.                           *)
(***************************************************************************)
Nothing == [member |-> NoName, name |-> NoName]

\* The classes whose constructors run for new c, in the order in which they store their
\* vtable: a constructor first calls its parent's.
constructionOrderOwnFirst(c) ==
  LET chain == Chain(m_classes, c)
      last == CHOOSE n \in DOMAIN chain :
                /\ ctors[chain[n]].calls = NoName
                /\ \A below \in 1..(n - 1) : ctors[chain[below]].calls # NoName
  IN  SubSeq(chain, 1, last)

constructionOrder(c) ==
  LET chain == Chain(m_classes, c)
      last == CHOOSE n \in DOMAIN chain :
                /\ ctors[chain[n]].calls = NoName
                /\ \A below \in 1..(n - 1) : ctors[chain[below]].calls # NoName
  IN  [n \in 1..last |-> chain[last + 1 - n]]

\* C * x = new C(..): visitNewWithConstructorExpr.
NewWithConstructor(c) ==
  /\ pc = "run" /\ obj.class = NoName
  /\ IF c \in m_classConstructors
       THEN /\ obj' = [class |-> c, made |-> TRUE, vtable |-> NoName, todo |-> constructionOrder(c)]
            /\ static' = c /\ pc' = pc
       ELSE pc' = "error" /\ UNCHANGED <<obj, static>>
  /\ UNCHANGED <<names, program, k, tables, emitted, this, reached>>

\* C * x = new C: visitNewExpr.  The memory is not initialised.
NewBare(c) ==
  /\ Has("bare") /\ pc = "run" /\ obj.class = NoName
  /\ obj' = [class |-> c, made |-> FALSE, vtable |-> NoName, todo |-> << >>]
  /\ static' = c
  /\ UNCHANGED <<names, program, pc, k, tables, emitted, this, reached>>

\* The next constructor stores its vtable and its body starts.
RunConstructor ==
  /\ pc = "run" /\ obj.todo # << >>
  /\ this' = Head(obj.todo)
  /\ obj' = [obj EXCEPT !.todo = Tail(@), !.vtable = IF ctors[this'].store = "none" THEN @ ELSE this']
  /\ reached' = Nothing
  /\ UNCHANGED <<names, program, pc, k, tables, emitted, static>>

EndConstructor ==
  /\ pc = "run" /\ obj.todo = << >> /\ this # NoName
  /\ this' = NoName /\ reached' = Nothing
  /\ UNCHANGED <<names, program, pc, k, tables, emitted, obj, static>>

\* T * y = x: TypeSystem::isCompatible has the value cast when T is an ancestor.
Upcast(T) ==
  /\ pc = "run" /\ this = NoName /\ obj.class # NoName /\ obj.todo = << >>
  /\ isSubclassOf(static, T)
  /\ static' = T /\ reached' = Nothing
  /\ UNCHANGED <<names, program, pc, k, tables, emitted, obj, this>>

\* An expression x-> or this-> is evaluated.
InBody == pc = "run" /\ (this = NoName => obj.class # NoName /\ obj.todo = << >>)
Receiver == IF this = NoName THEN static ELSE this
Dynamic  == IF this = NoName THEN obj.class ELSE this

\* visitMethodCallExpr, x->m().
MethodCall(m) ==
  LET c == Receiver
      Declares(d) == \E f \in getClassMethods(m_classMethods, d) : f.name = d \o m
      owner == Nearest(m_classes, c, Declares)
      virtual == [name |-> owner \o m, isVirtual |-> TRUE] \in m_classMethods[owner]
  IN  /\ InBody
      /\ IF owner = NoName THEN pc' = "error" /\ reached' = Nothing
         ELSE IF ~virtual THEN pc' = pc /\ reached' = [member |-> m, name |-> owner \o m]
         ELSE IF ~VTableReached(c) \/ m \notin vtables.members
           THEN pc' = "rejected" /\ reached' = Nothing
         ELSE IF obj.vtable = NoName \/ m \notin DOMAIN vtables.instances[obj.vtable]
           THEN pc' = "undefined" /\ reached' = Nothing
         ELSE pc' = pc /\ reached' = [member |-> m, name |-> vtables.instances[obj.vtable][m]]
      /\ UNCHANGED <<names, program, k, tables, emitted, obj, this, static>>

\* Where the C looks for the field f: `this->f' or `this->parent.f'.  With neither the field
\* nor a parent in c it throws, and the caller writes the former.
resolveFieldAccess(f, c) ==
  IF f \notin DOMAIN m_classes[c].members /\ hasParent(m_classes, c) THEN "parent" ELSE "own"

\* visitPointerMemberExpr, x->f or this->f where the class of x has the field f.  The class
\* of `this' is what stands before the first underscore of the function's name.
FieldAccess(f) ==
  LET written == << Head(this) >>
      byName == /\ this # NoName /\ written \in DOMAIN m_classes
                /\ f \in DOMAIN m_classes[written].members \/ hasParent(m_classes, written)
      c == IF byName THEN written ELSE Receiver
      holder == IF resolveFieldAccess(f, c) = "own" THEN Receiver ELSE structs[Receiver].parent
      chain == Chain(m_classes, Receiver)
  IN  /\ InBody
      /\ \E n \in DOMAIN chain : f \in DOMAIN m_classes[chain[n]].members
      /\ IF ~byName /\ hasVirtualMethods(m_classMethods, c)
           THEN /\ Has("variable")      \* VIRTUAL_CALL:f:x, two labels and the variable x
                /\ pc' = pc /\ reached' = [member |-> f, name |-> << "x" >>]
           ELSE IF holder = NoName \/ f \notin DOMAIN structs[holder].fields
             THEN pc' = "rejected" /\ reached' = Nothing
           ELSE pc' = pc /\ reached' = [member |-> f, name |-> holder \o f]
      /\ UNCHANGED <<names, program, k, tables, emitted, obj, this, static>>

Stopped == pc \in {"error", "hang", "crashed", "rejected", "undefined"} /\ UNCHANGED vars

Next ==
  \/ k \in DOMAIN names /\ \E d \in Declaration : FirstVisit(d)
  \/ EmitVTables \/ SecondVisit \/ Compile
  \/ \E c \in Class : NewWithConstructor(c) \/ NewBare(c) \/ Upcast(c)
  \/ RunConstructor \/ EndConstructor
  \/ \E m \in Method : MethodCall(m)
  \/ \E f \in Field : FieldAccess(f)
  \/ Stopped

Spec == Init /\ [][Next]_vars

-----------------------------------------------------------------------------
(***************************************************************************)
(* What the declarations mean, read off the program itself.  These are     *)
(* only asked of programs that run, whose parents are declared earlier.    *)
(***************************************************************************)
IndexOf(c) == CHOOSE n \in DOMAIN names : names[n] = c

\* The nearest class from c upwards whose declaration satisfies P.
Owner(c, P(_)) ==
  LET up[n \in DOMAIN program] ==
        IF P(program[n]) THEN names[n]
        ELSE IF program[n].parent = NoName THEN NoName ELSE up[IndexOf(program[n].parent)]
  IN  up[IndexOf(c)]

\* The class whose body a call of m means, through a variable of class s, on an object of
\* class d: that of the object if m is virtual in s or above, otherwise that of the variable.
Dispatch(s, d, m) ==
  LET Declares(decl) == m \in DOMAIN decl.methods
      DeclaresVirtual(decl) == Declares(decl) /\ decl.methods[m] = "virtual"
  IN  Owner(IF Owner(s, DeclaresVirtual) # NoName THEN d ELSE s, Declares)

-----------------------------------------------------------------------------
(* Properties. *)

\* A call of a method, or an access to a field, reaches the body or the field that the
\* declarations mean: a virtual method that of the object's class (in a constructor, of the
\* class being constructed), any other method and every field that of the nearest class from
\* the static one upwards (visitMethodCallExpr, visitPointerMemberExpr, the vtables and the
\* stores of their addresses in the constructors).
ReachesMeant ==
  reached # Nothing =>
    LET member == reached.member
        HasField(decl) == member \in DOMAIN decl.fields
    IN  reached.name = (IF member \in Method THEN Dispatch(Receiver, Dynamic, member)
                                             ELSE Owner(Receiver, HasField)) \o member

\* No call goes through a missing vtable or an empty vtable entry, for an object made by its
\* constructor, whether or not constructors call their parent's (visitClassDecl).
VTableComplete ==
  pc = "undefined" => ~obj.made

\* A class is declared twice: registerClass resets its entry without complaint.
Redeclared == \E m, n \in DOMAIN names : m < n /\ names[m] = names[n]

\* The C compiler rejects the emitted classes, or an access to a member that exists, only
\* for one of these reasons: a class has a grandparent, or is the first in its hierarchy with
\* a virtual method without being the root (the paths `parent.vtable' and `parent.f' in
\* visitClassDecl, visitMethodCallExpr and resolveFieldAccess go up one level only); a class
\* is declared twice; a field is an array (Type::toString repeats its name); the name of a
\* class has an underscore.
RejectsExplained ==
  pc = "rejected" =>
    \/ Redeclared
    \/ \E n \in DOMAIN program : \E f \in DOMAIN program[n].fields : program[n].fields[f] = "array"
    \/ \E c \in DOMAIN m_classes :
         LET parent == m_classes[c].parent
         IN  \/ Len(c) > 1
             \/ /\ parent # NoName
                /\ \/ hasParent(m_classes, parent)
                   \/ hasVirtualMethods(m_classMethods, c) /\ ~hasVirtualMethods(m_classMethods, parent)

\* Where no class is declared twice, the second visit of a class leaves the tables as the
\* first one left them, and emits each method as it was registered, virtual or not: its
\* definition agrees with the prototype emitted between the passes.
PassesAgree ==
  [][pc = "second" /\ ~Redeclared =>
       /\ UNCHANGED tables
       /\ functions' \subseteq UNION {m_classMethods[c] : c \in DOMAIN m_classMethods}]_vars

\* The transpiler fails to terminate, in the loops over parents, only where a class is its
\* own parent, or is given a parent where it is declared again: setClassParent demands that
\* the parent be registered, and a class declared once cannot be its own ancestor otherwise.
HangsOnCyclesOnly ==
  pc = "hang" =>
    \E n \in DOMAIN program :
      /\ program[n].parent # NoName
      /\ program[n].parent = names[n] \/ \E m \in 1..(n - 1) : names[m] = names[n]

=============================================================================
