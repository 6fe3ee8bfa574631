------------------------------- MODULE Driver -------------------------------
(***************************************************************************)
(* The command line tool (src/main.cpp): it transpiles a program to C,     *)
(* builds the runtime with the allocator asked for by means of             *)
(* runtime/Makefile, and links the two.  It is invoked any number of       *)
(* times, every step can fail, and it can be killed between two steps; the *)
(* files stay.                                                             *)
(*                                                                         *)
(* The tool is run from build/, as build.sh does: the commands have paths  *)
(* relative to it, and gcc, which runs in ../build, is given the name of   *)
(* the C file just written only there.                                     *)
(*                                                                         *)
(* A definition that no action uses, just above one of similar name, is a  *)
(* slip the code might have made there: the properties are tested on it.   *)
(***************************************************************************)

CONSTANTS
  Source,   \* programs
  Endless,  \* those on which the visitor loops forever (HangsOnCyclesOnly in ClassModel)
  None,     \* a file that does not exist
  Request   \* what the tool is asked for: program, allocator, --debug

Offered == {"simple", "reference_count", "mark_sweep"}
Object == {"allocator_impl", "runtime"}   \* the object files whose code depends on the flags

ASSUME DriverConstantsOK ==
  /\ None \notin Source
  /\ Endless \subseteq Source
  /\ Request \subseteq [src : Source \cup {None}, alloc : Offered \cup {"other"}, debug : BOOLEAN]

VARIABLES
  at,       \* the next step of the tool
  req,      \* what it was asked for last
  status,   \* how the last invocation ended
  cfile,    \* the C file
  objs,     \* runtime/obj: the flags each object was compiled with
  lib,      \* runtime/lib: the same of the objects archived there
  exe       \* the executable

dvars == <<at, req, status, cfile, objs, lib, exe>>

NoObjects == [o \in Object |-> None]

DriverInit ==
  /\ at = "idle" /\ status = "none" /\ req = [src |-> None, alloc |-> "simple", debug |-> FALSE]
  /\ cfile = None /\ objs = NoObjects /\ lib = None /\ exe = None

\* return 1, with an error message.
Fail == at' = "idle" /\ status' = "failed"

\* main up to the tests of the allocator's name and of the input file.
Invoke(r) ==
  /\ at = "idle" /\ req' = r
  /\ IF r.alloc \in Offered /\ r.src # None THEN at' = "transpile" /\ status' = "running"
     ELSE Fail
  /\ UNCHANGED <<cfile, objs, lib, exe>>

useRefCountUnlessSimple == req.alloc # "simple"

useRefCount == req.alloc = "reference_count"

\* The visitor, which runs in the tool's own process, returns if ever.  It throws, the C file
\* cannot be created, or it is written.  The write itself is not tested.
Transpile ==
  /\ at = "transpile" /\ req.src \notin Endless
  /\ \/ Fail /\ UNCHANGED cfile
     \/ /\ \E whole \in BOOLEAN :
             cfile' = [src |-> req.src, counting |-> useRefCount, whole |-> whole]
        /\ at' = "clean" /\ UNCHANGED status
  /\ UNCHANGED <<req, objs, lib, exe>>

\* compileCode: make clean, which removes runtime/obj and then runtime/lib.
CleanNothing ==
  /\ at = "clean" /\ at' = "make"
  /\ UNCHANGED <<req, status, cfile, objs, lib, exe>>

Clean ==
  /\ at = "clean"
  /\ \/ Fail /\ UNCHANGED lib /\ objs' \in {objs, NoObjects}
     \/ objs' = NoObjects /\ lib' = None /\ at' = "make" /\ UNCHANGED status
  /\ UNCHANGED <<req, cfile, exe>>

\* make compiles the objects that are missing, with the flags of this invocation ...
MakeObject(o) ==
  /\ at = "make" /\ objs[o] = None
  /\ \/ Fail /\ UNCHANGED objs
     \/ objs' = [objs EXCEPT ![o] = [alloc |-> req.alloc, debug |-> req.debug]] /\ UNCHANGED <<at, status>>
  /\ UNCHANGED <<req, cfile, lib, exe>>

\* ... and archives them.
MakeLibrary ==
  /\ at = "make" /\ \A o \in Object : objs[o] # None
  /\ \/ Fail /\ UNCHANGED lib
     \/ lib' = objs /\ at' = "link" /\ UNCHANGED status
  /\ UNCHANGED <<req, cfile, objs, exe>>

\* gcc, in ../build.  It fails on an incomplete file, whose end is the function main.
LinkAgain ==
  /\ at = "link"
  /\ \/ exe' \in {exe, None} /\ UNCHANGED <<at, status>>
     \/ /\ cfile.whole
        /\ exe' = [src |-> cfile.src, counting |-> cfile.counting, objs |-> lib]
        /\ at' = "idle" /\ status' = "done"
  /\ UNCHANGED <<req, cfile, objs, lib>>

Link ==
  /\ at = "link"
  /\ \/ Fail /\ exe' \in {exe, None}
     \/ /\ cfile.whole
        /\ exe' = [src |-> cfile.src, counting |-> cfile.counting, objs |-> lib]
        /\ at' = "idle" /\ status' = "done"
  /\ UNCHANGED <<req, cfile, objs, lib>>

\* From outside, or by a crash of the visitor.
Kill ==
  /\ at # "idle" /\ at' = "idle" /\ status' = "killed"
  /\ UNCHANGED <<req, cfile, objs, lib, exe>>

DriverStep == Transpile \/ Clean \/ (\E o \in Object : MakeObject(o)) \/ MakeLibrary \/ Link

DriverNext == (\E r \in Request : Invoke(r)) \/ DriverStep \/ Kill

-----------------------------------------------------------------------------
(* Properties. *)

\* When the tool reports success, the executable is the program, the allocator and the debug
\* setting that were asked for, whatever earlier invocations left behind (compileCode,
\* runtime/Makefile).
ExeAsRequested ==
  status = "done" =>
    /\ exe.src = req.src
    /\ exe.objs = [o \in Object |-> [alloc |-> req.alloc, debug |-> req.debug]]

\* An invocation comes to an end, whichever of its steps fail, if the commands it runs do and
\* its program is not one on which the visitor loops forever (main, compileCode).
InvocationEnds == at # "idle" /\ req.src \notin Endless ~> at = "idle"

=============================================================================
