------------------------------- MODULE Runtime -------------------------------
(***************************************************************************)
(* The runtime facade (runtime/src/runtime.c), through which a compiled    *)
(* program calls the allocator it is linked with, the main function that   *)
(* TranspilerVisitor::visitProgram generates around the program's main_,   *)
(* and what a call does with each allocator, as far as the other calls can *)
(* tell: which blocks mark-sweep or reference counting free is the subject *)
(* of modules MarkSweep and RefCount, here it is any number of them.       *)
(*                                                                         *)
(* The body of main_ makes any sequence of calls, runtime_init and         *)
(* runtime_shutdown among them.                                            *)
(*                                                                         *)
(* A definition that no action uses, just above one of similar name, is a  *)
(* slip the code might have made there: the properties are tested on it.   *)
(***************************************************************************)
EXTENDS Integers

CONSTANTS
  MAX_ROOTS,   \* the length of mark-sweep's root table
  MaxHeld,     \* bound: blocks allocated and not freed
  MaxInits,    \* bound: calls of runtime_init
  Word         \* size_t counts modulo Word

Allocator == {"simple", "reference_count", "mark_sweep"}
NULL == "NULL"

ASSUME RuntimeConstantsOK == /\ {MAX_ROOTS, MaxHeld, MaxInits} \subseteq Nat
                             /\ Word \in Nat /\ Word > 2 * MaxHeld + 1

VARIABLES
  linked,             \* the allocator and the debug setting in the executable
  counting,           \* its C code makes the calls of reference counting
  proc,               \* where its main function is, or how the process ended
  current_allocator,  \* runtime.c: the table the calls go through
  stats,              \* the allocator's current_bytes and peak_bytes, in blocks
  held,               \* blocks the allocator gave out since its last init
  old,                \* blocks it gave out before that and can still free
  root_index,         \* mark-sweep: entries of the root table
  GC_THRESHOLD,       \* mark-sweep: the default, or what the program set
  inits, own          \* calls of runtime_init; main_ has called runtime_shutdown

rvars == <<linked, counting, proc, current_allocator, stats, held, old, root_index,
           GC_THRESHOLD, inits, own>>

NoProcess ==
  /\ linked = [alloc |-> "simple", debug |-> FALSE] /\ counting = FALSE
  /\ proc = "none" /\ current_allocator = NULL
  /\ stats = [current |-> 0, peak |-> 0] /\ held = 0 /\ old = 0
  /\ root_index = 0 /\ GC_THRESHOLD = "default" /\ inits = 0 /\ own = FALSE

\* A process starts: its static variables are as in the executable.
Load(alloc, debug, counts, where) ==
  /\ linked' = [alloc |-> alloc, debug |-> debug] /\ counting' = counts
  /\ proc' = where /\ current_allocator' = NULL
  /\ stats' = [current |-> 0, peak |-> 0] /\ held' = 0 /\ old' = 0
  /\ root_index' = 0 /\ GC_THRESHOLD' = "default" /\ inits' = 0 /\ own' = FALSE

-----------------------------------------------------------------------------
(* What the calls do; next is where the process goes on. *)

MoreNoPeak == [stats EXCEPT !.current = (@ + 1) % Word]

\* One block more, and n blocks less, in the statistics.
More == LET now == (stats.current + 1) % Word
        IN  [current |-> now, peak |-> IF now > stats.peak THEN now ELSE stats.peak]

Less(st, n) == [st EXCEPT !.current = (@ - n) % Word]

\* get_allocator_implementation and the allocator's init.  Only mark-sweep forgets its blocks;
\* it keeps its roots and its threshold.
runtime_init(next) ==
  /\ proc' = next /\ current_allocator' = linked.alloc /\ inits' = inits + 1
  /\ stats' = [current |-> 0, peak |-> 0]
  /\ held' = 0
  /\ old' = IF linked.alloc = "mark_sweep" THEN 0 ELSE old + held
  /\ UNCHANGED <<linked, counting, root_index, GC_THRESHOLD, own>>

\* The table through which a debug build prints the statistics in runtime_shutdown.
tableAtShutdownCleared == NULL

tableAtShutdown == current_allocator

\* Mark-sweep takes what it collects off current_bytes, but not what it drains after that.
runtime_shutdown(next) ==
  /\ IF current_allocator = NULL
       THEN proc' = next /\ UNCHANGED <<current_allocator, stats, held>>
       ELSE /\ proc' = IF linked.debug /\ tableAtShutdown = NULL THEN "crashed" ELSE next
            /\ current_allocator' = NULL
            /\ IF current_allocator = "mark_sweep"
                 THEN held' = 0 /\ \E n \in 0..held : stats' = Less(stats, n)
                 ELSE UNCHANGED <<stats, held>>
  /\ UNCHANGED <<linked, counting, old, root_index, GC_THRESHOLD, inits>>

\* Only mark-sweep has an entry for it; a full table ends the process.
runtime_register_root(next) ==
  /\ IF current_allocator # "mark_sweep" THEN proc' = next /\ UNCHANGED root_index
     ELSE IF root_index >= MAX_ROOTS THEN proc' = "full" /\ UNCHANGED root_index
     ELSE proc' = next /\ root_index' = root_index + 1
  /\ UNCHANGED <<linked, counting, current_allocator, stats, held, old, GC_THRESHOLD, inits, own>>

-----------------------------------------------------------------------------
(* The generated main. *)

MainInit == proc = "start" /\ runtime_init("roots")

\* One of the program's pointer globals is registered.
MainRegister == proc = "roots" /\ runtime_register_root("roots")

MainCall ==
  /\ proc = "roots" /\ proc' = "body"
  /\ UNCHANGED <<linked, counting, current_allocator, stats, held, old, root_index, GC_THRESHOLD, inits, own>>

MainShutdown == proc = "body" /\ runtime_shutdown("exited") /\ UNCHANGED own

-----------------------------------------------------------------------------
(* Calls in main_. *)

Init == proc = "body" /\ inits < MaxInits /\ runtime_init("body")

Shutdown == proc = "body" /\ runtime_shutdown("body") /\ own' = TRUE

RegisterRoot == proc = "body" /\ runtime_register_root("body")

\* malloc may return NULL.  rc_alloc writes the header before it looks.  Under mark-sweep the
\* bytes held can pass the threshold, the default one too, and ms_alloc then collects.
Alloc ==
  /\ proc = "body"
  /\ \/ /\ proc' = IF current_allocator = "reference_count" THEN "crashed" ELSE proc
        /\ UNCHANGED <<stats, held>>
     \/ /\ current_allocator # NULL /\ held + old < MaxHeld
        /\ IF current_allocator = "mark_sweep"
             THEN \E n \in 0..(held + 1) : held' = held + 1 - n /\ stats' = Less(More, n)
             ELSE held' = held + 1 /\ stats' = More
        /\ UNCHANGED proc
  /\ UNCHANGED <<linked, counting, current_allocator, old, root_index, GC_THRESHOLD, inits, own>>

Gc ==
  /\ proc = "body" /\ current_allocator = "mark_sweep"
  /\ \E n \in 0..held : held' = held - n /\ stats' = Less(stats, n)
  /\ UNCHANGED <<linked, counting, proc, current_allocator, old, root_index, GC_THRESHOLD, inits, own>>

SetThreshold ==
  /\ proc = "body" /\ current_allocator = "mark_sweep"
  /\ GC_THRESHOLD' = "set"
  /\ UNCHANGED <<linked, counting, proc, current_allocator, stats, held, old, root_index, inits, own>>

\* runtime_inc_ref_count and runtime_dec_ref_count, where the transpiler put them, do not look
\* whether there is a table.  A decrement can free any number of blocks.
Count ==
  /\ proc = "body" /\ counting
  /\ IF current_allocator = NULL THEN proc' = "crashed" /\ UNCHANGED <<stats, held, old>>
     ELSE /\ current_allocator = "reference_count"
          /\ \E n \in 0..held, m \in 0..old :
               held' = held - n /\ old' = old - m /\ stats' = Less(stats, n + m)
          /\ UNCHANGED proc
  /\ UNCHANGED <<linked, counting, current_allocator, root_index, GC_THRESHOLD, inits, own>>

\* runtime_get_stats, runtime_print_stats and runtime_get_allocator_name do not look either.
Stats ==
  /\ proc = "body"
  /\ proc' = IF current_allocator = NULL THEN "crashed" ELSE proc
  /\ UNCHANGED <<linked, counting, current_allocator, stats, held, old, root_index, GC_THRESHOLD, inits, own>>

\* The process is gone.
Ended == proc \in {"exited", "crashed", "full"}
Reap == Ended /\ Load("simple", FALSE, FALSE, "none")

RuntimeNext ==
  \/ MainInit \/ MainRegister \/ MainCall \/ MainShutdown
  \/ Init \/ Shutdown \/ RegisterRoot \/ Alloc \/ Gc \/ SetThreshold \/ Count \/ Stats \/ Reap

-----------------------------------------------------------------------------
(* Properties. *)

\* A process is only killed by its own runtime calls where main_ has called runtime_shutdown
\* itself, or with the table of reference counting in place, where malloc has failed: the
\* calls that do not test current_allocator (counting, statistics, the debug output of
\* runtime_shutdown) otherwise have a table.
CrashesExplained ==
  proc = "crashed" => own \/ current_allocator = "reference_count"

\* current_bytes never passes peak_bytes, and so never wraps around below zero, except under
\* reference counting after a second runtime_init, when blocks of the first are freed.
PeakCovers ==
  stats.current > stats.peak => linked.alloc = "reference_count" /\ inits > 1

=============================================================================
