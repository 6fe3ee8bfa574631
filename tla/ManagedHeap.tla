----------------------------- MODULE ManagedHeap -----------------------------
(***************************************************************************)
(* What runtime/include/runtime.h promises to a compiled program,          *)
(* whichever allocator is linked in: memory the program can still name is  *)
(* not taken back before runtime_shutdown.  How the allocator finds out    *)
(* what may be freed is left open.  MarkSweep and RefCount are checked to  *)
(* implement this specification.                                           *)
(***************************************************************************)
CONSTANT Block

VARIABLES
  alive,  \* the blocks given out and not taken back
  named,  \* the blocks the program can still name
  down    \* runtime_shutdown has begun to give everything back

vars == <<alive, named, down>>

Init == alive = {} /\ named = {} /\ down = FALSE

\* A block that is not in use is given out.  The statement that asked for it may
\* drop the last name of other blocks, or of the new one.
Allocate(b) ==
  /\ ~down /\ b \notin alive
  /\ alive' = alive \cup {b}
  /\ named' \in SUBSET (named \cup {b})
  /\ UNCHANGED down

\* The program moves pointers around: it can only come to name less.
Mutate ==
  /\ named' \in SUBSET named
  /\ UNCHANGED <<alive, down>>

\* The allocator takes back what nobody can name, and anything after shutdown.
Free(b) ==
  /\ b \in alive
  /\ down \/ b \notin named
  /\ alive' = alive \ {b}
  /\ named' \in SUBSET named
  /\ UNCHANGED down

\* main_ has returned.
Shutdown ==
  /\ ~down
  /\ down' = TRUE
  /\ named' \in SUBSET named
  /\ UNCHANGED alive

Next == Mutate \/ Shutdown \/ \E b \in Block : Allocate(b) \/ Free(b)

Spec == Init /\ [][Next]_vars
=============================================================================
