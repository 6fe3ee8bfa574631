------------------------------ MODULE Toolchain ------------------------------
(***************************************************************************)
(* The tool and the programs it makes: between invocations of the driver,  *)
(* the executable that is there is run.                                    *)
(***************************************************************************)
EXTENDS Driver, Runtime

vars == <<dvars, rvars>>

ToolchainInit == DriverInit /\ NoProcess

\* The executable is started.
Start ==
  /\ at = "idle" /\ exe # None /\ proc = "none"
  /\ Load(exe.objs["allocator_impl"].alloc, exe.objs["runtime"].debug, exe.counting, "start")
  /\ UNCHANGED dvars

\* The driver works while no program runs.
DriverMoves == proc = "none" /\ DriverNext /\ UNCHANGED rvars

ToolchainNext ==
  \/ DriverMoves
  \/ Start
  \/ RuntimeNext /\ UNCHANGED dvars

\* The commands that the tool runs return, and it goes on, unless it is still in the visitor
\* with an endless program; nothing else need happen.
Spec == ToolchainInit /\ [][ToolchainNext]_vars /\ WF_vars(DriverStep /\ DriverMoves)

\* A running program counts its references exactly if it is linked with the allocator that
\* frees by them, even if the tool failed or was killed after it last made an executable.
CountsAsLinked ==
  proc # "none" => (counting <=> linked.alloc = "reference_count")

=============================================================================
