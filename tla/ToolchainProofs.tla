--------------------------- MODULE ToolchainProofs ---------------------------
(***************************************************************************)
(* Theorems about Toolchain: whatever earlier invocations left behind, and *)
(* wherever one of them failed or was killed, the executable that is there *)
(* counts references exactly if its allocator needs it, and the programs   *)
(* it starts do not run into an absent table by themselves.                *)
(***************************************************************************)
EXTENDS Toolchain, TLAPS

USE DEF useRefCount, tableAtShutdown

\* The flags of this invocation, and the library that they make.
Flags == [alloc |-> req.alloc, debug |-> req.debug]
Asked == [o \in Object |-> Flags]

\* What the files hold at each step of the tool.
FilesInv ==
  /\ at # "idle" => status # "done" /\ req.alloc \in Offered
  /\ at \in {"clean", "make", "link"} =>
       cfile.src = req.src /\ cfile.counting = (req.alloc = "reference_count")
  /\ at = "make" => objs \in [Object -> {None, Flags}]
  /\ at = "link" => lib = Asked

\* The executable, if there is one, counts if its allocator needs it.
ExeInv ==
  exe # None =>
    /\ exe.objs["allocator_impl"].alloc \in Offered
    /\ exe.counting = (exe.objs["allocator_impl"].alloc = "reference_count")

\* A process has a table from runtime_init on, unless main_ gives it up.
ProcInv ==
  /\ proc # "none" => linked.alloc \in Offered
  /\ proc \in {"roots", "body"} /\ ~own => current_allocator # NULL

\* Statistics that mean something: not those of a second runtime_init under reference counting.
Counted == ~(linked.alloc = "reference_count" /\ inits > 1)

\* With a table, current_bytes is what the allocator holds since its init, and reference
\* counting holds nothing older.
MemInv ==
  /\ held \in Nat /\ old \in Nat /\ inits \in Nat /\ held + old <= MaxHeld
  /\ current_allocator \in {NULL, linked.alloc}
  /\ proc = "start" => inits = 0 /\ held = 0 /\ old = 0
  /\ proc \in {"roots", "body"} => inits > 0
  /\ Counted =>
       /\ stats \in [current : Nat, peak : Nat] /\ stats.current <= stats.peak
       /\ current_allocator # NULL => stats.current = held
       /\ linked.alloc = "reference_count" => old = 0

ToolInv == FilesInv /\ ExeInv /\ ExeAsRequested /\ ProcInv /\ CountsAsLinked /\ CrashesExplained

\* Every step of the tool, its failures and a kill included, keeps the files as they should be.
LEMMA DriverKeeps ==
  ASSUME ToolInv, DriverNext
  PROVE  FilesInv' /\ ExeInv' /\ ExeAsRequested'
<1> USE DEF ToolInv, FilesInv, ExeInv, ExeAsRequested, Flags, Asked
<1>1. ASSUME NEW r \in Request, Invoke(r)
      PROVE  FilesInv' /\ ExeInv' /\ ExeAsRequested'
  BY <1>1 DEF Invoke, Fail
<1>2. CASE Transpile
  <2>1. CASE Fail
    BY <1>2, <2>1 DEF Transpile, Fail
  <2>2. ASSUME NEW whole,
               cfile' = [src |-> req.src, counting |-> useRefCount, whole |-> whole],
               at' = "clean", UNCHANGED status
        PROVE  FilesInv' /\ ExeInv' /\ ExeAsRequested'
    BY <1>2, <2>2 DEF Transpile
  <2> QED
    BY <1>2, <2>1, <2>2 DEF Transpile
<1>3. CASE Clean
  BY <1>3 DEF Clean, Fail, NoObjects
<1>4. ASSUME NEW o \in Object, MakeObject(o)
      PROVE  FilesInv' /\ ExeInv' /\ ExeAsRequested'
  BY <1>4 DEF MakeObject, Fail
<1>5. CASE MakeLibrary
  <2>1. objs = [o \in Object |-> objs[o]] /\ \A o \in Object : objs[o] = Flags
    BY <1>5 DEF MakeLibrary
  <2>2. objs = Asked
    BY <2>1
  <2> QED
    BY <1>5, <2>2 DEF MakeLibrary, Fail
<1>6. CASE Link
  <2>1. "allocator_impl" \in Object
    BY DEF Object
  <2>2. CASE exe' = exe
    BY <1>6, <2>2 DEF Link, Fail
  <2>3. CASE exe' = None /\ Fail
    BY <1>6, <2>3 DEF Link, Fail
  <2>4. CASE /\ exe' = [src |-> cfile.src, counting |-> cfile.counting, objs |-> lib]
             /\ at' = "idle" /\ status' = "done"
    <3>1. lib = Asked /\ cfile.src = req.src /\ cfile.counting = (req.alloc = "reference_count")
          /\ req.alloc \in Offered /\ UNCHANGED req
      BY <1>6 DEF Link
    <3>2. exe'.src = req.src /\ exe'.objs = Asked /\ exe'.counting = (req.alloc = "reference_count")
      BY <2>4, <3>1
    <3>3. Asked["allocator_impl"].alloc = req.alloc
      BY <2>1
    <3> QED
      BY <2>4, <3>1, <3>2, <3>3
  <2> QED
    BY <1>6, <2>2, <2>3, <2>4 DEF Link
<1>7. CASE Kill
  BY <1>7 DEF Kill
<1> QED
  BY <1>1, <1>2, <1>3, <1>4, <1>5, <1>6, <1>7 DEF DriverNext, DriverStep

\* Every step of a process keeps its table and its kind of code as they should be.
LEMMA RuntimeKeeps ==
  ASSUME ToolInv, RuntimeNext
  PROVE  ProcInv' /\ CountsAsLinked' /\ CrashesExplained'
<1> USE DEF ToolInv, ProcInv, CountsAsLinked, CrashesExplained
<1>0. NULL \notin Offered
  BY DEF NULL, Offered
<1>1. CASE MainInit \/ Init
  BY <1>0, <1>1 DEF MainInit, Init, runtime_init
<1>2. CASE MainRegister \/ RegisterRoot
  BY <1>2 DEF MainRegister, RegisterRoot, runtime_register_root
<1>3. CASE MainCall
  BY <1>3 DEF MainCall
<1>4. CASE MainShutdown
  BY <1>4 DEF MainShutdown, runtime_shutdown
<1>5. CASE Shutdown
  BY <1>5 DEF Shutdown, runtime_shutdown
<1>6. CASE Alloc
  BY <1>6 DEF Alloc
<1>7. CASE Gc \/ SetThreshold \/ Count \/ Stats
  BY <1>7 DEF Gc, SetThreshold, Count, Stats
<1>8. CASE Reap
  BY <1>8 DEF Reap, Load
<1> QED
  BY <1>1, <1>2, <1>3, <1>4, <1>5, <1>6, <1>7, <1>8 DEF RuntimeNext

\* The invariant holds before the first invocation.
LEMMA ToolInit == ToolchainInit => ToolInv
BY DEF ToolchainInit, DriverInit, NoProcess, ToolInv, FilesInv, ExeInv, ExeAsRequested, ProcInv,
       CountsAsLinked, CrashesExplained

\* Every step of the tool and of the programs keeps it.
LEMMA ToolNext == ToolInv /\ [ToolchainNext]_vars => ToolInv'
<1> SUFFICES ASSUME ToolInv, [ToolchainNext]_vars
             PROVE  ToolInv'
  OBVIOUS
<1>d. ASSUME UNCHANGED dvars
      PROVE  FilesInv' /\ ExeInv' /\ ExeAsRequested'
  BY <1>d DEF dvars, ToolInv, FilesInv, ExeInv, ExeAsRequested, Flags, Asked
<1>r. ASSUME UNCHANGED rvars
      PROVE  ProcInv' /\ CountsAsLinked' /\ CrashesExplained'
  BY <1>r DEF rvars, ToolInv, ProcInv, CountsAsLinked, CrashesExplained
<1>1. CASE DriverMoves
  BY <1>1, <1>r, DriverKeeps DEF DriverMoves, ToolInv
<1>2. CASE Start
  <2>1. /\ linked'.alloc = exe.objs["allocator_impl"].alloc /\ counting' = exe.counting
        /\ proc' = "start" /\ exe # None /\ UNCHANGED dvars
    BY <1>2 DEF Start, Load
  <2>2. ProcInv' /\ CountsAsLinked' /\ CrashesExplained'
    BY <2>1 DEF ToolInv, ExeInv, ProcInv, CountsAsLinked, CrashesExplained
  <2> QED
    BY <1>d, <2>1, <2>2 DEF ToolInv
<1>3. CASE RuntimeNext /\ UNCHANGED dvars
  BY <1>3, <1>d, RuntimeKeeps DEF ToolInv
<1>4. CASE UNCHANGED vars
  BY <1>4, <1>d, <1>r DEF vars, ToolInv
<1> QED
  BY <1>1, <1>2, <1>3, <1>4 DEF ToolchainNext

-----------------------------------------------------------------------------
(* The statistics. *)

\* What does not reach Word is counted as it is.
LEMMA NoWrap ==
  ASSUME NEW n \in Nat, n < Word
  PROVE  n % Word = n
BY RuntimeConstantsOK

\* One block more, counted.
LEMMA MoreCounted ==
  ASSUME MemInv, Counted, current_allocator # NULL, held + old < MaxHeld
  PROVE  /\ More \in [current : Nat, peak : Nat] /\ More.current = held + 1
         /\ More.current <= More.peak
<1>1. held + 1 \in Nat /\ held + 1 < Word
  BY RuntimeConstantsOK DEF MemInv
<1>2. (stats.current + 1) % Word = held + 1
  BY <1>1, NoWrap DEF MemInv
<1> QED
  BY <1>1, <1>2 DEF More, MemInv

\* n blocks less, counted.
LEMMA LessCounted ==
  ASSUME NEW st \in [current : Nat, peak : Nat], st.current <= st.peak,
         NEW n \in 0..(st.current), st.current < Word
  PROVE  /\ Less(st, n) \in [current : Nat, peak : Nat]
         /\ Less(st, n).current = st.current - n
         /\ Less(st, n).current <= Less(st, n).peak
<1>1. st.current - n \in Nat /\ st.current - n < Word
  BY RuntimeConstantsOK
<1>2. (st.current - n) % Word = st.current - n
  BY <1>1, NoWrap
<1> QED
  BY <1>1, <1>2 DEF Less

\* Every call of the runtime keeps the statistics meaningful.
LEMMA RuntimeCounts ==
  ASSUME ToolInv, MemInv, RuntimeNext
  PROVE  MemInv'
<1> USE DEF MemInv, Counted
<1>0. Word \in Nat /\ MaxHeld \in Nat /\ MaxHeld < Word
  BY RuntimeConstantsOK
<1>1. CASE MainInit \/ Init
  <2>1. /\ current_allocator' = linked.alloc /\ inits' = inits + 1 /\ held' = 0
        /\ stats' = [current |-> 0, peak |-> 0] /\ linked' = linked /\ proc' # "start"
        /\ old' = IF linked.alloc = "mark_sweep" THEN 0 ELSE old + held
        /\ proc = "start" \/ proc = "body"
    BY <1>1 DEF MainInit, Init, runtime_init
  <2>2. /\ stats' \in [current : Nat, peak : Nat] /\ stats'.current = 0 /\ stats'.peak = 0
        /\ old' \in Nat /\ old' <= MaxHeld /\ inits' \in Nat /\ inits' > 0
        /\ inits' > 1 \/ old' = 0
    BY <1>0, <2>1
  <2> QED
    BY <1>0, <2>1, <2>2
<1>2. CASE MainShutdown \/ Shutdown
  <2>1. /\ UNCHANGED <<linked, old, inits>> /\ proc = "body" /\ proc' # "start"
        /\ current_allocator' = NULL
    BY <1>2 DEF MainShutdown, Shutdown, runtime_shutdown
  <2>2. CASE UNCHANGED <<stats, held>>
    BY <2>1, <2>2
  <2>3. ASSUME NEW n \in 0..held, stats' = Less(stats, n), held' = 0, current_allocator # NULL
        PROVE  MemInv'
    <3>1. Counted => /\ stats' \in [current : Nat, peak : Nat] /\ stats'.current <= stats'.peak
      BY <1>0, <2>3, LessCounted
    <3> QED
      BY <1>0, <2>1, <2>3, <3>1
  <2> QED
    BY <1>2, <2>2, <2>3 DEF MainShutdown, Shutdown, runtime_shutdown, NULL
<1>3. CASE MainRegister \/ RegisterRoot \/ MainCall \/ SetThreshold \/ Stats
  BY <1>3 DEF MainRegister, RegisterRoot, runtime_register_root, MainCall, SetThreshold, Stats
<1>4. CASE Alloc
  <2>1. UNCHANGED <<linked, old, inits, current_allocator>> /\ proc = "body" /\ proc' # "start"
    BY <1>4 DEF Alloc
  <2>2. CASE UNCHANGED <<stats, held>>
    BY <2>1, <2>2
  <2>3. CASE current_allocator # NULL /\ held + old < MaxHeld /\ held' = held + 1 /\ stats' = More
    BY <1>0, <2>1, <2>3, MoreCounted
  <2>4. ASSUME current_allocator # NULL, held + old < MaxHeld,
               NEW n \in 0..(held + 1), held' = held + 1 - n, stats' = Less(More, n)
        PROVE  MemInv'
    <3>1. Counted => /\ stats' \in [current : Nat, peak : Nat] /\ stats'.current <= stats'.peak
                     /\ stats'.current = held'
      <4> SUFFICES ASSUME Counted
                   PROVE  /\ stats' \in [current : Nat, peak : Nat] /\ stats'.current <= stats'.peak
                          /\ stats'.current = held'
        OBVIOUS
      <4>1. /\ More \in [current : Nat, peak : Nat] /\ More.current = held + 1
            /\ More.current <= More.peak
        BY <2>4, MoreCounted
      <4>2. held + 1 < Word /\ n \in 0..(More.current) /\ More.current < Word
        BY <1>0, <2>4, <4>1
      <4> QED
        BY <2>4, <4>1, <4>2, LessCounted
    <3>2. held' \in Nat /\ held' + old <= MaxHeld
      BY <1>0, <2>4
    <3> QED
      BY <2>1, <3>1, <3>2
  <2> QED
    BY <1>4, <2>2, <2>3, <2>4 DEF Alloc
<1>5. CASE Gc
  <2>1. UNCHANGED <<linked, old, inits, current_allocator, proc>> /\ current_allocator # NULL
    BY <1>5 DEF Gc, NULL
  <2>2. PICK n \in 0..held : held' = held - n /\ stats' = Less(stats, n)
    BY <1>5 DEF Gc
  <2>3. Counted => /\ stats' \in [current : Nat, peak : Nat] /\ stats'.current <= stats'.peak
                   /\ stats'.current = held'
    BY <1>0, <2>1, <2>2, LessCounted
  <2> QED
    BY <1>0, <2>1, <2>2, <2>3
<1>6. CASE Count
  <2>1. /\ UNCHANGED <<linked, inits, current_allocator>> /\ proc = "body" /\ proc' # "start"
    BY <1>6 DEF Count
  <2>2. CASE UNCHANGED <<stats, held, old>>
    BY <2>1, <2>2
  <2>3. ASSUME current_allocator = "reference_count",
               NEW n \in 0..held, NEW m \in 0..old,
               held' = held - n, old' = old - m, stats' = Less(stats, n + m)
        PROVE  MemInv'
    <3>1. linked.alloc = "reference_count" /\ current_allocator # NULL
      BY <2>3 DEF NULL
    <3>2. Counted => old = 0 /\ m = 0 /\ n + m = n
      BY <2>3, <3>1
    <3>3. Counted => /\ stats' \in [current : Nat, peak : Nat] /\ stats'.current <= stats'.peak
                     /\ stats'.current = held' /\ old' = 0
      BY <1>0, <2>3, <3>1, <3>2, LessCounted
    <3> QED
      BY <1>0, <2>1, <2>3, <3>3
  <2> QED
    BY <1>6, <2>2, <2>3 DEF Count
<1>7. CASE Reap
  BY <1>0, <1>7 DEF Reap, Load
<1> QED
  BY <1>1, <1>2, <1>3, <1>4, <1>5, <1>6, <1>7 DEF RuntimeNext

\* So does every step of the tool and of the programs.
LEMMA MemNext == ToolInv /\ MemInv /\ [ToolchainNext]_vars => MemInv'
<1> SUFFICES ASSUME ToolInv, MemInv, [ToolchainNext]_vars
             PROVE  MemInv'
  OBVIOUS
<1>1. CASE UNCHANGED rvars
  BY <1>1 DEF rvars, MemInv, Counted
<1>2. CASE Start
  BY <1>2, RuntimeConstantsOK DEF Start, Load, MemInv, Counted
<1>3. CASE RuntimeNext
  BY <1>3, RuntimeCounts
<1> QED
  BY <1>1, <1>2, <1>3 DEF ToolchainNext, DriverMoves, vars

\* When the tool reports success the executable is what was asked for, after any sequence
\* of invocations, failures and kills, for any set of programs.
THEOREM RequestedCorrect == Spec => []ExeAsRequested
<1>1. ToolInv => ExeAsRequested
  BY DEF ToolInv
<1> QED
  BY <1>1, ToolInit, ToolNext, PTL DEF Spec

\* A program that runs counts its references exactly if the allocator linked with it frees
\* by them.
THEOREM CountingCorrect == Spec => []CountsAsLinked
<1>1. ToolInv => CountsAsLinked
  BY DEF ToolInv
<1> QED
  BY <1>1, ToolInit, ToolNext, PTL DEF Spec

\* The facade calls through an absent table only after main_ has called runtime_shutdown;
\* the only other death in a runtime call is a failing malloc under reference counting.
THEOREM CrashCorrect == Spec => []CrashesExplained
<1>1. ToolInv => CrashesExplained
  BY DEF ToolInv
<1> QED
  BY <1>1, ToolInit, ToolNext, PTL DEF Spec

\* current_bytes stays within peak_bytes and does not wrap around, with every allocator and
\* any calls in main_, but for the freeing of older blocks after a second runtime_init under
\* reference counting.
THEOREM PeakCorrect == Spec => []PeakCovers
<1>1. ToolchainInit => MemInv
  BY RuntimeConstantsOK DEF ToolchainInit, NoProcess, MemInv, Counted
<1>2. MemInv => PeakCovers
  BY DEF MemInv, Counted, PeakCovers
<1> QED
  BY <1>1, <1>2, ToolInit, ToolNext, MemNext, PTL DEF Spec

=============================================================================
