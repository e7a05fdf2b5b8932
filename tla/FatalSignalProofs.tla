------------------------- MODULE FatalSignalProofs -------------------------
(***************************************************************************)
(* Proofs about FatalSignal, for any number of targets and commands: the   *)
(* chain, the slots and the tokens stay consistent at every statement at   *)
(* which Ctrl+C can stop the main thread.                                  *)
(***************************************************************************)
EXTENDS FatalSignal, SequenceTheorems, FiniteSetTheorems, TLAPS

(* What BeginCommand, Register, Leave and GoTo stand for.                  *)
USE DEF Is, CanRun, GoTo, Leave, One

(* The bookkeeping holds at the start.                                     *)
LEMMA InitIInv == Init => IInv
<1> SUFFICES ASSUME Init PROVE IInv  OBVIOUS
<1>1. /\ at \in [Threads -> {"idle", "none"}]
      /\ at["main"] = "idle" /\ at["signal"] = "none"
  BY DEF Init, Threads
<1>2. c \in [Threads -> {NoJob}] /\ failed \in [Threads -> {FALSE}]
  BY DEF Init
<1>3. /\ line \in [Jobs -> Nat] /\ todo \subseteq Jobs /\ children \in Seq(Jobs)
      /\ suspended = FALSE /\ handling_fatal_signal = FALSE /\ main_thread = FALSE
      /\ job_slots_used = 0 /\ jobserver_tokens = 0
  BY DEF Init
<1>4. TypeOK
  <2>1. lines \in [Jobs -> 1..MaxLines]  BY DEF Init
  <2>2. /\ at \in [Threads -> Places \cup {"none", "enter", "loop"}]
        /\ at["main"] \in Places /\ at["signal"] = "none"
    BY <1>1 DEF Places
  <2>3. c \in [Threads -> Jobs \cup {NoJob}] /\ failed \in [Threads -> BOOLEAN]
    BY <1>2
  <2>4. /\ at["main"] \in Launching \cup {"begun_next"} => c["main"] \in Jobs
        /\ \A t \in Threads : at[t] = "reaped" => c[t] \in Jobs
    BY <1>1 DEF Launching, Threads
  <2> QED  BY <1>3, <2>1, <2>2, <2>3, <2>4 DEF TypeOK, Reaping
<1>5. Consistent
  BY <1>1 DEF Init, Consistent, Threads, Looking, Launching
<1> QED  BY <1>4, <1>5 DEF IInv

(* A child appended in front, or the oldest taken off.                     *)
LEMMA PushType ==
  ASSUME NEW s \in Seq(Jobs), NEW f \in Jobs
  PROVE  <<f>> \o s \in Seq(Jobs) /\ Len(<<f>> \o s) = Len(s) + 1
  OBVIOUS

LEMMA ButLastType ==
  ASSUME NEW s \in Seq(Jobs), Len(s) > 0
  PROVE  ButLast(s) \in Seq(Jobs) /\ Len(ButLast(s)) = Len(s) - 1
<1>1. Len(s) \in Nat /\ 1 \in Int /\ Len(s) - 1 \in Int
  OBVIOUS
<1>2. \A i \in 1..(Len(s) - 1) : s[i] \in Jobs
  OBVIOUS
<1>3. /\ SubSeq(s, 1, Len(s) - 1) \in Seq(Jobs)
      /\ Len(SubSeq(s, 1, Len(s) - 1)) =
            IF 1 <= Len(s) - 1 THEN Len(s) - 1 - 1 + 1 ELSE 0
  BY <1>1, <1>2, SubSeqProperties
<1>4. (IF 1 <= Len(s) - 1 THEN Len(s) - 1 - 1 + 1 ELSE 0) = Len(s) - 1
  BY <1>1
<1>5. ButLast(s) = SubSeq(s, 1, Len(s) - 1)  BY Zenon DEF ButLast
<1> QED
  BY <1>3, <1>4, <1>5, Zenon

LEMMA LastType ==
  ASSUME NEW s \in Seq(Jobs), s # << >>
  PROVE  Last(s) \in Jobs
  BY DEF Last

(* reap_children keeps the bookkeeping, in the main thread ...             *)
LEMMA MainReaps == IInv /\ ReapChildren("main") => IInv'
<1> SUFFICES ASSUME IInv, ReapChildren("main") PROVE IInv'
  OBVIOUS
<1> USE JobsAssumption, LinesAssumption DEF IInv, TypeOK, Consistent, Threads,
    Places, Reaping, Looking, Launching
<1>1. CASE ReapMore("main")
  <2>1. CASE children = << >>
    <3>1. TypeOK'  BY <1>1, <2>1 DEF ReapMore, recipe, chain, os
    <3>2. Consistent'  BY <1>1, <2>1 DEF ReapMore, recipe, chain, os
    <3> QED  BY <3>1, <3>2
  <2>2. CASE children # << >>
    <3>1. TypeOK'  BY <1>1, <2>2 DEF ReapMore, recipe, chain, os
    <3>2. Consistent'  BY <1>1, <2>2 DEF ReapMore, recipe, chain, os
    <3> QED  BY <3>1, <3>2
  <2> QED  BY <2>1, <2>2
<1>2. CASE WaitForAny("main")
  <2>1. CASE proc_array = {}
    <3>1. TypeOK'  BY <1>2, <2>1 DEF WaitForAny, recipe, chain, flags
    <3>2. Consistent'  BY <1>2, <2>1 DEF WaitForAny, recipe, chain, flags
    <3> QED  BY <3>1, <3>2
  <2>2. CASE proc_array # {}
    <3>1. TypeOK'  BY <1>2, <2>2 DEF WaitForAny, recipe, chain, flags
    <3>2. Consistent'  BY <1>2, <2>2 DEF WaitForAny, recipe, chain, flags
    <3> QED  BY <3>1, <3>2
  <2> QED  BY <2>1, <2>2
<1>3. CASE FindChild("main")
  <2>1. CASE children = << >>
    <3>1. TypeOK'  BY <1>3, <2>1, LastType DEF FindChild, recipe, chain, os, flags
    <3>2. Consistent'  BY <1>3, <2>1, LastType DEF FindChild, recipe, chain, os, flags
    <3> QED  BY <3>1, <3>2
  <2>2. CASE children # << >>
    <3>1. TypeOK'  BY <1>3, <2>2, LastType DEF FindChild, recipe, chain, os, flags
    <3>2. Consistent'  BY <1>3, <2>2, LastType DEF FindChild, recipe, chain, os, flags
    <3> QED  BY <3>1, <3>2
  <2> QED  BY <2>1, <2>2
<1>4. CASE StartNextCommand("main")
  <2>1. TypeOK'  BY <1>4 DEF StartNextCommand, BeginCommand, chain, flags
  <2>2. Consistent'  BY <1>4 DEF StartNextCommand, BeginCommand, chain, flags
  <2> QED  BY <2>1, <2>2
<1>5. CASE RegisterNext("main")
  <2>1. TypeOK'  BY <1>5 DEF RegisterNext, Register, recipe, chain, flags
  <2>2. Consistent'  BY <1>5 DEF RegisterNext, Register, recipe, chain, flags
  <2> QED  BY <2>1, <2>2
<1>6. CASE Finish("main")
  <2>1. TypeOK'  BY <1>6 DEF Finish, recipe, chain, os, flags
  <2>2. Consistent'  BY <1>6 DEF Finish, recipe, chain, os, flags
  <2> QED  BY <2>1, <2>2
<1>7. CASE ReleaseSlot("main")
  <2>1. TypeOK'  BY <1>7 DEF ReleaseSlot, recipe, os, flags
  <2>2. Consistent'  BY <1>7 DEF ReleaseSlot, recipe, os, flags
  <2> QED  BY <2>1, <2>2
<1>8. CASE Unlink("main")
  <2>1. Len(children) > 0  BY <1>8 DEF Unlink
  <2>2. ButLast(children) \in Seq(Jobs) /\ Len(ButLast(children)) = Len(children) - 1
    BY <2>1, ButLastType
  <2>3. children' \in Seq(Jobs) /\ Len(children') = Len(children) - 1
    BY <1>8, <2>2 DEF Unlink
  <2>4. TypeOK'  BY <1>8, <2>3 DEF Unlink, recipe, os, flags
  <2>5. at["main"] = "released" /\ at'["main"] = "unlinked" /\ at'["signal"] = at["signal"]
    BY <1>8 DEF Unlink
  <2>6. UNCHANGED <<job_slots_used, jobserver_tokens, suspended>>
    BY <1>8 DEF Unlink, flags
  <2>7. Len(children') = job_slots_used' + One("main", {"chained", "released"})'
                                           + One("signal", {"released"})'
    <3>1. Len(children) = job_slots_used + 1 + One("signal", {"released"})
      BY <2>5
    <3>2. Len(children) \in Nat  OBVIOUS
    <3>3. One("signal", {"released"})' = One("signal", {"released"})
      BY <2>5
    <3>4. One("main", {"chained", "released"})' = 0
      BY <2>5
    <3>5. One("signal", {"released"}) \in {0, 1}
      OBVIOUS
    <3> HIDE DEF One, IInv, TypeOK, Consistent
    <3>6. job_slots_used \in Nat  BY DEF IInv, TypeOK
    <3> QED  BY <2>3, <2>6, <3>1, <3>2, <3>3, <3>4, <3>5, <3>6
  <2>8. jobserver_tokens' = Len(children') + One("main", Launching \cup {"unlinked"})'
                                           + One("signal", {"unlinked"})'
    <3>1. jobserver_tokens = Len(children) + One("signal", {"unlinked"})
      BY <2>5
    <3>2. Len(children) \in Nat  OBVIOUS
    <3>3. One("signal", {"unlinked"})' = One("signal", {"unlinked"})
      BY <2>5
    <3>4. One("main", Launching \cup {"unlinked"})' = 1
      BY <2>5
    <3>5. One("signal", {"unlinked"}) \in {0, 1}
      OBVIOUS
    <3> HIDE DEF One, IInv, TypeOK, Consistent
    <3> QED  BY <2>3, <2>6, <3>1, <3>2, <3>3, <3>4, <3>5
  <2>9. /\ at'["signal"] \in {"reap", "wait"} \cup Looking => job_slots_used' > 0
        /\ at'["main"] \in {"reaped", "finished"} /\ ~suspended' => children' # << >>
        /\ at'["signal"] = "exit" => job_slots_used' = 0
        /\ \A t \in Threads : at'[t] # "fatal"
    BY <1>8, <2>5, <2>6
  <2>10. Consistent'  BY ONLY <2>7, <2>8, <2>9 DEF Consistent
  <2> QED  BY <2>4, <2>10
<1>9. CASE FreeChild("main")
  <2>1. CASE jobserver_tokens = 0
    <3>1. TypeOK'  BY <1>9, <2>1 DEF FreeChild, os, flags
    <3>2. Consistent'  BY <1>9, <2>1 DEF FreeChild, os, flags
    <3> QED  BY <3>1, <3>2
  <2>2. CASE jobserver_tokens # 0
    <3>1. TypeOK'  BY <1>9, <2>2 DEF FreeChild, os, flags
    <3>2. at'["main"] = "idle" /\ at'["signal"] = at["signal"]
      BY <1>9, <2>2 DEF FreeChild
    <3>3. jobserver_tokens' = jobserver_tokens - 1 /\ at["main"] = "unlinked"
      BY <1>9, <2>2 DEF FreeChild
    <3>4. UNCHANGED <<children, job_slots_used, suspended>>
      BY <1>9, <2>2 DEF FreeChild, flags
    <3>5. Consistent'  BY <3>2, <3>3, <3>4
    <3> QED  BY <3>1, <3>5
  <2> QED  BY <2>1, <2>2
<1> QED
  BY <1>1, <1>2, <1>3, <1>4, <1>5, <1>6, <1>7, <1>8, <1>9 DEF ReapChildren

(* ... and in the handler's.                                               *)
LEMMA HandlerReaps == IInv /\ ReapChildren("signal") => IInv'
<1> SUFFICES ASSUME IInv, ReapChildren("signal") PROVE IInv'
  OBVIOUS
<1> USE JobsAssumption, LinesAssumption DEF IInv, TypeOK, Consistent, Threads,
    Places, Reaping, Looking, Launching
<1>1. CASE ReapMore("signal")
  <2>1. CASE children = << >>
    <3>1. TypeOK'  BY <1>1, <2>1 DEF ReapMore, recipe, chain, os
    <3>2. Consistent'  BY <1>1, <2>1 DEF ReapMore, recipe, chain, os
    <3> QED  BY <3>1, <3>2
  <2>2. CASE children # << >>
    <3>1. TypeOK'  BY <1>1, <2>2 DEF ReapMore, recipe, chain, os
    <3>2. Consistent'  BY <1>1, <2>2 DEF ReapMore, recipe, chain, os
    <3> QED  BY <3>1, <3>2
  <2> QED  BY <2>1, <2>2
<1>2. CASE WaitForAny("signal")
  <2>1. CASE proc_array = {}
    <3>1. TypeOK'  BY <1>2, <2>1 DEF WaitForAny, recipe, chain, flags
    <3>2. Consistent'  BY <1>2, <2>1 DEF WaitForAny, recipe, chain, flags
    <3> QED  BY <3>1, <3>2
  <2>2. CASE proc_array # {}
    <3>1. TypeOK'  BY <1>2, <2>2 DEF WaitForAny, recipe, chain, flags
    <3>2. Consistent'  BY <1>2, <2>2 DEF WaitForAny, recipe, chain, flags
    <3> QED  BY <3>1, <3>2
  <2> QED  BY <2>1, <2>2
<1>3. CASE FindChild("signal")
  <2>1. CASE children = << >>
    <3>1. TypeOK'  BY <1>3, <2>1, LastType DEF FindChild, recipe, chain, os, flags
    <3>2. Consistent'  BY <1>3, <2>1, LastType DEF FindChild, recipe, chain, os, flags
    <3> QED  BY <3>1, <3>2
  <2>2. CASE children # << >>
    <3>1. Last(children) \in Jobs  BY <2>2, LastType
    <3>2. c' = [c EXCEPT !["signal"] = Last(children)] /\ GoTo("signal", "reaped")
      BY <1>3, <2>2 DEF FindChild
    <3>3. UNCHANGED <<recipe, chain, os, flags, failed>>  BY <1>3 DEF FindChild
    <3>4. TypeOK'  BY <1>3, <3>1, <3>2, <3>3 DEF FindChild, recipe, chain, os, flags
    <3>5. Consistent'  BY <1>3, <3>2, <3>3 DEF FindChild, recipe, chain, os, flags
    <3> QED  BY <3>4, <3>5
  <2> QED  BY <2>1, <2>2
<1>4. CASE StartNextCommand("signal")
  <2>1. TypeOK'  BY <1>4 DEF StartNextCommand, BeginCommand, chain, flags
  <2>2. Consistent'  BY <1>4 DEF StartNextCommand, BeginCommand, chain, flags
  <2> QED  BY <2>1, <2>2
<1>5. CASE RegisterNext("signal")
  <2>1. TypeOK'  BY <1>5 DEF RegisterNext, Register, recipe, chain, flags
  <2>2. Consistent'  BY <1>5 DEF RegisterNext, Register, recipe, chain, flags
  <2> QED  BY <2>1, <2>2
<1>6. CASE Finish("signal")
  <2>1. TypeOK'  BY <1>6 DEF Finish, recipe, chain, os, flags
  <2>2. Consistent'  BY <1>6 DEF Finish, recipe, chain, os, flags
  <2> QED  BY <2>1, <2>2
<1>7. CASE ReleaseSlot("signal")
  <2>1. TypeOK'  BY <1>7 DEF ReleaseSlot, recipe, os, flags
  <2>2. job_slots_used' = job_slots_used - 1  BY <1>7 DEF ReleaseSlot
  <2>3. at'["signal"] = "released" /\ at'["main"] = at["main"]
    BY <1>7 DEF ReleaseSlot
  <2>4. at["signal"] = "finished" /\ UNCHANGED <<children, jobserver_tokens, suspended>>
    BY <1>7 DEF ReleaseSlot, flags
  <2>5. Len(children') = job_slots_used' + One("main", {"chained", "released"})'
                                           + One("signal", {"released"})'
    BY <2>2, <2>3, <2>4
  <2>6. jobserver_tokens' = Len(children') + One("main", Launching \cup {"unlinked"})'
                                           + One("signal", {"unlinked"})'
    BY <2>3, <2>4
  <2>7. /\ at'["signal"] \in {"reap", "wait"} \cup Looking => job_slots_used' > 0
        /\ at'["main"] \in {"reaped", "finished"} /\ ~suspended' => children' # << >>
        /\ at'["signal"] = "exit" => job_slots_used' = 0
        /\ \A t \in Threads : at'[t] # "fatal"
    BY <2>3, <2>4
  <2>8. Consistent'  BY ONLY <2>5, <2>6, <2>7 DEF Consistent
  <2> QED  BY <2>1, <2>8
<1>8. CASE Unlink("signal")
  <2>1. Len(children) > 0  BY <1>8 DEF Unlink
  <2>2. ButLast(children) \in Seq(Jobs) /\ Len(ButLast(children)) = Len(children) - 1
    BY <2>1, ButLastType
  <2>3. children' \in Seq(Jobs) /\ Len(children') = Len(children) - 1
    BY <1>8, <2>2 DEF Unlink
  <2>4. TypeOK'  BY <1>8, <2>3 DEF Unlink, recipe, os, flags
  <2>5. at["signal"] = "released" /\ at'["signal"] = "unlinked" /\ at'["main"] = at["main"]
    BY <1>8 DEF Unlink
  <2>6. UNCHANGED <<job_slots_used, jobserver_tokens, suspended>>
    BY <1>8 DEF Unlink, flags
  <2>7. Len(children') = job_slots_used' + One("main", {"chained", "released"})'
                                           + One("signal", {"released"})'
    BY <2>3, <2>5, <2>6
  <2>8. jobserver_tokens' = Len(children') + One("main", Launching \cup {"unlinked"})'
                                           + One("signal", {"unlinked"})'
    BY <2>3, <2>5, <2>6
  <2>9. /\ at'["signal"] \in {"reap", "wait"} \cup Looking => job_slots_used' > 0
        /\ at'["main"] \in {"reaped", "finished"} /\ ~suspended' => children' # << >>
        /\ at'["signal"] = "exit" => job_slots_used' = 0
        /\ \A t \in Threads : at'[t] # "fatal"
    BY <1>8, <2>5, <2>6
  <2>10. Consistent'  BY ONLY <2>7, <2>8, <2>9 DEF Consistent
  <2> QED  BY <2>4, <2>10
<1>9. CASE FreeChild("signal")
  <2>1. CASE jobserver_tokens = 0
    <3>1. TypeOK'  BY <1>9, <2>1 DEF FreeChild, os, flags
    <3>2. Consistent'  BY <1>9, <2>1 DEF FreeChild, os, flags
    <3> QED  BY <3>1, <3>2
  <2>2. CASE jobserver_tokens # 0
    <3>1. TypeOK'  BY <1>9, <2>2 DEF FreeChild, os, flags
    <3>2. at'["signal"] = "loop" /\ at'["main"] = at["main"]
      BY <1>9, <2>2 DEF FreeChild
    <3>3. jobserver_tokens' = jobserver_tokens - 1 /\ at["signal"] = "unlinked"
      BY <1>9, <2>2 DEF FreeChild
    <3>4. UNCHANGED <<children, job_slots_used, suspended>>
      BY <1>9, <2>2 DEF FreeChild, flags
    <3>5. Consistent'  BY <3>2, <3>3, <3>4
    <3> QED  BY <3>1, <3>5
  <2> QED  BY <2>1, <2>2
<1> QED
  BY <1>1, <1>2, <1>3, <1>4, <1>5, <1>6, <1>7, <1>8, <1>9 DEF ReapChildren

(* No step of either thread, and no process, disturbs the bookkeeping.     *)
LEMMA NextIInv == IInv /\ [Next]_vars => IInv'
<1> SUFFICES ASSUME IInv, [Next]_vars PROVE IInv'
  OBVIOUS
<1> USE JobsAssumption, LinesAssumption DEF IInv, TypeOK, Consistent, Threads,
    Places, Reaping, Looking, Launching
<1>1. ASSUME NEW f \in Jobs, NewJob(f) PROVE IInv'
  BY <1>1 DEF NewJob, os, flags
<1>2. CASE StartJobCommand
  BY <1>2 DEF StartJobCommand, BeginCommand, chain, flags
<1>3. CASE LaunchRefused
  BY <1>3 DEF LaunchRefused, recipe, os, flags
<1>4. CASE ProcessRegister
  BY <1>4 DEF ProcessRegister, Register, recipe, chain, flags
<1>5. CASE PutOnChain
  BY <1>5, PushType DEF PutOnChain, recipe, os, flags
<1>6. CASE TakeSlot
  BY <1>6 DEF TakeSlot, recipe, os, flags
<1>7. CASE CallReapChildren
  BY <1>7 DEF CallReapChildren, recipe, chain, os, flags
<1>8. CASE Exit
  BY <1>8 DEF Exit, recipe, chain, os, flags
<1>9. CASE ReapChildren("main") \/ ReapChildren("signal")
  BY <1>9, MainReaps, HandlerReaps
<1>10. CASE Signal
  BY <1>10 DEF Signal, recipe, chain, os, flags
<1>11. CASE SuspendThread
  BY <1>11 DEF SuspendThread, recipe, chain, os
<1>12. CASE HandlerLoop
  BY <1>12 DEF HandlerLoop, recipe, chain, os, flags
<1>13. ASSUME NEW p \in Processes, ProcessExit(p) PROVE IInv'
  BY <1>13 DEF ProcessExit, recipe, chain, flags
<1>14. CASE UNCHANGED vars
  BY <1>14 DEF vars, recipe, chain, os, flags
<1> QED
  BY <1>1, <1>2, <1>3, <1>4, <1>5, <1>6, <1>7, <1>8, <1>9, <1>10, <1>11, <1>12,
     <1>13, <1>14 DEF Next, MainOnly, Handler

(* The inductive invariant: types, and the consistency below.              *)
THEOREM Invariance == Spec => []IInv
<1>1. Init => IInv  BY InitIInv
<1>2. IInv /\ [Next]_vars => IInv'  BY NextIInv
<1> QED  BY <1>1, <1>2, PTL DEF Spec

(* reap_children's comment, "children and job_slots_used are always        *)
(* consistent" (job.c): true between any two statements that change them.  *)
THEOREM AlwaysConsistent == Spec => []Consistent
<1>1. IInv => Consistent  BY DEF IInv
<1> QED  BY <1>1, Invariance, PTL

-----------------------------------------------------------------------------
(* The process of a command just begun is not yet waited for; every other  *)
(* one that runs is.                                                       *)
Begun == {"begun", "begun_next"}
Newest == <<c["main"], line[c["main"]]>>
Fresh ==
    /\ \A f \in Jobs, n \in Nat : <<f, n>> \in proc_array => n <= line[f]
    /\ at["main"] \in Begun => Newest \notin proc_array
Tracked == live \subseteq proc_array \cup IF at["main"] \in Begun THEN {Newest} ELSE {}
Waited == Awaited /\ Fresh /\ Tracked

LEMMA InitWaited == Init => Waited
<1> SUFFICES ASSUME Init PROVE Waited  OBVIOUS
<1>1. at["main"] = "idle" /\ at["signal"] = "none" /\ proc_array = {} /\ live = {}
      /\ job_slots_used = 0
  BY DEF Init, Threads
<1>2. IsFiniteSet(proc_array) /\ Cardinality(proc_array) = 0
  BY <1>1, FS_EmptySet
<1> QED
  BY <1>1, <1>2 DEF Waited, Awaited, Fresh, Tracked, Begun, Looking

(* Steps that leave the processes alone, and the slots and the places that *)
(* count, keep them.                                                       *)
LEMMA SameProcesses ==
  ASSUME IInv, Waited, UNCHANGED <<line, os, job_slots_used>>,
         at'["main"] = at["main"] \/ {at["main"], at'["main"]} \cap
             (Looking \cup Begun \cup {"registered", "chained"}) = {}
             \/ {at["main"], at'["main"]} \subseteq Looking
             \/ {at["main"], at'["main"]} \subseteq {"registered", "chained"},
         {at["signal"], at'["signal"]} \cap Looking = {}
             \/ {at["signal"], at'["signal"]} \subseteq Looking,
         c'["main"] = c["main"] \/ at["main"] \notin Begun
  PROVE  Waited'
<1>1. /\ UNCHANGED <<line, proc_array, live, job_slots_used>>
      /\ at["main"] \in Begun <=> at'["main"] \in Begun
      /\ at["main"] \in Looking \cup {"begun_next"} <=>
            at'["main"] \in Looking \cup {"begun_next"}
      /\ at["main"] \in {"registered", "chained"} <=>
            at'["main"] \in {"registered", "chained"}
      /\ at["signal"] \in Looking <=> at'["signal"] \in Looking
  BY DEF os, Begun, Looking
<1>2. at["main"] \in Begun => Newest' = Newest
  BY <1>1 DEF Newest
<1> QED
  BY <1>1, <1>2 DEF Waited, Awaited, Fresh, Tracked

(* A command begun: its process is a new one.                              *)
LEMMA Begins ==
  ASSUME IInv, Waited, IInv', NEW from, from \in {"primed", "reaped"},
         at["main"] = from, BeginCommand(c["main"]),
         at'["main"] = IF from = "primed" THEN "begun" ELSE "begun_next",
         at'["signal"] = at["signal"], UNCHANGED <<proc_array, job_slots_used, c>>
  PROVE  Waited'
<1> DEFINE f == c["main"]
<1>1. f \in Jobs /\ line \in [Jobs -> Nat] /\ at'["main"] \in Begun
  BY DEF IInv, TypeOK, Threads, Launching, Begun
<1>2. line'[f] = line[f] + 1 /\ \A g \in Jobs : line[g] <= line'[g] /\ line[g] \in Nat /\ line'[g] \in Nat
  BY <1>1 DEF BeginCommand
<1>3. Newest' = <<f, line[f] + 1>> /\ Newest' \notin proc_array
  BY <1>1, <1>2 DEF Newest, Waited, Fresh
<1>4. Awaited'
  BY <1>1 DEF Waited, Awaited, Looking, Begun
<1>5. Fresh'
  BY <1>2, <1>3 DEF Waited, Fresh
<1>6. Tracked'
  <2>1. live \subseteq proc_array
    BY DEF Waited, Tracked, Begun
  <2> QED  BY <1>1, <1>3, <2>1 DEF Tracked, BeginCommand
<1> QED  BY <1>4, <1>5, <1>6 DEF Waited

(* A process registered is one more to wait for.                           *)
LEMMA Registers ==
  ASSUME IInv, Waited,
         \/ Register("main", "begun", "registered")
         \/ Register("main", "begun_next", "reap")
  PROVE  Waited'
<1>1. /\ at["main"] \in Begun
      /\ proc_array' = proc_array \cup {Newest}
      /\ UNCHANGED <<line, live, job_slots_used, c>>
      /\ at'["signal"] = at["signal"]
      /\ IF at["main"] = "begun" THEN at'["main"] = "registered" ELSE at'["main"] = "reap"
  BY DEF Register, Newest, recipe, chain, Begun, IInv, TypeOK, Threads
<1>2. c["main"] \in Jobs /\ line \in [Jobs -> Nat]
  BY <1>1 DEF IInv, TypeOK, Launching, Begun
<1>3. IsFiniteSet(proc_array') /\ Cardinality(proc_array') = Cardinality(proc_array) + 1
  BY <1>1, FS_AddElement DEF Waited, Awaited, Fresh
<1>4. Cardinality(proc_array) \in Nat
  BY FS_CardinalityType DEF Waited, Awaited
<1>5. Awaited'
  <2>1. job_slots_used \in Nat  BY DEF IInv, TypeOK
  <2>2. One("signal", Looking)' = One("signal", Looking) /\ One("signal", Looking) \in {0, 1}
    BY <1>1
  <2>3. Cardinality(proc_array) + One("main", Looking \cup {"begun_next"})
          + One("signal", Looking) = job_slots_used + One("main", {"registered", "chained"})
    BY DEF Waited, Awaited
  <2>4. CASE at["main"] = "begun"
    BY <1>1, <1>3, <1>4, <2>1, <2>2, <2>3, <2>4 DEF Awaited, Looking
  <2>5. CASE at["main"] = "begun_next"
    BY <1>1, <1>3, <1>4, <2>1, <2>2, <2>3, <2>5 DEF Awaited, Looking
  <2> QED  BY <1>1, <2>4, <2>5 DEF Begun
<1>6. Fresh'
  BY <1>1, <1>2 DEF Waited, Fresh, Newest, Begun
<1>7. Tracked'
  BY <1>1 DEF Waited, Tracked, Begun
<1> QED  BY <1>5, <1>6, <1>7 DEF Waited

(* A dead process found is one less to wait for.                           *)
LEMMA Waits ==
  ASSUME IInv, Waited, NEW t \in Threads, WaitForAny(t), proc_array # {}
  PROVE  Waited'
<1>1. PICK p \in proc_array \ live : proc_array' = proc_array \ {p}
  BY DEF WaitForAny
<1>2. /\ UNCHANGED <<line, live, job_slots_used, c>>
      /\ at[t] = "wait" /\ at' = [at EXCEPT ![t] = "found"]
  BY DEF WaitForAny, recipe, chain
<1>3. at \in [Threads -> Places \cup {"none", "enter", "loop"}] /\ job_slots_used \in Nat
  BY DEF IInv, TypeOK
<1>4. /\ IsFiniteSet(proc_array') /\ Cardinality(proc_array') = Cardinality(proc_array) - 1
      /\ Cardinality(proc_array) \in Nat
  BY <1>1, FS_RemoveElement, FS_CardinalityType DEF Waited, Awaited
<1>5. at'["main"] \in Begun <=> at["main"] \in Begun
  BY <1>2, <1>3 DEF Begun, Threads
<1>6. Newest' = Newest
  BY <1>2 DEF Newest
<1>7. Awaited'
  <2>1. CASE t = "main"
    BY <1>2, <1>3, <1>4, <2>1 DEF Waited, Awaited, Looking, Threads
  <2>2. CASE t = "signal"
    BY <1>2, <1>3, <1>4, <2>2 DEF Waited, Awaited, Looking, Threads
  <2> QED  BY <2>1, <2>2 DEF Threads
<1>8. Fresh'
  BY <1>1, <1>2, <1>5, <1>6 DEF Waited, Fresh
<1>9. Tracked'
  BY <1>1, <1>2, <1>5, <1>6 DEF Waited, Tracked
<1> QED  BY <1>7, <1>8, <1>9 DEF Waited

(* A slot taken, or given back: the place of the thread makes up for it.   *)
LEMMA Slots ==
  ASSUME IInv, Waited, NEW t \in Threads, TakeSlot \/ ReleaseSlot(t)
  PROVE  Waited'
<1>1. UNCHANGED <<line, proc_array, live, c>>
  BY DEF TakeSlot, ReleaseSlot, recipe, os
<1>2. at \in [Threads -> Places \cup {"none", "enter", "loop"}] /\ job_slots_used \in Nat
  BY DEF IInv, TypeOK
<1>3. IsFiniteSet(proc_array) /\ Cardinality(proc_array) \in Nat
  BY FS_CardinalityType DEF Waited, Awaited
<1>4. Newest' = Newest
  BY <1>1 DEF Newest
<1>5. Awaited'
  <2>1. CASE TakeSlot
    BY <1>1, <1>2, <1>3, <2>1 DEF TakeSlot, Waited, Awaited, Looking, Threads
  <2>2. CASE ReleaseSlot(t) /\ t = "main"
    <3>1. job_slots_used > 0
      BY <1>2, <2>2 DEF ReleaseSlot, IInv, TypeOK, Consistent, Looking, Reaping, Launching
    <3> QED
      BY <1>1, <1>2, <1>3, <2>2, <3>1 DEF ReleaseSlot, Waited, Awaited, Looking, Threads
  <2>3. CASE ReleaseSlot(t) /\ t = "signal"
    <3>1. job_slots_used > 0
      BY <1>2, <2>3 DEF ReleaseSlot, IInv, Consistent, Looking
    <3> QED
      BY <1>1, <1>2, <1>3, <2>3, <3>1 DEF ReleaseSlot, Waited, Awaited, Looking, Threads
  <2> QED  BY <2>1, <2>2, <2>3 DEF Threads
<1>6. at'["main"] \in Begun <=> at["main"] \in Begun
  BY <1>2 DEF TakeSlot, ReleaseSlot, Begun, Threads
<1> QED
  BY <1>1, <1>4, <1>5, <1>6 DEF Waited, Fresh, Tracked

(* No step loses sight of a process.                                       *)
LEMMA NextWaited == IInv /\ IInv' /\ Waited /\ [Next]_vars => Waited'
<1> SUFFICES ASSUME IInv, IInv', Waited, [Next]_vars PROVE Waited'
  OBVIOUS
<1>0. at \in [Threads -> Places \cup {"none", "enter", "loop"}] /\ "main" \in Threads
      /\ "signal" \in Threads
  BY DEF IInv, TypeOK, Threads
<1>1. ASSUME NEW f \in Jobs, NewJob(f) PROVE Waited'
  BY <1>0, <1>1, SameProcesses DEF NewJob, os, Looking, Begun
<1>2. CASE StartJobCommand
  BY <1>0, <1>2, Begins DEF StartJobCommand, chain
<1>3. CASE LaunchRefused
  BY <1>0, <1>3, SameProcesses DEF LaunchRefused, recipe, Looking, Begun
<1>4. CASE ProcessRegister
  BY <1>4, Registers DEF ProcessRegister
<1>5. CASE PutOnChain
  BY <1>0, <1>5, SameProcesses DEF PutOnChain, recipe, Looking, Begun
<1>6. CASE TakeSlot
  BY <1>0, <1>6, Slots
<1>7. CASE CallReapChildren
  BY <1>0, <1>7, SameProcesses DEF CallReapChildren, recipe, chain, Looking, Begun
<1>8. CASE Exit
  BY <1>0, <1>8, SameProcesses DEF Exit, recipe, chain, Looking, Begun
<1>9. ASSUME NEW t \in Threads, ReapChildren(t) PROVE Waited'
  <2>1. t = "main" \/ t = "signal"  BY DEF Threads
  <2>2. CASE ReapMore(t)
    BY <1>0, <2>1, <2>2, SameProcesses DEF ReapMore, recipe, chain, Looking, Begun
  <2>3. CASE WaitForAny(t)
    <3>1. CASE proc_array = {}
      BY <1>0, <2>1, <2>3, <3>1, SameProcesses DEF WaitForAny, recipe, chain, os, Looking, Begun
    <3> QED  BY <2>3, <3>1, Waits
  <2>4. CASE FindChild(t)
    <3>1. Cardinality(proc_array) \in Nat /\ job_slots_used \in Nat /\ children \in Seq(Jobs)
      BY FS_CardinalityType DEF Waited, Awaited, IInv, TypeOK
    <3>2. at[t] = "found" /\ (t = "main" => at["signal"] \in {"none", "enter"})
      BY <1>0, <2>1, <2>4 DEF FindChild, IInv, TypeOK
    <3>3. job_slots_used > 0
      BY <1>0, <2>1, <3>1, <3>2 DEF Waited, Awaited, Looking, IInv, Consistent
    <3>4. Len(children) = job_slots_used + One("main", {"chained", "released"})
                                         + One("signal", {"released"})
      BY DEF IInv, Consistent
    <3>5. Len(children) > 0
      BY <3>1, <3>3, <3>4
    <3>6. children # << >>
      BY <3>5
    <3>7. /\ UNCHANGED <<line, os, job_slots_used>>
          /\ at' = [at EXCEPT ![t] = "reaped"]
          /\ c' = [c EXCEPT ![t] = Last(children)]
      BY <2>4, <3>6 DEF FindChild, recipe, chain
    <3>8. c \in [Threads -> Jobs \cup {NoJob}]
      BY DEF IInv, TypeOK
    <3>9. CASE t = "main"
      BY <1>0, <3>2, <3>7, <3>8, <3>9, SameProcesses DEF Looking, Begun
    <3>10. CASE t = "signal"
      BY <1>0, <3>2, <3>7, <3>8, <3>10, SameProcesses DEF Looking, Begun
    <3> QED  BY <2>1, <3>9, <3>10
  <2>5. CASE StartNextCommand(t)
    <3>1. t = "main"
      BY <2>1, <2>5 DEF StartNextCommand, IInv, TypeOK
    <3> QED  BY <1>0, <2>5, <3>1, Begins DEF StartNextCommand, chain
  <2>6. CASE RegisterNext(t)
    <3>1. t = "main"
      BY <2>1, <2>6 DEF RegisterNext, Register, IInv, TypeOK, Reaping, Looking
    <3> QED  BY <2>6, <3>1, Registers DEF RegisterNext
  <2>7. CASE Finish(t)
    BY <1>0, <2>1, <2>7, SameProcesses DEF Finish, recipe, chain, Looking, Begun
  <2>8. CASE ReleaseSlot(t)
    BY <2>8, Slots
  <2>9. CASE Unlink(t)
    BY <1>0, <2>1, <2>9, SameProcesses DEF Unlink, recipe, Looking, Begun
  <2>10. CASE FreeChild(t)
    BY <1>0, <2>1, <2>10, SameProcesses DEF FreeChild, Looking, Begun
  <2> QED
    BY <1>9, <2>2, <2>3, <2>4, <2>5, <2>6, <2>7, <2>8, <2>9, <2>10 DEF ReapChildren
<1>10. CASE Signal
  BY <1>0, <1>10, SameProcesses DEF Signal, recipe, chain, Looking, Begun
<1>11. CASE SuspendThread
  BY <1>0, <1>11, SameProcesses DEF SuspendThread, recipe, chain, Looking, Begun
<1>12. CASE HandlerLoop
  BY <1>0, <1>12, SameProcesses DEF HandlerLoop, recipe, chain, Looking, Begun
<1>13. ASSUME NEW p \in Processes, ProcessExit(p) PROVE Waited'
  BY <1>13 DEF ProcessExit, recipe, chain, Waited, Awaited, Fresh, Tracked, Newest
<1>14. CASE UNCHANGED vars
  BY <1>14 DEF vars, recipe, chain, os, Waited, Awaited, Fresh, Tracked, Newest
<1> QED
  BY <1>0, <1>1, <1>2, <1>3, <1>4, <1>5, <1>6, <1>7, <1>8, <1>9, <1>10, <1>11, <1>12,
     <1>13, <1>14 DEF Next, MainOnly, Handler

(* process_wait_for_any and the slots agree, at every statement.           *)
THEOREM AlwaysAwaited == Spec => []Awaited
<1>1. Init => IInv /\ Waited  BY InitIInv, InitWaited
<1>2. IInv /\ Waited /\ [Next]_vars => (IInv /\ Waited)'
  BY NextIInv, NextWaited
<1>3. Waited => Awaited  BY DEF Waited
<1> QED  BY <1>1, <1>2, <1>3, PTL DEF Spec

(* The handler leaves at most one process behind, the one being launched.  *)
THEOREM NeverAbandoned == Spec => []NoneAbandoned
<1>1. Init => IInv /\ Waited  BY InitIInv, InitWaited
<1>2. IInv /\ Waited /\ [Next]_vars => (IInv /\ Waited)'
  BY NextIInv, NextWaited
<1>3. IInv /\ Waited => NoneAbandoned
  <2> SUFFICES ASSUME IInv, Waited PROVE NoneAbandoned  OBVIOUS
  <2>1. /\ IsFiniteSet(proc_array) /\ Cardinality(proc_array) \in Nat
        /\ job_slots_used \in Nat
    BY FS_CardinalityType DEF Waited, Awaited, IInv, TypeOK
  <2>2. Cardinality(live) <= Cardinality(proc_array) + One("main", Begun) /\ IsFiniteSet(live)
    <3>1. CASE at["main"] \in Begun
      <4>1. /\ IsFiniteSet(proc_array \cup {Newest})
            /\ Cardinality(proc_array \cup {Newest}) <= Cardinality(proc_array) + 1
        BY <2>1, FS_AddElement
      <4>2. live \in SUBSET (proc_array \cup {Newest})
        BY <3>1 DEF Waited, Tracked
      <4>3. IsFiniteSet(live) /\ Cardinality(live) <= Cardinality(proc_array \cup {Newest})
        BY <4>1, <4>2, FS_Subset
      <4> QED  BY <2>1, <3>1, <4>1, <4>3, FS_CardinalityType
    <3>2. CASE at["main"] \notin Begun
      <4>1. live \in SUBSET proc_array
        BY <3>2 DEF Waited, Tracked
      <4> QED  BY <2>1, <3>2, <4>1, FS_Subset
    <3> QED  BY <3>1, <3>2
  <2>3. Cardinality(live) \in Nat
    BY <2>2, FS_CardinalityType
  <2>4. ASSUME at["signal"] = "exit"
        PROVE  Cardinality(live) <= One("main", {"begun", "registered", "chained"})
    <3>1. job_slots_used = 0
      BY <2>4 DEF IInv, Consistent
    <3>2. Cardinality(proc_array) + One("main", Looking \cup {"begun_next"})
            = One("main", {"registered", "chained"})
      BY <2>1, <2>4, <3>1 DEF Waited, Awaited, Looking
    <3> QED  BY <2>1, <2>2, <2>3, <3>2 DEF Begun, Looking
  <2> QED  BY <2>2, <2>4 DEF NoneAbandoned, Begun
<1> QED  BY <1>1, <1>2, <1>3, PTL DEF Spec
=============================================================================
