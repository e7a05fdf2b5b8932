---------------------------- MODULE FatalSignal ----------------------------
(***************************************************************************)
(* Ctrl+C: Windows runs fatal_error_signal (commands.c) in a thread of its *)
(* own, which suspends the main thread wherever it happens to be and then  *)
(* calls reap_children itself.  block_sigs does nothing in this build, so  *)
(* the steps here are the statements of reap_children and of the way from  *)
(* new_job to the chain (job.c), between any two of which the main thread  *)
(* can be stopped for good.                                                *)
(*                                                                         *)
(* The handle main_thread that the handler needs is made by the first call *)
(* of reap_children that waits; before that nothing stops the main thread, *)
(* both threads race for the chain, and nothing is modelled.  No $(shell)  *)
(* and no built-in command is under way.                                   *)
(***************************************************************************)
EXTENDS Integers, Sequences, FiniteSets

CONSTANTS
    Jobs,       \* the targets that have a recipe
    NoJob,
    MaxLines    \* bound: commands of a recipe

ASSUME JobsAssumption == NoJob \notin Jobs
ASSUME LinesAssumption == MaxLines \in Nat \ {0}

Threads == {"main", "signal"}
Processes == Jobs \X (1..MaxLines)

VARIABLES
    lines,              \* given: how many commands a recipe has
    line,               \* how many of them were started
    todo,               \* the targets still to be made
    children, job_slots_used, jobserver_tokens,
    proc_array,         \* the processes process_wait_for_any waits for
    live,               \* the processes that run
    main_thread,        \* whether the main thread is known
    suspended, handling_fatal_signal,
    at, c, failed       \* per thread: the next statement; its child, its result

recipe == <<lines, line, todo>>
chain == <<children, job_slots_used, jobserver_tokens>>
os == <<proc_array, live>>
flags == <<main_thread, suspended, handling_fatal_signal>>
vars == <<recipe, chain, os, flags, at, c, failed>>

Init ==
    /\ lines \in [Jobs -> 1..MaxLines]
    /\ line = [f \in Jobs |-> 0]
    /\ todo = Jobs
    /\ children = << >>
    /\ job_slots_used = 0
    /\ jobserver_tokens = 0
    /\ proc_array = {}
    /\ live = {}
    /\ main_thread = FALSE
    /\ suspended = FALSE
    /\ handling_fatal_signal = FALSE
    /\ at = [t \in Threads |-> IF t = "main" THEN "idle" ELSE "none"]
    /\ c = [t \in Threads |-> NoJob]
    /\ failed = [t \in Threads |-> FALSE]

Over == \E t \in Threads : at[t] \in {"exit", "fatal"}
CanRun(t) == ~Over /\ (t = "main" => ~suspended)
Is(t, place) == CanRun(t) /\ at[t] = place
GoTo(t, place) == at' = [at EXCEPT ![t] = place]
Leave(t) == GoTo(t, IF t = "main" THEN "idle" ELSE "loop")
Last(s) == s[Len(s)]
ButLast(s) == SubSeq(s, 1, Len(s) - 1)

-----------------------------------------------------------------------------
(* new_job, start_waiting_job and process_easy, in the main thread          *)

NewJob(f) ==
    /\ Is("main", "idle")
    /\ f \in todo
    /\ todo' = todo \ {f}
    /\ jobserver_tokens' = jobserver_tokens + 1
    /\ c' = [c EXCEPT !["main"] = f]
    /\ GoTo("main", "primed")
    /\ UNCHANGED <<lines, line, children, job_slots_used, os, flags, failed>>

BeginCommand(f) ==
    /\ line' = [line EXCEPT ![f] = @ + 1]
    /\ live' = live \cup {<<f, line[f] + 1>>}

StartJobCommand ==
    /\ Is("main", "primed")
    /\ BeginCommand(c["main"])
    /\ GoTo("main", "begun")
    /\ UNCHANGED <<lines, todo, chain, proc_array, flags, c, failed>>

LaunchRefused ==
    /\ Is("main", "primed")
    /\ jobserver_tokens' = jobserver_tokens - 1
    /\ GoTo("main", "idle")
    /\ UNCHANGED <<recipe, children, job_slots_used, os, flags, c, failed>>

Register(t, from, to) ==
    /\ Is(t, from)
    /\ proc_array' = proc_array \cup {<<c[t], line[c[t]]>>}
    /\ GoTo(t, to)
    /\ UNCHANGED <<recipe, chain, live, flags, c, failed>>

ProcessRegister == Register("main", "begun", "registered")

PutOnChain ==
    /\ Is("main", "registered")
    /\ children' = <<c["main"]>> \o children
    /\ GoTo("main", "chained")
    /\ UNCHANGED <<recipe, job_slots_used, jobserver_tokens, os, flags, c, failed>>

TakeSlot ==
    /\ Is("main", "chained")
    /\ job_slots_used' = job_slots_used + 1
    /\ GoTo("main", "idle")
    /\ UNCHANGED <<recipe, children, jobserver_tokens, os, flags, c, failed>>

-----------------------------------------------------------------------------
(* reap_children, in either thread                                         *)

CallReapChildren ==
    /\ Is("main", "idle")
    /\ GoTo("main", "reap")
    /\ UNCHANGED <<recipe, chain, os, flags, c, failed>>

(* The condition of the loop, and the handle of the main thread.           *)
ReapMore(t) ==
    /\ Is(t, "reap")
    /\ IF children = << >>
       THEN Leave(t) /\ UNCHANGED main_thread
       ELSE GoTo(t, "wait") /\ main_thread' = TRUE
    /\ UNCHANGED <<recipe, chain, os, suspended, handling_fatal_signal, c, failed>>

(* Seeded defect: the process stays among those to wait for.               *)
WaitForAnyAgain(t) ==
    /\ Is(t, "wait")
    /\ IF proc_array = {}
       THEN Leave(t) /\ UNCHANGED failed
       ELSE /\ proc_array \ live # {}
            /\ \E b \in BOOLEAN : failed' = [failed EXCEPT ![t] = b]
            /\ GoTo(t, "found")
    /\ UNCHANGED <<recipe, chain, os, flags, c>>

(* With nothing to wait for, pid is 0, which is also shell_function_pid:   *)
(* the loop is left as if a $(shell) had ended.                            *)
WaitForAny(t) ==
    /\ Is(t, "wait")
    /\ IF proc_array = {}
       THEN Leave(t) /\ UNCHANGED <<proc_array, failed>>
       ELSE /\ \E p \in proc_array \ live : proc_array' = proc_array \ {p}
            /\ \E b \in BOOLEAN : failed' = [failed EXCEPT ![t] = b]
            /\ GoTo(t, "found")
    /\ UNCHANGED <<recipe, chain, live, flags, c>>

(* The oldest child is taken for the dead one; none: an unknown child.     *)
FindChild(t) ==
    /\ Is(t, "found")
    /\ IF children = << >>
       THEN GoTo(t, "reap") /\ UNCHANGED c
       ELSE c' = [c EXCEPT ![t] = Last(children)] /\ GoTo(t, "reaped")
    /\ UNCHANGED <<recipe, chain, os, flags, failed>>

HasNextCommand(t) == line[c[t]] < lines[c[t]]

StartNextCommand(t) ==
    /\ Is(t, "reaped")
    /\ ~failed[t] /\ HasNextCommand(t) /\ ~handling_fatal_signal
    /\ BeginCommand(c[t])
    /\ GoTo(t, "begun_next")
    /\ UNCHANGED <<lines, todo, chain, proc_array, flags, c, failed>>

RegisterNext(t) == Register(t, "begun_next", "reap")

(* The recipe is at its end, failed, may not go on because make is dying,  *)
(* or its next command could not be launched.                              *)
Finish(t) ==
    /\ Is(t, "reaped")
    /\ GoTo(t, "finished")
    /\ UNCHANGED <<recipe, chain, os, flags, c, failed>>

(* Seeded defects: the slot kept; kept when make is dying.                 *)
ReleaseSlotNever(t) ==
    /\ Is(t, "finished")
    /\ GoTo(t, "released")
    /\ UNCHANGED <<recipe, chain, os, flags, c, failed>>
ReleaseSlotUnlessDying(t) ==
    /\ Is(t, "finished")
    /\ job_slots_used' = IF handling_fatal_signal THEN job_slots_used
                         ELSE job_slots_used - 1
    /\ GoTo(t, "released")
    /\ UNCHANGED <<recipe, children, jobserver_tokens, os, flags, c, failed>>

ReleaseSlot(t) ==
    /\ Is(t, "finished")
    /\ job_slots_used' = IF job_slots_used > 0 THEN job_slots_used - 1 ELSE 0
    /\ GoTo(t, "released")
    /\ UNCHANGED <<recipe, children, jobserver_tokens, os, flags, c, failed>>

Unlink(t) ==
    /\ Is(t, "released")
    /\ children' = ButLast(children)
    /\ GoTo(t, "unlinked")
    /\ UNCHANGED <<recipe, job_slots_used, jobserver_tokens, os, flags, c, failed>>

(* free_child, fatal without a token; die ends the making of targets, and  *)
(* is left to fatal_error_signal when that is at work.                     *)
FreeChild(t) ==
    /\ Is(t, "unlinked")
    /\ IF jobserver_tokens = 0
       THEN GoTo(t, "fatal") /\ UNCHANGED <<jobserver_tokens, todo>>
       ELSE /\ jobserver_tokens' = jobserver_tokens - 1
            /\ Leave(t)
            /\ \/ UNCHANGED todo
               \/ failed[t] /\ ~handling_fatal_signal /\ todo' = {}
    /\ UNCHANGED <<lines, line, children, job_slots_used, os, flags, c, failed>>

Exit ==
    /\ Is("main", "idle")
    /\ todo = {} /\ job_slots_used = 0
    /\ GoTo("main", "exit")
    /\ UNCHANGED <<recipe, chain, os, flags, c, failed>>

-----------------------------------------------------------------------------
(* fatal_error_signal                                                      *)

Signal ==
    /\ Is("signal", "none")
    /\ main_thread
    /\ GoTo("signal", "enter")
    /\ UNCHANGED <<recipe, chain, os, flags, c, failed>>

SuspendThread ==
    /\ Is("signal", "enter")
    /\ suspended' = TRUE
    /\ handling_fatal_signal' = TRUE
    /\ GoTo("signal", "loop")
    /\ UNCHANGED <<recipe, chain, os, main_thread, c, failed>>

(* Seeded defect: the last child not waited for.                           *)
HandlerLoopEarly ==
    /\ Is("signal", "loop")
    /\ GoTo("signal", IF job_slots_used > 1 THEN "reap" ELSE "exit")
    /\ UNCHANGED <<recipe, chain, os, flags, c, failed>>

HandlerLoop ==
    /\ Is("signal", "loop")
    /\ GoTo("signal", IF job_slots_used > 0 THEN "reap" ELSE "exit")
    /\ UNCHANGED <<recipe, chain, os, flags, c, failed>>

ProcessExit(p) ==
    /\ p \in live
    /\ live' = live \ {p}
    /\ UNCHANGED <<recipe, chain, proc_array, flags, at, c, failed>>

-----------------------------------------------------------------------------
ReapChildren(t) ==
    \/ ReapMore(t) \/ WaitForAny(t) \/ FindChild(t)
    \/ StartNextCommand(t) \/ RegisterNext(t)
    \/ Finish(t) \/ ReleaseSlot(t) \/ Unlink(t) \/ FreeChild(t)

MainOnly ==
    \/ \E f \in Jobs : NewJob(f)
    \/ StartJobCommand \/ LaunchRefused \/ ProcessRegister
    \/ PutOnChain \/ TakeSlot \/ CallReapChildren \/ Exit

Handler == SuspendThread \/ HandlerLoop \/ ReapChildren("signal")

Next ==
    \/ MainOnly
    \/ ReapChildren("main")
    \/ Signal
    \/ Handler
    \/ \E p \in Processes : ProcessExit(p)

(* The handler runs on, and the processes end: Ctrl+C reaches them too.    *)
Spec ==
    /\ Init /\ [][Next]_vars
    /\ WF_vars(Handler)
    /\ \A p \in Processes : WF_vars(ProcessExit(p))

-----------------------------------------------------------------------------
Launching == {"primed", "begun", "registered"}
Looking == {"found", "reaped", "finished"}
Reaping == {"reap", "wait", "released", "unlinked"} \cup Looking
Places == Reaping \cup Launching
              \cup {"idle", "chained", "begun_next", "exit", "fatal"}

TypeOK ==
    /\ lines \in [Jobs -> 1..MaxLines]
    /\ line \in [Jobs -> Nat]
    /\ todo \subseteq Jobs
    /\ children \in Seq(Jobs)
    /\ job_slots_used \in Nat
    /\ jobserver_tokens \in Nat
    /\ main_thread \in BOOLEAN
    /\ suspended \in BOOLEAN
    /\ handling_fatal_signal = suspended
    /\ at \in [Threads -> Places \cup {"none", "enter", "loop"}]
    /\ at["main"] \in Places
    /\ at["signal"] \in Reaping \cup {"none", "enter", "loop", "exit", "fatal"}
    /\ suspended <=> at["signal"] \notin {"none", "enter"}
    /\ c \in [Threads -> Jobs \cup {NoJob}]
    /\ at["main"] \in Launching \cup {"begun_next"} => c["main"] \in Jobs
    /\ \A t \in Threads : at[t] = "reaped" => c[t] \in Jobs
    /\ failed \in [Threads -> BOOLEAN]

(* 1 if thread t is at one of the places.                                  *)
One(t, places) == IF at[t] \in places THEN 1 ELSE 0

(* "children and job_slots_used are always consistent": the chain is one   *)
(* longer just after a child was put on it, or just before it comes off,   *)
(* in either thread; each child on the chain or on its way has a token, so *)
(* free_child never runs out of them (job.c, reap_children, free_child).   *)
Consistent ==
    /\ Len(children) = job_slots_used + One("main", {"chained", "released"})
                                      + One("signal", {"released"})
    /\ jobserver_tokens = Len(children) + One("main", Launching \cup {"unlinked"})
                                        + One("signal", {"unlinked"})
    /\ at["signal"] \in {"reap", "wait"} \cup Looking => job_slots_used > 0
    /\ at["main"] \in {"reaped", "finished"} /\ ~suspended => children # << >>
    /\ at["signal"] = "exit" => job_slots_used = 0
    /\ \A t \in Threads : at[t] # "fatal"

(* process_wait_for_any and the slots agree except between the statements  *)
(* that change them.                                                       *)
Awaited ==
    /\ IsFiniteSet(proc_array)
    /\ Cardinality(proc_array)
         + One("main", Looking \cup {"begun_next"}) + One("signal", Looking)
       = job_slots_used + One("main", {"registered", "chained"})

IInv == TypeOK /\ Consistent

(* When the handler leaves make, at most the one process that was being    *)
(* launched is not waited for: a command already counted never runs on.    *)
NoneAbandoned ==
    /\ Cardinality(live) <= Cardinality(proc_array) + One("main", {"begun", "begun_next"})
    /\ at["signal"] = "exit" =>
          Cardinality(live) <= One("main", {"begun", "registered", "chained"})

(* The handler comes to its end if the main thread was not stopped between *)
(* finding a dead child and giving back its slot, or starting its next     *)
(* command: there its slot stays taken with no process left to wait for.   *)
HandlerEnds ==
    (suspended /\ at["main"] \notin Looking \cup {"begun_next"})
        ~> (at["signal"] = "exit")

(* "While (job_slots_used > 0) reap_children": the handler ends wherever   *)
(* the main thread was stopped.  It does not.                              *)
HandlerAlwaysEnds == suspended ~> (at["signal"] = "exit")
=============================================================================
