----------------------------- MODULE JobControl -----------------------------
(***************************************************************************)
(* make's job control on Windows: job.c (new_job, start_waiting_jobs,      *)
(* start_waiting_job, start_job_command, reap_children, free_child), the   *)
(* $(shell) function of function.c that waits through it, the pass loop of *)
(* update_goal_chain in remake.c that drives it, and die in main.c.        *)
(*                                                                         *)
(* make has one thread, whose position is pc; the processes it starts      *)
(* (module SubProc) exit at any time.  A step is what the thread does      *)
(* between two points where it can block or loop.                          *)
(***************************************************************************)
EXTENDS Integers, Sequences, SequencesExt

CONSTANTS
    Files,        \* the targets that have a recipe
    NoFile,
    Recipes,      \* what a recipe may be, its lines already expanded
    MaxLines,     \* bound: lines of a recipe
    JobSlots,     \* -j; 0 is "no limit"
    NotParallel,  \* .NOTPARALLEL was given
    LoadLimited,  \* -l was given
    KeepGoing,    \* -k
    IgnoreErrors, \* -i
    DontCare,     \* targets whose failure is not fatal (-include makefiles)
    Modes,        \* among "run", "print" (-n) and "question" (-q)
    MAXIMUM_WAIT_OBJECTS

(* A process line is run by CreateProcess, a builtin line by make itself   *)
(* (job_cmd.c), a blank line has nothing after its prefix characters.      *)
Line == [kind : {"process", "builtin", "blank"},
         noerror : BOOLEAN,   \* "-" prefix
         recurse : BOOLEAN]   \* "+" prefix or $(MAKE)

ASSUME FilesAssumption == NoFile \notin Files
ASSUME RecipesAssumption ==
    /\ MaxLines \in Nat
    /\ \A r \in Recipes : /\ r \in [lines : Seq(Line), shell : BOOLEAN]
                          /\ Len(r.lines) <= MaxLines
ASSUME OptionsAssumption ==
    /\ JobSlots \in Nat
    /\ {NotParallel, LoadLimited, KeepGoing, IgnoreErrors} \subseteq BOOLEAN
    /\ DontCare \subseteq Files
    /\ Modes \subseteq {"run", "print", "question"}
ASSUME WaitSlotsAssumption == MAXIMUM_WAIT_OBJECTS \in Nat \ {0}

(* <<f, k>> is line k of f's recipe; <<f, 0>> the $(shell) call in it.     *)
Pids == Files \X (0..MaxLines)
NoPid == <<NoFile, 0>>
NoDead == [pid |-> NoPid, failed |-> FALSE, seen |-> FALSE]

VARIABLES
    recipe,           \* file -> recipe, from the makefile
    mode,             \* just_print_flag and question_flag
    command_state,    \* file->command_state
    update_status,    \* file->update_status
    children,         \* the chain of running children, newest first
    waiting_jobs,     \* the chain of children waiting for the load
    command_line,     \* the next line of each child
    psn,              \* process sequence number: 0 until start_job_command
    builtin_cmd_running,
    builtin,          \* what has become of each built-in command
    job_slots_used,
    jobserver_tokens,
    shell_function_pid,
    shell_function_completed,
    dead,             \* pid and exit code found by reap_children
    pc, file,         \* where the thread is; the argument of new_job
    proc_array, fake_exits_pending, command   \* module SubProc

OS == INSTANCE SubProc WITH Proc <- Pids

given == <<recipe, mode>>
os == <<proc_array, fake_exits_pending, command>>
child == <<command_line, psn, builtin_cmd_running, builtin>>
target == <<command_state, update_status>>
chains == <<children, waiting_jobs, job_slots_used, jobserver_tokens>>
shell == <<shell_function_pid, shell_function_completed>>
vars == <<given, target, chains, child, shell, dead, pc, file, os>>

States == {"not_started", "running", "finished"}
InNewJob == {"kick", "expand", "shell", "slots", "linear"}
Places == InNewJob \cup {"pass", "kick_pass", "reap", "die", "exit"}

TypeOK ==
    /\ recipe \in [Files -> Recipes]
    /\ mode \in Modes
    /\ command_state \in [Files -> States]
    /\ update_status \in [Files -> -1..2]
    /\ children \in Seq(Files)
    /\ waiting_jobs \in Seq(Files)
    /\ command_line \in [Files -> 1..(MaxLines + 1)]
    /\ psn \in [Files -> 0..1]
    /\ builtin_cmd_running \in BOOLEAN
    /\ builtin \in [Pids -> {"new", "won", "lost"}]
    /\ job_slots_used \in Nat
    /\ jobserver_tokens \in Int
    /\ shell_function_pid \in Pids \cup {NoPid}
    /\ shell_function_completed \in BOOLEAN
    /\ dead \in [pid : Pids \cup {NoPid}, failed : BOOLEAN, seen : BOOLEAN]
    /\ pc \in Places
    /\ file \in Files \cup {NoFile}
    /\ pc \in InNewJob => file \in Files
    /\ OS!SubProcTypeOK

Init ==
    /\ recipe \in [Files -> Recipes]
    /\ mode \in Modes
    /\ command_state = [f \in Files |-> "not_started"]
    /\ update_status = [f \in Files |-> -1]
    /\ children = << >>
    /\ waiting_jobs = << >>
    /\ command_line = [f \in Files |-> 1]
    /\ psn = [f \in Files |-> 0]
    /\ builtin_cmd_running = FALSE
    /\ builtin = [p \in Pids |-> "new"]
    /\ job_slots_used = 0
    /\ jobserver_tokens = 0
    /\ shell_function_pid = NoPid
    /\ shell_function_completed = FALSE
    /\ dead = NoDead
    /\ pc = "pass"
    /\ file = NoFile
    /\ OS!SubProcInit

-----------------------------------------------------------------------------
(* start_job_command                                                       *)

Lines(f) == recipe[f].lines

(* Seeded defects: -n not looked at; -q treated like -n.                   *)
SkippedBlankOnly(l) == l.kind = "blank"
SkippedQuestion(l) == l.kind = "blank" \/ (mode # "run" /\ ~l.recurse)

(* The goto next_command cases: nothing on the line, or -n.                *)
Skipped(l) == l.kind = "blank" \/ (mode = "print" /\ ~l.recurse)

(* The recursion through next_command passes over the skipped lines and    *)
(* ends at line k, or one past the recipe when it runs out of lines.       *)
StopsAt(f, k) ==
    /\ k <= Len(Lines(f)) => ~Skipped(Lines(f)[k])
    /\ \A j \in command_line[f]..(k - 1) : Skipped(Lines(f)[j])

(* do_find_exec_builtin_cmd executes a built-in before anything looks at   *)
(* the flags, so the ones passed over have run; their result is dropped.   *)
RunBuiltins(f, k, fate) ==
    builtin' = [p \in Pids |->
        IF /\ p[1] = f /\ p[2] \in command_line[f]..(k - 1)
           /\ Lines(f)[p[2]].kind = "builtin"
        THEN "won"
        ELSE IF p = <<f, k>> THEN fate ELSE builtin[p]]

(* Seeded defect: command_line is advanced although no line was fetched.   *)
NoMoreCommandsCounted(f, k, result) ==
    /\ k > Len(Lines(f))
    /\ result = "won"
    /\ command_line' = [command_line EXCEPT ![f] = k + 1]
    /\ RunBuiltins(f, k, "new")
    /\ UNCHANGED <<builtin_cmd_running, os>>

(***************************************************************************)
(* Starts the next command of f.  result is what it leaves in f's          *)
(* command_state and update_status: "running", or finished with "won" (0), *)
(* "asked" (1) or "lost" (2).                                              *)
(***************************************************************************)
NoMoreCommands(f, k, result) ==
    /\ k > Len(Lines(f))
    /\ result = "won"
    /\ builtin_cmd_running' =
          IF command_line[f] = k THEN builtin_cmd_running
                                 ELSE Lines(f)[k - 1].kind = "builtin"
    /\ command_line' = [command_line EXCEPT ![f] = k]
    /\ RunBuiltins(f, k, "new")
    /\ UNCHANGED os

BuiltinLine(f, k, result) ==
    /\ Lines(f)[k].kind = "builtin"
    /\ \/ result = "running" /\ RunBuiltins(f, k, "won")
       \/ result = "lost" /\ RunBuiltins(f, k, "lost")   \* "-" or not
    /\ UNCHANGED os

ProcessLine(f, k, result) ==
    /\ Lines(f)[k].kind = "process"
    /\ RunBuiltins(f, k, "new")
    /\ IF mode = "question" /\ ~Lines(f)[k].recurse
       THEN result = "asked" /\ UNCHANGED os
       ELSE \/ result = "running" /\ OS!ProcessEasyBegun(<<f, k>>)
            \/ result = "lost" /\ OS!ProcessEasyRefused(<<f, k>>)

(* Seeded defect: builtin_cmd_running is never reset.                      *)
RunLineStillBuiltin(f, k, result) ==
    /\ k <= Len(Lines(f))
    /\ command_line' = [command_line EXCEPT ![f] = k + 1]
    /\ builtin_cmd_running' =
          (builtin_cmd_running \/ Lines(f)[k].kind = "builtin")
    /\ BuiltinLine(f, k, result) \/ ProcessLine(f, k, result)

RunLine(f, k, result) ==
    /\ k <= Len(Lines(f))
    /\ command_line' = [command_line EXCEPT ![f] = k + 1]
    /\ builtin_cmd_running' = (Lines(f)[k].kind = "builtin")
    /\ BuiltinLine(f, k, result) \/ ProcessLine(f, k, result)

(* Seeded defect: psn is not counted.                                      *)
StartJobCommandUnnumbered(f, result) ==
    /\ UNCHANGED psn
    /\ \E k \in command_line[f]..(Len(Lines(f)) + 1) :
          /\ StopsAt(f, k)
          /\ NoMoreCommands(f, k, result) \/ RunLine(f, k, result)

StartJobCommand(f, result) ==
    /\ psn' = [psn EXCEPT ![f] = 1]
    /\ \E k \in command_line[f]..(Len(Lines(f)) + 1) :
          /\ StopsAt(f, k)
          /\ NoMoreCommands(f, k, result) \/ RunLine(f, k, result)

StatusOf(result) ==
    CASE result = "won" -> 0 [] result = "asked" -> 1 [] result = "lost" -> 2

(* The error and next_command exits, through notice_finished_file.         *)
Finish(f, status) ==
    /\ command_state' = [command_state EXCEPT ![f] = "finished"]
    /\ update_status' = [update_status EXCEPT ![f] = status]

-----------------------------------------------------------------------------
(* start_waiting_job                                                       *)

(* Seeded defect: the load makes even the only job wait.                   *)
MustWaitAlone == OS!Full \/ LoadLimited

MustWait == OS!Full \/ (job_slots_used > 0 /\ LoadLimited)

(* Seeded defects: the target is not marked running; its token is dropped. *)
PutOnWaitingChainUnmarked(f, others, tokens) ==
    /\ MustWait
    /\ waiting_jobs' = <<f>> \o others
    /\ jobserver_tokens' = tokens
    /\ UNCHANGED <<target, children, job_slots_used, child, os>>
PutOnWaitingChainTokenless(f, others, tokens) ==
    /\ MustWait
    /\ command_state' = [command_state EXCEPT ![f] = "running"]
    /\ waiting_jobs' = <<f>> \o others
    /\ jobserver_tokens' = tokens - 1
    /\ UNCHANGED <<update_status, children, job_slots_used, child, os>>

(* others is the waiting chain without f, tokens the tokens held with f's. *)
PutOnWaitingChain(f, others, tokens) ==
    /\ MustWait
    /\ command_state' = [command_state EXCEPT ![f] = "running"]
    /\ waiting_jobs' = <<f>> \o others
    /\ jobserver_tokens' = tokens
    /\ UNCHANGED <<update_status, children, job_slots_used, child, os>>

PutOnChildrenChain(f, others, tokens) ==
    /\ ~OS!Full
    /\ StartJobCommand(f, "running")
    /\ command_state' = [command_state EXCEPT ![f] = "running"]
    /\ children' = <<f>> \o children
    /\ job_slots_used' = job_slots_used + 1
    /\ waiting_jobs' = others
    /\ jobserver_tokens' = tokens
    /\ UNCHANGED update_status

(* Seeded defect: free_child is not called.                                *)
FinishAtOnceUnfreed(f, others, tokens) ==
    /\ ~OS!Full
    /\ \E result \in {"won", "asked", "lost"} :
          StartJobCommand(f, result) /\ Finish(f, StatusOf(result))
    /\ waiting_jobs' = others
    /\ jobserver_tokens' = tokens
    /\ UNCHANGED <<children, job_slots_used>>

(* free_child gives the token back.  It calls fatal when there is none;    *)
(* that call is the value -1 here.                                         *)
FinishAtOnce(f, others, tokens) ==
    /\ ~OS!Full
    /\ \E result \in {"won", "asked", "lost"} :
          StartJobCommand(f, result) /\ Finish(f, StatusOf(result))
    /\ waiting_jobs' = others
    /\ jobserver_tokens' = tokens - 1
    /\ UNCHANGED <<children, job_slots_used>>

StartWaitingJob(f, others, tokens) ==
    \/ PutOnWaitingChain(f, others, tokens)
    \/ PutOnChildrenChain(f, others, tokens)
    \/ FinishAtOnce(f, others, tokens)

(* One turn of the loop of start_waiting_jobs, called from new_job         *)
(* ("kick") and from update_goal_chain ("kick_pass").                      *)
StartWaitingJobs ==
    LET done == IF pc = "kick" THEN "expand" ELSE "reap"
    IN  /\ pc \in {"kick", "kick_pass"}
        /\ \/ /\ waiting_jobs = << >>
              /\ pc' = done
              /\ UNCHANGED <<target, chains, child, os>>
           \/ /\ waiting_jobs # << >>
              /\ StartWaitingJob(Head(waiting_jobs), Tail(waiting_jobs),
                                 jobserver_tokens)
              /\ pc' = IF waiting_jobs' = << >> \/ waiting_jobs' = waiting_jobs
                       THEN done ELSE pc
        /\ UNCHANGED <<given, shell, dead, file>>

-----------------------------------------------------------------------------
(* new_job                                                                 *)

NewJob(f) ==
    /\ pc = "pass"
    /\ command_state[f] = "not_started"
    /\ file' = f
    /\ pc' = "kick"
    /\ UNCHANGED <<given, target, chains, child, shell, dead, os>>

(* The lines are expanded; func_shell starts the process it reads from.    *)
ExpandLines ==
    /\ pc = "expand"
    /\ IF recipe[file].shell
       THEN \/ /\ OS!OpenPipe(<<file, 0>>)
               /\ shell_function_pid' = <<file, 0>>
               /\ shell_function_completed' = FALSE
               /\ pc' = "shell"
            \/ /\ OS!ProcessEasyRefused(<<file, 0>>)   \* pipedes[0] < 0
               /\ shell_function_completed' = TRUE
               /\ pc' = "slots"
               /\ UNCHANGED shell_function_pid
       ELSE pc' = "slots" /\ UNCHANGED <<shell, os>>
    /\ UNCHANGED <<given, target, chains, child, dead, file>>

ShellCompleted ==
    /\ pc = "shell"
    /\ shell_function_completed
    /\ shell_function_pid' = NoPid
    /\ pc' = "slots"
    /\ UNCHANGED <<given, target, chains, child, shell_function_completed,
                   dead, file, os>>

(* Seeded defect: off by one.                                              *)
SlotsFullLate == JobSlots # 0 /\ job_slots_used > JobSlots

SlotsFull == JobSlots # 0 /\ job_slots_used = JobSlots

StartJob ==
    /\ pc = "slots"
    /\ ~dead.seen
    /\ ~SlotsFull
    /\ StartWaitingJob(file, waiting_jobs, jobserver_tokens + 1)
    /\ IF JobSlots = 1 \/ NotParallel
       THEN pc' = "linear" /\ UNCHANGED file
       ELSE pc' = "pass" /\ file' = NoFile
    /\ UNCHANGED <<given, shell, dead>>

FinishedLinearly ==
    /\ pc = "linear"
    /\ ~dead.seen
    /\ command_state[file] # "running"
    /\ pc' = "pass"
    /\ file' = NoFile
    /\ UNCHANGED <<given, target, chains, child, shell, dead, os>>

-----------------------------------------------------------------------------
(* reap_children (1, err)                                                  *)

(* The loops that call it, as long as their condition holds.               *)
Blocked ==
    \/ pc = "reap"
    \/ pc = "shell" /\ ~shell_function_completed
    \/ pc = "slots" /\ SlotsFull
    \/ pc = "linear" /\ command_state[file] = "running"
    \/ pc = "die" /\ job_slots_used > 0

SomethingToReap == children # << >> \/ shell_function_pid # NoPid

(* Nothing outstanding: reap_children returns at once.                     *)
NothingToReap ==
    /\ pc = "reap"
    /\ ~SomethingToReap
    /\ pc' = "pass"
    /\ UNCHANGED <<given, target, chains, child, shell, dead, file, os>>

(* A dead process, or pid 0 and exit code 0 without waiting when a         *)
(* built-in is "running" or no process is registered.                      *)
WaitForChild ==
    /\ Blocked /\ ~dead.seen /\ SomethingToReap
    /\ IF builtin_cmd_running \/ proc_array = << >>
       THEN dead' = [NoDead EXCEPT !.seen = TRUE] /\ UNCHANGED os
       ELSE \E p \in Pids :
               /\ OS!ProcessWaitForAny(p)
               /\ dead' = [pid |-> p, failed |-> OS!BadExit(p), seen |-> TRUE]
    /\ UNCHANGED <<given, target, chains, child, shell, pc, file>>

AfterReap == IF pc = "reap" THEN "pass" ELSE pc

(* Seeded defects: pid 0 taken for the shell function while a built-in     *)
(* runs; a shell that fails not recognised.                                *)
IsShellFunctionOrNone == dead.pid = shell_function_pid
IsShellFunctionWon ==
    ~builtin_cmd_running /\ dead.pid = shell_function_pid /\ ~dead.failed

IsShellFunction == ~builtin_cmd_running /\ dead.pid = shell_function_pid

ReapShellFunction ==
    /\ dead.seen
    /\ IsShellFunction
    /\ shell_function_completed' = TRUE
    /\ dead' = NoDead
    /\ pc' = AfterReap
    /\ UNCHANGED <<given, target, chains, child, shell_function_pid, file, os>>

(* "Search for a child matching the deceased one": the first on the chain  *)
(* that is the last or whose successor has psn 0; pid is not compared.     *)
Matching(i) ==
    LET fits(j) == j < Len(children) => psn[children[j + 1]] = 0
    IN  fits(i) /\ \A j \in 1..(i - 1) : ~fits(j)

ReapUnknown ==
    /\ dead.seen
    /\ ~IsShellFunction
    /\ children = << >>
    /\ dead' = NoDead
    /\ UNCHANGED <<given, target, chains, child, shell, pc, file, os>>

(* The noerror flag of the child is that of the line it started last.      *)
Ignored(f, k) == Lines(f)[k].noerror \/ IgnoreErrors
FailsUnforgiven(f) == dead.failed /\ ~IgnoreErrors       \* seeded defect
Fails(f) == dead.failed /\ ~Ignored(f, command_line[f] - 1)
HasNextCommandEarly(f) == command_line[f] < Len(Lines(f)) \* seeded defect
HasNextCommand(f) == command_line[f] <= Len(Lines(f))

(* Seeded defect: the slot is not given back.                              *)
FreeChildHoldingSlot(i, status) ==
    /\ Finish(children[i], status)
    /\ children' = RemoveAt(children, i)
    /\ jobserver_tokens' = jobserver_tokens - 1
    /\ UNCHANGED <<waiting_jobs, job_slots_used>>

(* The child at i leaves the chain with that status.                       *)
FreeChild(i, status) ==
    /\ Finish(children[i], status)
    /\ job_slots_used' = IF job_slots_used > 0 THEN job_slots_used - 1 ELSE 0
    /\ children' = RemoveAt(children, i)
    /\ jobserver_tokens' = jobserver_tokens - 1
    /\ UNCHANGED waiting_jobs

ReapFailed(i) ==
    /\ Fails(children[i])
    /\ FreeChild(i, 2)
    /\ IF ~KeepGoing /\ children[i] \notin DontCare /\ pc # "die"
       THEN pc' = "die" /\ file' = NoFile
       ELSE pc' = AfterReap /\ UNCHANGED file
    /\ UNCHANGED <<child, os>>

ReapFinished(i) ==
    /\ ~Fails(children[i])
    /\ ~HasNextCommand(children[i])
    /\ FreeChild(i, 0)
    /\ pc' = AfterReap
    /\ UNCHANGED <<child, file, os>>

ReapAndContinue(i) ==
    /\ ~Fails(children[i])
    /\ HasNextCommand(children[i])
    /\ \/ /\ StartJobCommand(children[i], "running")   \* loop to reap more
          /\ UNCHANGED <<target, chains, pc>>
       \/ /\ \E result \in {"won", "asked", "lost"} :
                /\ StartJobCommand(children[i], result)
                /\ FreeChild(i, StatusOf(result))
          /\ pc' = AfterReap
    /\ UNCHANGED file

ReapChild ==
    /\ dead.seen
    /\ ~IsShellFunction
    /\ \E i \in 1..Len(children) :
          /\ Matching(i)
          /\ ReapFailed(i) \/ ReapFinished(i) \/ ReapAndContinue(i)
    /\ dead' = NoDead
    /\ UNCHANGED <<given, shell>>

-----------------------------------------------------------------------------
(* update_goal_chain and die                                               *)

(* Seeded defect: start_waiting_jobs is left out of the pass loop.         *)
NextPassUnkicked ==
    /\ pc = "pass"
    /\ \E f \in Files : command_state[f] = "running"
    /\ pc' = "reap"
    /\ UNCHANGED <<given, target, chains, child, shell, dead, file, os>>

(* A pass over the graph ends; what it has not started depends on targets  *)
(* that are still running.                                                 *)
NextPass ==
    /\ pc = "pass"
    /\ \E f \in Files : command_state[f] = "running"
    /\ pc' = "kick_pass"
    /\ UNCHANGED <<given, target, chains, child, shell, dead, file, os>>

(* Every goal is finished: main calls die with the status.                 *)
GoalsDone ==
    /\ pc = "pass"
    /\ \A f \in Files : command_state[f] = "finished"
    /\ pc' = "die"
    /\ UNCHANGED <<given, target, chains, child, shell, dead, file, os>>

(* Without -k a missing rule is fatal, and under -q the first answer ends  *)
(* the pass, whatever is still running.                                    *)
GiveUp ==
    /\ pc = "pass"
    /\ ~KeepGoing
    /\ pc' = "die"
    /\ UNCHANGED <<given, target, chains, child, shell, dead, file, os>>

(* Seeded defect: die does not wait.                                       *)
ExitAtOnce ==
    /\ pc = "die"
    /\ ~dead.seen
    /\ pc' = "exit"
    /\ UNCHANGED <<given, target, chains, child, shell, dead, file, os>>

(* die waits for the children it counts.                                   *)
Exit ==
    /\ pc = "die"
    /\ ~dead.seen
    /\ job_slots_used = 0
    /\ pc' = "exit"
    /\ UNCHANGED <<given, target, chains, child, shell, dead, file, os>>

CommandExits ==
    /\ \E p \in Pids : OS!ProcessExit(p)
    /\ UNCHANGED <<given, target, chains, child, shell, dead, pc, file>>

Make ==
    \/ \E f \in Files : NewJob(f)
    \/ StartWaitingJobs \/ ExpandLines \/ ShellCompleted
    \/ StartJob \/ FinishedLinearly
    \/ NothingToReap \/ WaitForChild
    \/ ReapShellFunction \/ ReapUnknown \/ ReapChild
    \/ NextPass \/ GoalsDone \/ GiveUp \/ Exit

Next == Make \/ CommandExits

(* make runs on while it can; every command it runs comes to an end.       *)
Spec ==
    /\ Init
    /\ [][Next]_vars
    /\ WF_vars(Make)
    /\ WF_vars(CommandExits)

-----------------------------------------------------------------------------
(* Properties                                                              *)

(* job_slots_used counts the children chain and every child, running or    *)
(* waiting, holds one token: die stops waiting exactly when nothing runs,  *)
(* and the "INTERNAL: Freeing child ... but no tokens left" of free_child  *)
(* is never reached.                                                       *)
Accounting ==
    /\ job_slots_used = Len(children)
    /\ jobserver_tokens = Len(children) + Len(waiting_jobs)

(* A target is in state running exactly while its child is on one of the   *)
(* two chains, once: no job is forgotten and none is started or freed      *)
(* twice, across deferral by the load limit, restarts and reaping.         *)
Tracked ==
    /\ {f \in Files : command_state[f] = "running"} =
          ToSet(children) \cup ToSet(waiting_jobs)
    /\ ToSet(children) \cap ToSet(waiting_jobs) = {}
    /\ IsInjective(children) /\ IsInjective(waiting_jobs)

Fate(f, k) ==
    IF Lines(f)[k].kind = "builtin" THEN builtin[<<f, k>>] ELSE command[<<f, k>>]

(* "-" or -i forgives a command that ran and failed, not one that could    *)
(* not be launched at all.                                                 *)
Harmless(f, k) ==
    \/ Lines(f)[k].kind = "blank"
    \/ Fate(f, k) = "won"
    \/ Fate(f, k) \in {"lost", "stillborn"} /\ Ignored(f, k)

(* What make concludes about a target agrees with what the target's own    *)
(* commands did: success only if each of its lines ran and was harmless,   *)
(* failure only if one was not, and then no later line ran.                *)
HonestVerdict ==
    \A f \in Files : command_state[f] = "finished" =>
        \/ /\ update_status[f] = 0
           /\ \A k \in 1..Len(Lines(f)) : Harmless(f, k)
        \/ /\ update_status[f] = 2
           /\ \E k \in 1..Len(Lines(f)) :
                 /\ ~Harmless(f, k)
                 /\ Fate(f, k) \notin {"new", "live"}
                 /\ \A j \in (k + 1)..Len(Lines(f)) :
                       Lines(f)[j].kind = "blank" \/ Fate(f, j) = "new"

(* A command still executing is the current line of a running target: make *)
(* never goes on to the next line, finishes the target or exits over it.   *)
Attended ==
    \A f \in Files, k \in 1..MaxLines :
        command[<<f, k>>] = "live" =>
            command_state[f] = "running" /\ k = command_line[f] - 1

(* At most -j jobs run at once.                                            *)
SlotBound == JobSlots # 0 => job_slots_used <= JobSlots

(* make exits only when every recipe line it started has ended.            *)
NoneLeftRunning ==
    pc = "exit" => \A f \in Files, k \in 1..MaxLines : command[<<f, k>>] # "live"

(* And when every process started for $(shell) has ended, even if a job    *)
(* reaped while func_shell waits for it fails.                             *)
NoShellLeftRunning == pc = "exit" => \A f \in Files : command[<<f, 0>>] # "live"

(* reap_children identifies the dead child by psn, not by pid: it can only *)
(* ever free the oldest one.                                               *)
OldestFirst ==
    [][Len(children') < Len(children) => children' = Front(children)]_children

(* What the two above rest on: the target new_job is busy with is on no    *)
(* chain yet, although func_shell and the slot loop reap meanwhile; and    *)
(* every child on the chain has started a command, so its psn is not 0.    *)
Fresh ==
    pc \in {"kick", "expand", "shell", "slots"} =>
        command_state[file] = "not_started"
Numbered == \A i \in 1..Len(children) : psn[children[i]] = 1
IInv == TypeOK /\ Accounting /\ Tracked /\ Fresh /\ Numbered

(* The whole of it: job control carries recipes out as the manual says.    *)
Recipe == INSTANCE RecipeRun
    WITH state <- command_state, status <- update_status, Slots <- JobSlots,
         fate <- [p \in Files \X (1..MaxLines) |->
                     IF builtin[p] # "new" THEN builtin[p] ELSE command[p]]
RunsRecipes == Recipe!Spec

(* make terminates; with -k, only when every target has been dealt with.   *)
Termination == <>(pc = "exit")
AllDone == <>[](\A f \in Files : command_state[f] = "finished")

(* A job put off by the load limit or for want of wait slots is started    *)
(* again, unless make gives up.                                            *)
DeferredRun ==
    \A f \in Files :
        f \in ToSet(waiting_jobs) ~> (f \notin ToSet(waiting_jobs) \/ pc = "exit")

(* $(shell) returns once its process has exited, whatever other children   *)
(* are reaped while func_shell waits for it.                               *)
ShellReturns == pc = "shell" ~> pc # "shell"

(* A failed line that "-" or -i forgives does not fail its target.         *)
IgnoredErrors ==
    \A f \in Files : update_status[f] = 2 =>
        \E k \in 1..Len(Lines(f)) :
            \/ Fate(f, k) = "refused"
            \/ Fate(f, k) \in {"lost", "stillborn"} /\ ~Ignored(f, k)

(* Under -n and -q only lines marked as recursive are executed.            *)
DryRun ==
    mode # "run" =>
        \A f \in Files : \A k \in 1..Len(Lines(f)) :
            Lines(f)[k].recurse \/ Fate(f, k) = "new"

(* -q answers 1 exactly for a target with something left to do: the lines  *)
(* before the one it stopped at are blank or ran, and that one did not.    *)
HonestAnswer ==
    mode = "question" =>
        \A f \in Files : update_status[f] \in {0, 1} =>
            LET undone == {k \in 1..Len(Lines(f)) : ~Harmless(f, k)}
            IN  /\ update_status[f] = 0 <=> undone = {}
                /\ \A k \in undone : Fate(f, k) = "new"
=============================================================================
