------------------------------- MODULE Remake -------------------------------
(***************************************************************************)
(* The dependency engine of make, remake.c: update_goal_chain walks the    *)
(* graph of targets in passes, update_file, update_file_1 and check_dep    *)
(* call each other down to new_job, and notice_finished_file records what  *)
(* became of a target.  Job control is reduced to its effect here: a job   *)
(* that was started is reaped, in the middle of a pass or between two.     *)
(*                                                                         *)
(* make's one thread is the stack of procedures it is in; the first frame  *)
(* is the innermost.  pc is "call" while that procedure runs on and        *)
(* "return" when the one it called has just left ret behind.               *)
(***************************************************************************)
EXTENDS Integers, Sequences, SequencesExt, FiniteSetsExt

CONSTANTS
    Files,      \* struct file's; the entries of a double-colon target differ
    Makefiles,  \* what is given: the rules, the goals, and the options
    MaxMtime    \* bound: the age of the files make finds

Dep == [file : Files, ignore_mtime : BOOLEAN]

ASSUME MaxMtimeAssumption == MaxMtime \in Nat
ASSUME MakefilesAssumption ==
    \A m \in Makefiles :
        /\ m.deps \in [Files -> Seq(Dep)]
        /\ m.cmds \in [Files -> {"none", "blank", "commands"}]
        /\ {m.is_target, m.phony, m.intermediate} \subseteq SUBSET Files
        /\ m.also_make \in [Files -> SUBSET Files]
        /\ m.double_colon \in [Files -> Seq(Files)]   \* empty for one colon
        /\ \A f \in Files : \A g \in ToSet(m.double_colon[f]) :
              m.double_colon[g] = m.double_colon[f]
        /\ m.goals \in Seq(Files)
        /\ m.keep_going \in BOOLEAN
        /\ m.linear \in BOOLEAN                       \* -j1 or .NOTPARALLEL

VARIABLES
    makefile,
    deps,           \* file->deps, which loses circular prerequisites
    command_state, update_status, updated, last_mtime,
    updating,       \* on the path from the goal
    visited,        \* the files whose considered bit equals the global one
    jobs,           \* the children of job control
    recipe,         \* history: what became of a recipe: "idle", "started",
                    \* or "over" when nothing of it ran
    goals, status,  \* of update_goal_chain
    stack, pc, ret

file == <<deps, command_state, update_status, updated, last_mtime>>
walk == <<updating, visited>>
thread == <<goals, status, stack, pc, ret>>
vars == <<makefile, file, walk, jobs, recipe, thread>>


Entries(f) == IF makefile.double_colon[f] = << >> THEN <<f>>
              ELSE makefile.double_colon[f]
FirstEntry(f) == Head(Entries(f))
Busy == {"running", "deps_running"}

(* Seeded defects: only the first double-colon entry asked; statuses added *)
(* up; every error taken for fatal.                                        *)
AnyBusyFirst(f) == command_state[FirstEntry(f)] \in Busy
OrSum(a, b) == a + b
FatalAlways(s) == s # 0

AnyBusy(f) == \E i \in 1..Len(Entries(f)) : command_state[Entries(f)[i]] \in Busy
Or(a, b) == IF a # 0 THEN a ELSE b
Fatal(s) == s # 0 /\ ~makefile.keep_going

Goals(g, n, undone) ==
    [proc |-> "update_goal_chain", g |-> g, n |-> n, undone |-> undone]
UpdateFile(f) ==
    [proc |-> "update_file", file |-> f, n |-> 0, d |-> 0, status |-> 0]
UpdateFile1(f) ==
    [proc |-> "update_file_1", file |-> f, at |-> "entry", i |-> 1,
     mtime |-> last_mtime[f], must_make |-> last_mtime[f] = 0, status |-> 0,
     running |-> FALSE]
CheckDep(f, mtime, must_make) ==
    [proc |-> "check_dep", file |-> f, at |-> "entry", i |-> 1,
     mtime |-> mtime, must_make |-> must_make, status |-> 0]
NewJob(f) == [proc |-> "new_job", file |-> f, started |-> FALSE]

NoRet == [status |-> 0, must_make |-> FALSE]
Top == Head(stack)
In(proc, phase) == stack # << >> /\ Top.proc = proc /\ pc = phase
Goto(frame) == stack' = <<frame>> \o Tail(stack) /\ pc' = "call" /\ ret' = NoRet
Call(frame, callee) ==
    /\ stack' = <<callee, frame>> \o Tail(stack)
    /\ pc' = "call"
    /\ ret' = NoRet
Return(s, must_make) ==
    /\ stack' = Tail(stack)
    /\ pc' = "return"
    /\ ret' = [status |-> s, must_make |-> must_make]

Init ==
    /\ makefile \in Makefiles
    /\ deps = makefile.deps
    /\ command_state = [f \in Files |-> "not_started"]
    /\ update_status = [f \in Files |-> -1]
    /\ updated = {}
    /\ last_mtime \in [Files -> 0..MaxMtime]  \* 0 is NONEXISTENT_MTIME
    /\ \A f \in makefile.phony \cup makefile.intermediate : last_mtime[f] = 0
    /\ \A f, g \in Files : g \in ToSet(Entries(f)) => last_mtime[f] = last_mtime[g]
    /\ updating = {}
    /\ visited = {}
    /\ jobs = {}
    /\ recipe = [f \in Files |-> "idle"]
    /\ goals = makefile.goals
    /\ status = -1
    /\ stack = <<Goals(0, 1, FALSE)>>
    /\ pc = "call"
    /\ ret = NoRet

-----------------------------------------------------------------------------
(* notice_finished_file and set_command_state                              *)

(* The entries of a double-colon target share one file on the disk.        *)
Disk(f) == Max({last_mtime[g] : g \in ToSet(Entries(f))})
Now == 1 + Max({last_mtime[g] : g \in Files})

(* Seeded defect: the targets made together with f forgotten.              *)
SetCommandStateAlone(f, state) ==
    command_state' = [command_state EXCEPT ![f] = state]

SetCommandState(f, state) ==
    command_state' = [g \in Files |->
        IF g = f \/ g \in makefile.also_make[f] THEN state ELSE command_state[g]]

(* ran: commands of f came to an end; touched: and they changed its file.  *)
Notice(f, s, ran, touched) ==
    LET siblings == IF ran /\ s # -1 THEN makefile.also_make[f] ELSE {}
        result == IF s = -1 THEN 0 ELSE s
        mtime(g) == CASE g \in makefile.phony -> last_mtime[g]
                      [] g \notin makefile.phony /\ touched -> Now
                      [] OTHER -> Disk(g)
        alone == [g \in Files |-> IF ran /\ g \in {f} \cup siblings
                                  THEN mtime(g) ELSE last_mtime[g]]
        all == ToSet(Entries(f))
    IN  /\ command_state' = [g \in Files |->
              IF g = f \/ g \in siblings THEN "finished" ELSE command_state[g]]
        /\ update_status' = [g \in Files |->
              IF g = f \/ g \in siblings THEN result ELSE update_status[g]]
        /\ updated' = updated \cup {f} \cup siblings
        /\ last_mtime' =
              IF makefile.double_colon[f] # << >> /\ all \subseteq updated \cup {f}
              THEN [g \in Files |-> IF g \in all THEN Max({alone[h] : h \in all})
                                                 ELSE alone[g]]
              ELSE alone

-----------------------------------------------------------------------------
(* Job control                                                             *)

(* A job of the chain ends.  "refused": its next line, or its first after  *)
(* it had to wait, could not be launched; that is no reason to die.        *)
Reap(f, result) ==
    /\ f \in jobs
    /\ jobs' = jobs \ {f}
    /\ \E touched \in BOOLEAN :
          Notice(f, IF result = "won" THEN 0 ELSE 2,
                 command_state[f] = "running", touched)

Dies(result) == result = "lost" /\ ~makefile.keep_going

Die ==
    /\ stack' = << >>
    /\ pc' = "die"
    /\ ret' = NoRet

(* new_job waits for a slot or for a $(shell): other jobs end meanwhile.   *)
ReapInNewJob ==
    /\ In("new_job", "call")
    /\ ~Top.started
    /\ ~makefile.linear
    /\ \E f \in Files, result \in {"won", "lost", "refused"} :
          /\ Reap(f, result)
          /\ IF Dies(result) THEN Die ELSE UNCHANGED <<stack, pc, ret>>
    /\ UNCHANGED <<makefile, deps, walk, recipe, goals, status>>

StartJob ==
    /\ In("new_job", "call")
    /\ ~Top.started
    /\ jobs' = jobs \cup {Top.file}
    /\ recipe' = [recipe EXCEPT ![Top.file] = "started"]
    /\ SetCommandState(Top.file, "running")
    /\ IF makefile.linear THEN Goto([Top EXCEPT !.started = TRUE])
                          ELSE Return(0, FALSE)
    /\ UNCHANGED <<makefile, deps, update_status, updated, last_mtime, walk,
                   goals, status>>

(* No line has anything on it, or the first cannot be launched.            *)
JobOverAtOnce ==
    /\ In("new_job", "call")
    /\ ~Top.started
    /\ \/ Notice(Top.file, 0, TRUE, FALSE)
       \/ Notice(Top.file, 2, command_state[Top.file] = "running", FALSE)
    /\ recipe' = [recipe EXCEPT ![Top.file] = "over"]
    /\ Return(0, FALSE)
    /\ UNCHANGED <<makefile, deps, walk, jobs, goals, status>>

LinearWait ==
    /\ In("new_job", "call")
    /\ Top.started
    /\ IF command_state[Top.file] = "running"
       THEN \E f \in Files, result \in {"won", "lost", "refused"} :
               /\ Reap(f, result)
               /\ IF Dies(result) THEN Die ELSE UNCHANGED <<stack, pc, ret>>
       ELSE /\ Return(0, FALSE)
            /\ UNCHANGED <<jobs, command_state, update_status, updated, last_mtime>>
    /\ UNCHANGED <<makefile, deps, walk, recipe, goals, status>>

-----------------------------------------------------------------------------
(* update_goal_chain                                                       *)

(* A job that waited for the load is taken up at the start of a pass, and  *)
(* cannot be launched.                                                     *)
StartWaitingJobs ==
    /\ In("update_goal_chain", "call")
    /\ Top.g = 0
    /\ \E f \in Files : Reap(f, "refused")
    /\ UNCHANGED <<makefile, deps, walk, recipe, thread>>

ReapBeforePass ==
    /\ In("update_goal_chain", "call")
    /\ Top.g = 0
    /\ IF jobs = {}
       THEN Goto(Goals(1, 1, FALSE)) /\ UNCHANGED <<jobs, file>>
       ELSE /\ \E f \in Files, result \in {"won", "lost", "refused"} :
                  /\ Reap(f, result)
                  /\ IF Dies(result) THEN Die ELSE Goto(Goals(1, 1, FALSE))
            /\ UNCHANGED deps
    /\ UNCHANGED <<makefile, walk, recipe, goals, status>>

ConsiderGoal ==
    /\ In("update_goal_chain", "call")
    /\ Top.g \in 1..Len(goals)
    /\ Call(Top, UpdateFile(Entries(goals[Top.g])[Top.n]))
    /\ UNCHANGED <<makefile, file, walk, jobs, recipe, goals, status>>

(* The goal is finished when each of its double-colon entries is.          *)
GoalConsidered ==
    /\ In("update_goal_chain", "return")
    /\ LET f == Entries(goals[Top.g])[Top.n]
           undone == Top.undone \/ f \notin updated
       IN  /\ status' = IF /\ ret.status # 0 \/ f \in updated
                           /\ status < 1 /\ update_status[f] # 0
                        THEN update_status[f] ELSE status
           /\ IF Top.n < Len(Entries(f))
              THEN Goto(Goals(Top.g, Top.n + 1, undone)) /\ UNCHANGED goals
              ELSE IF undone
              THEN Goto(Goals(Top.g + 1, 1, FALSE)) /\ UNCHANGED goals
              ELSE /\ Goto(Goals(Top.g, 1, FALSE))
                   /\ goals' = RemoveAt(goals, Top.g)
    /\ UNCHANGED <<makefile, file, walk, jobs, recipe>>

(* Seeded defect: considered not toggled.                                  *)
EndPassUntoggled ==
    /\ In("update_goal_chain", "call")
    /\ Top.g > Len(goals)
    /\ IF goals = << >>
       THEN stack' = << >> /\ pc' = "done" /\ ret' = NoRet
       ELSE Goto(Goals(0, 1, FALSE))
    /\ UNCHANGED <<makefile, file, walk, jobs, recipe, goals, status>>

(* considered = !considered: what this pass left alone and the one before  *)
(* did not counts as considered in the next.                               *)
EndPass ==
    /\ In("update_goal_chain", "call")
    /\ Top.g > Len(goals)
    /\ visited' = Files \ visited
    /\ IF goals = << >>
       THEN stack' = << >> /\ pc' = "done" /\ ret' = NoRet
       ELSE Goto(Goals(0, 1, FALSE))
    /\ UNCHANGED <<makefile, file, updating, jobs, recipe, goals, status>>

-----------------------------------------------------------------------------
(* update_file                                                             *)

(* "We've already been here on this pass": nothing below is looked at.     *)
Prune ==
    /\ In("update_file", "call") /\ Top.n = 0
    /\ LET f == FirstEntry(Top.file) IN
          /\ f \in visited
          /\ Return(IF command_state[f] = "finished" THEN update_status[f] ELSE 0,
                    FALSE)
    /\ UNCHANGED <<makefile, file, walk, jobs, recipe, goals, status>>

Consider(frame, e) ==
    /\ visited' = visited \cup {e}
    /\ Call(frame, UpdateFile1(e))

ConsiderFirstEntry ==
    /\ In("update_file", "call") /\ Top.n = 0
    /\ FirstEntry(Top.file) \notin visited
    /\ Consider([Top EXCEPT !.n = 1], FirstEntry(Top.file))
    /\ UNCHANGED <<makefile, file, updating, jobs, recipe, goals, status>>

(* A double-colon entry that is being made holds up the ones behind it.    *)
EntryConsidered ==
    /\ In("update_file", "return") /\ Top.d = 0
    /\ LET es == Entries(Top.file)
           s == Or(Top.status, ret.status)
           busy == command_state[es[Top.n]] \in Busy
       IN  \/ /\ ~Fatal(s) /\ ~busy /\ Top.n < Len(es)
              /\ Consider([Top EXCEPT !.n = @ + 1, !.status = s], es[Top.n + 1])
           \/ /\ ~Fatal(s) /\ busy /\ makefile.double_colon[Top.file] # << >>
              /\ Goto([Top EXCEPT !.d = 1, !.status = 0])
              /\ UNCHANGED visited
           \/ /\ \/ Fatal(s)
                 \/ busy /\ makefile.double_colon[Top.file] = << >>
                 \/ ~busy /\ Top.n = Len(es)
              /\ Return(IF busy /\ ~Fatal(s) THEN 0 ELSE s, FALSE)
              /\ UNCHANGED visited
    /\ UNCHANGED <<makefile, file, updating, jobs, recipe, goals, status>>

(* "Process the remaining rules in the double colon chain so they're       *)
(* marked considered.  Start their prerequisites, too."                    *)
StartRemainingDeps ==
    /\ In("update_file", "call") /\ Top.d > 0
    /\ LET e == Entries(Top.file)[Top.n] IN
          /\ visited' = visited \cup {e}
          /\ IF Top.d <= Len(deps[e])
             THEN Call([Top EXCEPT !.d = @ + 1], UpdateFile(deps[e][Top.d].file))
             ELSE IF Top.n < Len(Entries(Top.file))
             THEN Goto([Top EXCEPT !.n = @ + 1, !.d = 1])
             ELSE Return(Top.status, FALSE)
    /\ UNCHANGED <<makefile, file, updating, jobs, recipe, goals, status>>

RemainingDepStarted ==
    /\ In("update_file", "return") /\ Top.d > 0
    /\ Goto([Top EXCEPT !.status = Or(@, ret.status)])
    /\ UNCHANGED <<makefile, file, walk, jobs, recipe, goals, status>>

-----------------------------------------------------------------------------
(* update_file_1                                                           *)

At(at, phase) == In("update_file_1", phase) /\ Top.at = at

ConsiderTarget ==
    /\ At("entry", "call")
    /\ LET f == Top.file IN
          IF f \in updated \/ command_state[f] \in {"running", "finished"}
          THEN /\ Return(IF f \in updated \/ command_state[f] = "finished"
                         THEN Max({update_status[f], 0}) ELSE 0, FALSE)
               /\ UNCHANGED updating
          ELSE /\ updating' = updating \cup {FirstEntry(f)}
               /\ Goto([Top EXCEPT !.at = "deps"])
    /\ UNCHANGED <<makefile, file, visited, jobs, recipe, goals, status>>

(* Prerequisites of a target that must be made: the intermediate ones too. *)
AfterDeps(frame) ==
    [frame EXCEPT !.i = 1,
                  !.at = IF frame.must_make THEN "intermediates" ELSE "decide"]

Circular(d) == FirstEntry(d.file) \in updating
DropDep(f, i) == deps' = [deps EXCEPT ![f] = RemoveAt(@, i)]

(* Seeded defects: each prerequisite asked anew whether the target must be *)
(* made; the status of the last one kept.                                  *)
ConsiderDepAnew ==
    /\ At("deps", "call")
    /\ IF Top.i > Len(deps[Top.file])
       THEN Goto(AfterDeps(Top)) /\ UNCHANGED deps
       ELSE LET d == deps[Top.file][Top.i] IN
            IF Circular(d)
            THEN Goto(Top) /\ DropDep(Top.file, Top.i)
            ELSE Call(Top, CheckDep(d.file, Top.mtime, FALSE)) /\ UNCHANGED deps
    /\ UNCHANGED <<makefile, command_state, update_status, updated, last_mtime,
                   walk, jobs, recipe, goals, status>>
DepConsideredLast ==
    /\ At("deps", "return")
    /\ LET d == deps[Top.file][Top.i]
           next == [Top EXCEPT
               !.status = ret.status,
               !.must_make = IF d.ignore_mtime THEN @ ELSE ret.must_make,
               !.running = @ \/ AnyBusy(d.file),
               !.i = @ + 1]
       IN  Goto(IF Fatal(next.status) THEN AfterDeps(next) ELSE next)
    /\ UNCHANGED <<makefile, file, walk, jobs, recipe, goals, status>>

ConsiderDep ==
    /\ At("deps", "call")
    /\ IF Top.i > Len(deps[Top.file])
       THEN Goto(AfterDeps(Top)) /\ UNCHANGED deps
       ELSE LET d == deps[Top.file][Top.i] IN
            IF Circular(d)
            THEN Goto(Top) /\ DropDep(Top.file, Top.i)
            ELSE /\ Call(Top, CheckDep(d.file, Top.mtime, Top.must_make))
                 /\ UNCHANGED deps
    /\ UNCHANGED <<makefile, command_state, update_status, updated, last_mtime,
                   walk, jobs, recipe, goals, status>>

DepConsidered ==
    /\ At("deps", "return")
    /\ LET d == deps[Top.file][Top.i]
           next == [Top EXCEPT
               !.status = Or(@, ret.status),
               !.must_make = IF d.ignore_mtime THEN @ ELSE ret.must_make,
               !.running = @ \/ AnyBusy(d.file),
               !.i = @ + 1]
       IN  Goto(IF Fatal(next.status) THEN AfterDeps(next) ELSE next)
    /\ UNCHANGED <<makefile, file, walk, jobs, recipe, goals, status>>

ConsiderIntermediate ==
    /\ At("intermediates", "call")
    /\ IF Top.i > Len(deps[Top.file])
       THEN Goto([Top EXCEPT !.at = "decide"])
       ELSE LET f == deps[Top.file][Top.i].file IN
            IF f \in makefile.intermediate THEN Call(Top, UpdateFile(f))
            ELSE Goto([Top EXCEPT !.i = @ + 1])
    /\ UNCHANGED <<makefile, file, walk, jobs, recipe, goals, status>>

IntermediateConsidered ==
    /\ At("intermediates", "return")
    /\ LET next == [Top EXCEPT
               !.status = Or(@, ret.status),
               !.running = @ \/ AnyBusy(deps[Top.file][Top.i].file),
               !.i = @ + 1]
       IN  Goto(IF Fatal(next.status) THEN [next EXCEPT !.at = "decide"] ELSE next)
    /\ UNCHANGED <<makefile, file, walk, jobs, recipe, goals, status>>

(* notice_finished_file called for a target whose recipe did not start.    *)
NoticeUnmade(f, s) == Notice(f, s, command_state[f] = "running", FALSE)

Decide ==
    /\ At("decide", "call")
    /\ updating' = updating \ {FirstEntry(Top.file)}
    /\ LET f == Top.file IN
          CASE Top.running ->
                 /\ SetCommandState(f, "deps_running")
                 /\ Return(0, FALSE)
                 /\ UNCHANGED <<update_status, updated, last_mtime>>
            [] ~Top.running /\ Top.status # 0 ->
                 /\ NoticeUnmade(f, Top.status)
                 /\ Return(Top.status, FALSE)
            [] OTHER ->
                 /\ IF command_state[f] = "deps_running"
                    THEN SetCommandState(f, "not_started")
                    ELSE UNCHANGED command_state
                 /\ Goto([Top EXCEPT !.at = "make"])
                 /\ UNCHANGED <<update_status, updated, last_mtime>>
    /\ UNCHANGED <<makefile, deps, visited, jobs, recipe, goals, status>>

MustMake ==
    \/ Top.must_make
    \/ \E i \in 1..Len(deps[Top.file]) :
          LET d == deps[Top.file][i] IN
          /\ ~d.ignore_mtime
          /\ last_mtime[d.file] = 0
          /\ d.file \notin makefile.intermediate
    \/ makefile.double_colon[Top.file] # << >> /\ deps[Top.file] = << >>

NoNeedToRemake ==
    /\ At("make", "call") /\ ~MustMake
    /\ NoticeUnmade(Top.file, update_status[Top.file])
    /\ Return(0, FALSE)
    /\ UNCHANGED <<makefile, deps, walk, jobs, recipe, goals, status>>

(* remake_file without a recipe: a target is taken for made, anything else *)
(* is an error, which complain makes fatal without -k.                     *)
RemakeWithoutCommands ==
    /\ At("make", "call") /\ MustMake
    /\ makefile.cmds[Top.file] = "none"
    /\ IF Top.file \in makefile.phony \cup makefile.is_target
       THEN NoticeUnmade(Top.file, 0) /\ Return(0, FALSE)
       ELSE IF makefile.keep_going
       THEN NoticeUnmade(Top.file, 2) /\ Return(2, FALSE)
       ELSE Die /\ UNCHANGED <<command_state, update_status, updated, last_mtime>>
    /\ UNCHANGED <<makefile, deps, walk, jobs, recipe, goals, status>>

(* execute_file_commands                                                   *)
RemakeBlank ==
    /\ At("make", "call") /\ MustMake
    /\ makefile.cmds[Top.file] = "blank"
    /\ Notice(Top.file, 0, TRUE, FALSE)
    /\ recipe' = [recipe EXCEPT ![Top.file] = "over"]
    /\ Return(0, FALSE)
    /\ UNCHANGED <<makefile, deps, walk, jobs, goals, status>>

RemakeFile ==
    /\ At("make", "call") /\ MustMake
    /\ makefile.cmds[Top.file] = "commands"
    /\ Call([Top EXCEPT !.at = "made"], NewJob(Top.file))
    /\ UNCHANGED <<makefile, file, walk, jobs, recipe, goals, status>>

FileRemade ==
    /\ At("made", "return")
    /\ IF command_state[Top.file] # "finished"
       THEN Return(0, FALSE) /\ UNCHANGED updated
       ELSE Return(update_status[Top.file], FALSE) /\ updated' = updated \cup {Top.file}
    /\ UNCHANGED <<makefile, deps, command_state, update_status, last_mtime, walk,
                   jobs, recipe, goals, status>>

-----------------------------------------------------------------------------
(* check_dep                                                               *)

Checking(at, phase) == In("check_dep", phase) /\ Top.at = at
Newer(f, mtime) == last_mtime[f] # 0 /\ last_mtime[f] > mtime
FinishCheck(s, must_make) ==
    /\ updating' = updating \ {FirstEntry(Top.file)}
    /\ Return(s, must_make)

(* An intermediate file is not made for its own sake: what it depends on   *)
(* is checked against the target it is a prerequisite of.                  *)
CheckDepStart ==
    /\ Checking("entry", "call")
    /\ LET f == Top.file IN
          IF f \in makefile.phony \/ f \notin makefile.intermediate
          THEN /\ updating' = updating \cup {FirstEntry(f)}
               /\ Call([Top EXCEPT !.at = "updated"], UpdateFile(f))
          ELSE IF Newer(f, Top.mtime) THEN FinishCheck(0, TRUE)
          ELSE /\ updating' = updating \cup {FirstEntry(f)}
               /\ Goto([Top EXCEPT !.at = "deps"])
    /\ UNCHANGED <<makefile, file, visited, jobs, recipe, goals, status>>

CheckedFileUpdated ==
    /\ Checking("updated", "return")
    /\ FinishCheck(ret.status, \/ Top.must_make
                               \/ last_mtime[Top.file] = 0
                               \/ Newer(Top.file, Top.mtime))
    /\ UNCHANGED <<makefile, file, visited, jobs, recipe, goals, status>>

CheckDepOfIntermediate ==
    /\ Checking("deps", "call")
    /\ IF Top.i > Len(deps[Top.file])
       THEN FinishCheck(Top.status, Top.must_make) /\ UNCHANGED deps
       ELSE LET d == deps[Top.file][Top.i] IN
            /\ IF Circular(d)
               THEN Goto(Top) /\ DropDep(Top.file, Top.i)
               ELSE /\ Call(Top, CheckDep(d.file, Top.mtime, Top.must_make))
                    /\ UNCHANGED deps
            /\ UNCHANGED updating
    /\ UNCHANGED <<makefile, command_state, update_status, updated, last_mtime,
                   visited, jobs, recipe, goals, status>>

DepOfIntermediateChecked ==
    /\ Checking("deps", "return")
    /\ LET d == deps[Top.file][Top.i]
           s == Or(Top.status, ret.status)
           must_make == IF d.ignore_mtime THEN Top.must_make ELSE ret.must_make
       IN  IF Fatal(s)
           THEN FinishCheck(s, must_make) /\ UNCHANGED command_state
           ELSE /\ IF command_state[d.file] \in Busy
                   THEN SetCommandState(Top.file, "deps_running")
                   ELSE UNCHANGED command_state
                /\ Goto([Top EXCEPT !.i = @ + 1, !.status = s,
                                    !.must_make = must_make])
                /\ UNCHANGED updating
    /\ UNCHANGED <<makefile, deps, update_status, updated, last_mtime, visited,
                   jobs, recipe, goals, status>>

-----------------------------------------------------------------------------
UpdateGoalChain ==
    \/ StartWaitingJobs \/ ReapBeforePass
    \/ ConsiderGoal \/ GoalConsidered \/ EndPass

UpdateFileSteps ==
    \/ Prune \/ ConsiderFirstEntry \/ EntryConsidered
    \/ StartRemainingDeps \/ RemainingDepStarted

UpdateFile1Steps ==
    \/ ConsiderTarget \/ ConsiderDep \/ DepConsidered
    \/ ConsiderIntermediate \/ IntermediateConsidered \/ Decide
    \/ NoNeedToRemake \/ RemakeWithoutCommands \/ RemakeBlank
    \/ RemakeFile \/ FileRemade

CheckDepSteps ==
    \/ CheckDepStart \/ CheckedFileUpdated
    \/ CheckDepOfIntermediate \/ DepOfIntermediateChecked

NewJobSteps == ReapInNewJob \/ StartJob \/ JobOverAtOnce \/ LinearWait

Next ==
    UpdateGoalChain \/ UpdateFileSteps \/ UpdateFile1Steps \/ CheckDepSteps
        \/ NewJobSteps

Spec == Init /\ [][Next]_vars /\ WF_vars(Next)

-----------------------------------------------------------------------------
TypeOK ==
    /\ makefile \in Makefiles
    /\ deps \in [Files -> Seq(Dep)]
    /\ command_state \in [Files -> Busy \cup {"not_started", "finished"}]
    /\ update_status \in [Files -> -1..2]
    /\ {updated, updating, visited, jobs} \subseteq SUBSET Files
    /\ last_mtime \in [Files -> Nat]
    /\ recipe \in [Files -> {"idle", "started", "over"}]
    /\ goals \in Seq(Files)
    /\ status \in -1..2
    /\ pc \in {"call", "return", "done", "die"}
    /\ ret \in [status : 0..2, must_make : BOOLEAN]

Prerequisites(f) == {deps[f][i].file : i \in 1..Len(deps[f])}
Needed(f) == UNION {ToSet(Entries(d)) : d \in Prerequisites(f)}
Made(f) == f \in updated /\ update_status[f] = 0

(* A recipe is handed to job control only when every prerequisite of its   *)
(* target, order-only, intermediate or double-colon, has been brought up   *)
(* to date: not while one is being made, and not after one has failed      *)
(* (update_file_1, dep_status and running).                                *)
Ready == [][\A f \in jobs' \ jobs : \A d \in Needed(f) : Made(d)]_vars

(* The commands of a target are started once, and not again for a target   *)
(* that they make as well (also_make).                                     *)
StartedOnce ==
    [][\A f \in jobs' \ jobs :
          /\ f \notin updated
          /\ \A g \in {f} \cup makefile.also_make[f] : recipe[g] # "started"]_vars

(* Nothing that depends on a failed target counts as made, at any distance *)
(* up to the goals, and the exit status says so (dep_status, pruning).     *)
FailureReachesTheGoal ==
    /\ \A f \in updated : \A d \in Needed(f) \ makefile.intermediate :
          d \in updated /\ update_status[d] > 0 => update_status[f] > 0
    /\ pc = "done" =>
          (status > 0 <=> \E i \in 1..Len(makefile.goals) :
                              \E e \in ToSet(Entries(makefile.goals[i])) :
                                  update_status[e] > 0)

(* When make comes to its end with -k, or without a failure, everything    *)
(* the goals need has been seen to: no prerequisite was given up because   *)
(* another failed, or forgotten because a pass pruned it.                  *)
NothingForgotten ==
    pc = "done" /\ (makefile.keep_going \/ status <= 0) =>
        /\ \A i \in 1..Len(makefile.goals) :
              ToSet(Entries(makefile.goals[i])) \subseteq updated
        /\ \A f \in updated : Needed(f) \ makefile.intermediate \subseteq updated

(* A target whose recipe was not needed is up to date in the end: it       *)
(* exists, and none of its prerequisites (order-only and intermediate      *)
(* ones apart) is missing or newer, though they may have been made since.  *)
UpToDate ==
    pc = "done" =>
        \A f \in updated :
            /\ Made(f) /\ makefile.cmds[f] = "commands"
            /\ \A g \in {f} \cup makefile.also_make[f] : recipe[g] = "idle"
            => /\ last_mtime[f] > 0
               /\ \A i \in 1..Len(deps[f]) :
                     LET d == deps[f][i] IN
                     d.ignore_mtime \/ d.file \in makefile.intermediate
                        \/ last_mtime[d.file] \in 1..last_mtime[f]

(* update_goal_chain comes to an end: a target that waits for another to   *)
(* be made (deps_running) is taken up again.                               *)
Ends == <>(pc \in {"done", "die"})
=============================================================================
