-------------------------- MODULE JobControlProofs --------------------------
(***************************************************************************)
(* Theorems about JobControl, for every set of targets and recipes and     *)
(* every combination of options.                                           *)
(***************************************************************************)
EXTENDS JobControl, ChainLemmas

(* A recipe has a length within the bound, and its lines have numbers.     *)
LEMMA RecipeLength ==
  ASSUME TypeOK, NEW f \in Files
  PROVE  /\ Len(Lines(f)) \in Nat
         /\ Len(Lines(f)) <= MaxLines
         /\ MaxLines \in Nat
         /\ \A k \in 1..Len(Lines(f)) : <<f, k>> \in Pids
PROOF
<1>1. recipe[f] \in Recipes
  BY DEF TypeOK
<1>2. /\ recipe[f] \in [lines : Seq(Line), shell : BOOLEAN]
      /\ Len(recipe[f].lines) <= MaxLines
      /\ MaxLines \in Nat
  BY <1>1, RecipesAssumption
<1>3. Len(Lines(f)) \in Nat /\ Len(Lines(f)) <= MaxLines
  BY <1>2, LenProperties DEF Lines
<1> QED BY <1>2, <1>3 DEF Pids

(* The three ways the process layer is called keep its types.              *)
LEMMA ProcessLayerType ==
  ASSUME OS!SubProcTypeOK, NEW p \in Pids,
         \/ OS!ProcessEasyBegun(p)
         \/ OS!ProcessEasyRefused(p)
         \/ OS!OpenPipe(p)
         \/ OS!ProcessExit(p)
         \/ OS!ProcessWaitForAny(p)
  PROVE  OS!SubProcTypeOK'
PROOF
<1> USE DEF OS!SubProcTypeOK, OS!Fates
<1>1. CASE OS!ProcessEasyBegun(p)
  <2>1. proc_array' \in Seq(Pids)
    BY <1>1, AppendProperties DEF OS!ProcessEasyBegun
  <2> QED BY <1>1, <2>1 DEF OS!ProcessEasyBegun
<1>2. CASE OS!ProcessEasyRefused(p)
  BY <1>2 DEF OS!ProcessEasyRefused
<1>3. CASE OS!OpenPipe(p)
  <2>1. proc_array' \in Seq(Pids)
    BY <1>3, AppendProperties DEF OS!OpenPipe
  <2> QED BY <1>3, <2>1 DEF OS!OpenPipe
<1>4. CASE OS!ProcessExit(p)
  BY <1>4 DEF OS!ProcessExit
<1>5. CASE OS!ProcessWaitForAny(p)
  <2>1. PICK i \in 1..Len(proc_array) :
           /\ proc_array' = RemoveAt(proc_array, i)
           /\ fake_exits_pending' =
                IF fake_exits_pending > 0 THEN fake_exits_pending - 1 ELSE 0
           /\ UNCHANGED command
    BY <1>5 DEF OS!ProcessWaitForAny, OS!Reportable, OS!RemoveAt, RemoveAt
  <2>2. proc_array' \in Seq(Pids)
    BY <2>1, RemoveAtProperties
  <2> QED BY <2>1, <2>2
<1> QED BY <1>1, <1>2, <1>3, <1>4, <1>5

(* Starting a command keeps the types of what it touches.                  *)
LEMMA StartJobCommandType ==
  ASSUME TypeOK, NEW f \in Files, NEW result, StartJobCommand(f, result)
  PROVE  /\ command_line' \in [Files -> 1..(MaxLines + 1)]
         /\ psn' \in [Files -> 0..1]
         /\ builtin_cmd_running' \in BOOLEAN
         /\ builtin' \in [Pids -> {"new", "won", "lost"}]
         /\ OS!SubProcTypeOK'
PROOF
<1>1. PICK k \in command_line[f]..(Len(Lines(f)) + 1) :
         NoMoreCommands(f, k, result) \/ RunLine(f, k, result)
  BY DEF StartJobCommand
<1>2. /\ k \in 1..(MaxLines + 1)
      /\ k <= Len(Lines(f)) => <<f, k>> \in Pids /\ k + 1 \in 1..(MaxLines + 1)
  BY RecipeLength DEF TypeOK
<1>3. psn' \in [Files -> 0..1]
  BY DEF StartJobCommand, TypeOK
<1>4. ASSUME NEW fate \in {"new", "won", "lost"}, RunBuiltins(f, k, fate)
      PROVE  builtin' \in [Pids -> {"new", "won", "lost"}]
  BY <1>4 DEF RunBuiltins, TypeOK
<1>5. CASE NoMoreCommands(f, k, result)
  <2>1. command_line' \in [Files -> 1..(MaxLines + 1)]
    BY <1>2, <1>5 DEF NoMoreCommands, TypeOK
  <2>2. builtin_cmd_running' \in BOOLEAN
    BY <1>5 DEF NoMoreCommands, TypeOK
  <2>3. builtin' \in [Pids -> {"new", "won", "lost"}]
    BY <1>4, <1>5 DEF NoMoreCommands
  <2>4. OS!SubProcTypeOK'
    BY <1>5 DEF NoMoreCommands, os, TypeOK, OS!SubProcTypeOK
  <2> QED BY <1>3, <2>1, <2>2, <2>3, <2>4
<1>6. CASE RunLine(f, k, result)
  <2>1. command_line' \in [Files -> 1..(MaxLines + 1)]
    BY <1>2, <1>6 DEF RunLine, TypeOK
  <2>2. builtin_cmd_running' \in BOOLEAN
    BY <1>6 DEF RunLine
  <2>3. builtin' \in [Pids -> {"new", "won", "lost"}]
    BY <1>4, <1>6 DEF RunLine, BuiltinLine, ProcessLine
  <2>4. OS!SubProcTypeOK'
    <3>1. <<f, k>> \in Pids /\ OS!SubProcTypeOK
      BY <1>2, <1>6 DEF RunLine, TypeOK
    <3>2. \/ UNCHANGED os
          \/ OS!ProcessEasyBegun(<<f, k>>)
          \/ OS!ProcessEasyRefused(<<f, k>>)
      BY <1>6 DEF RunLine, BuiltinLine, ProcessLine
    <3>3. CASE UNCHANGED os
      BY <3>1, <3>3 DEF os, OS!SubProcTypeOK
    <3> QED BY <3>1, <3>2, <3>3, ProcessLayerType
  <2> QED BY <1>3, <2>1, <2>2, <2>3, <2>4
<1> QED BY <1>1, <1>5, <1>6

(* So does putting a child on one of the chains, or finishing it at once.  *)
LEMMA StartWaitingJobType ==
  ASSUME TypeOK, NEW f \in Files, NEW others \in Seq(Files), NEW tokens \in Int,
         StartWaitingJob(f, others, tokens)
  PROVE  /\ command_state' \in [Files -> States]
         /\ update_status' \in [Files -> -1..2]
         /\ children' \in Seq(Files)
         /\ waiting_jobs' \in Seq(Files)
         /\ job_slots_used' \in Nat
         /\ jobserver_tokens' \in Int
         /\ command_line' \in [Files -> 1..(MaxLines + 1)]
         /\ psn' \in [Files -> 0..1]
         /\ builtin_cmd_running' \in BOOLEAN
         /\ builtin' \in [Pids -> {"new", "won", "lost"}]
         /\ OS!SubProcTypeOK'
PROOF
<1>1. CASE PutOnWaitingChain(f, others, tokens)
  <2>1. waiting_jobs' \in Seq(Files)
    BY <1>1, PushProperties DEF PutOnWaitingChain
  <2>2. OS!SubProcTypeOK'
    BY <1>1 DEF PutOnWaitingChain, os, TypeOK, OS!SubProcTypeOK
  <2> QED BY <1>1, <2>1, <2>2 DEF PutOnWaitingChain, child, TypeOK, States
<1>2. CASE PutOnChildrenChain(f, others, tokens)
  <2>1. children \in Seq(Files)
    BY DEF TypeOK
  <2>2. children' \in Seq(Files)
    BY <1>2, <2>1, PushProperties DEF PutOnChildrenChain
  <2>3. StartJobCommand(f, "running")
    BY <1>2 DEF PutOnChildrenChain
  <2>4. /\ command_state' \in [Files -> States]
        /\ update_status' \in [Files -> -1..2]
        /\ waiting_jobs' \in Seq(Files)
        /\ job_slots_used' \in Nat
        /\ jobserver_tokens' \in Int
    BY <1>2 DEF PutOnChildrenChain, TypeOK, States
  <2> QED BY <2>2, <2>3, <2>4, StartJobCommandType
<1>3. CASE FinishAtOnce(f, others, tokens)
  <2>1. PICK result \in {"won", "asked", "lost"} :
           StartJobCommand(f, result) /\ Finish(f, StatusOf(result))
    BY <1>3 DEF FinishAtOnce
  <2>2. /\ command_state' \in [Files -> States]
        /\ update_status' \in [Files -> -1..2]
    <3>1. StatusOf(result) \in -1..2
      BY DEF StatusOf
    <3> QED BY <2>1, <3>1 DEF Finish, TypeOK, States
  <2>3. /\ children' \in Seq(Files)
        /\ waiting_jobs' \in Seq(Files)
        /\ job_slots_used' \in Nat
        /\ jobserver_tokens' \in Int
    BY <1>3 DEF FinishAtOnce, TypeOK
  <2> QED BY <2>1, <2>2, <2>3, StartJobCommandType
<1> QED BY <1>1, <1>2, <1>3 DEF StartWaitingJob

(* And so does taking a child off the chain.                               *)
LEMMA FreeChildType ==
  ASSUME TypeOK, NEW i \in 1..Len(children), NEW status \in -1..2,
         FreeChild(i, status)
  PROVE  /\ command_state' \in [Files -> States]
         /\ update_status' \in [Files -> -1..2]
         /\ children' \in Seq(Files)
         /\ waiting_jobs' \in Seq(Files)
         /\ job_slots_used' \in Nat
         /\ jobserver_tokens' \in Int
PROOF
<1>1. children \in Seq(Files)
  BY DEF TypeOK
<1>2. children[i] \in Files
  BY <1>1, ElementOfSeq
<1>3. children' \in Seq(Files)
  BY <1>1, RemoveAtProperties DEF FreeChild
<1> QED BY <1>2, <1>3 DEF FreeChild, Finish, TypeOK, States

LEMMA TypeInit == Init => TypeOK
PROOF
<1> SUFFICES ASSUME Init PROVE TypeOK
  OBVIOUS
<1>1. command_line \in [Files -> 1..(MaxLines + 1)]
  BY RecipesAssumption DEF Init
<1>2. OS!SubProcTypeOK
  BY DEF Init, OS!SubProcInit, OS!SubProcTypeOK, OS!Fates
<1>3. dead \in [pid : Pids \cup {NoPid}, failed : BOOLEAN, seen : BOOLEAN]
  BY DEF Init, NoDead
<1>4. children \in Seq(Files) /\ waiting_jobs \in Seq(Files)
  BY EmptySeq DEF Init
<1>5. builtin_cmd_running \in BOOLEAN /\ shell_function_completed \in BOOLEAN
  BY DEF Init
<1> QED BY <1>1, <1>2, <1>3, <1>4, <1>5 DEF Init, TypeOK, States, Places, InNewJob

LEMMA TypeStep == TypeOK /\ [Next]_vars => TypeOK'
PROOF
<1> SUFFICES ASSUME TypeOK, [Next]_vars PROVE TypeOK'
  OBVIOUS
<1> USE DEF given, target, chains, child, shell, os, Places, InNewJob
<1>1. ASSUME UNCHANGED os PROVE OS!SubProcTypeOK'
  BY <1>1 DEF TypeOK, OS!SubProcTypeOK
<1>2. CASE UNCHANGED vars
  BY <1>1, <1>2 DEF vars, TypeOK
<1>3. ASSUME NEW f \in Files, NewJob(f) PROVE TypeOK'
  BY <1>1, <1>3 DEF NewJob, TypeOK
<1>4. CASE StartWaitingJobs
  <2>1. CASE waiting_jobs = << >>
    BY <1>1, <1>4, <2>1 DEF StartWaitingJobs, TypeOK
  <2>2. CASE waiting_jobs # << >>
    <3>1. waiting_jobs \in Seq(Files) /\ jobserver_tokens \in Int
      BY DEF TypeOK
    <3>2. Head(waiting_jobs) \in Files /\ Tail(waiting_jobs) \in Seq(Files)
      BY <2>2, <3>1, HeadTailProperties
    <3>3. StartWaitingJob(Head(waiting_jobs), Tail(waiting_jobs), jobserver_tokens)
      BY <1>4, <2>2 DEF StartWaitingJobs
    <3>4. /\ pc' \in Places
          /\ UNCHANGED <<given, shell, dead, file>>
          /\ pc' \in InNewJob => pc \in InNewJob
      BY <1>4, <2>2 DEF StartWaitingJobs
    <3> QED BY <3>1, <3>2, <3>3, <3>4, StartWaitingJobType DEF TypeOK
  <2> QED BY <2>1, <2>2
<1>5. CASE ExpandLines
  <2>1. file \in Files /\ <<file, 0>> \in Pids
    BY <1>5, RecipesAssumption DEF ExpandLines, TypeOK, Pids
  <2>2. OS!SubProcTypeOK'
    <3>1. \/ OS!OpenPipe(<<file, 0>>)
          \/ OS!ProcessEasyRefused(<<file, 0>>)
          \/ UNCHANGED os
      BY <1>5 DEF ExpandLines
    <3>2. OS!SubProcTypeOK
      BY DEF TypeOK
    <3> QED BY <1>1, <2>1, <3>1, <3>2, ProcessLayerType
  <2> QED BY <1>5, <2>1, <2>2 DEF ExpandLines, TypeOK
<1>6. CASE ShellCompleted
  BY <1>1, <1>6 DEF ShellCompleted, TypeOK
<1>7. CASE StartJob
  <2>1. /\ waiting_jobs \in Seq(Files) /\ jobserver_tokens + 1 \in Int
        /\ file \in Files
    BY <1>7 DEF StartJob, TypeOK
  <2>2. StartWaitingJob(file, waiting_jobs, jobserver_tokens + 1)
    BY <1>7 DEF StartJob
  <2>3. /\ pc' \in Places
        /\ file' \in Files \cup {NoFile}
        /\ pc' \in InNewJob => file' \in Files
        /\ UNCHANGED <<given, shell, dead>>
    BY <1>7, <2>1 DEF StartJob
  <2> QED BY <2>1, <2>2, <2>3, StartWaitingJobType DEF TypeOK
<1>8. CASE FinishedLinearly
  BY <1>1, <1>8 DEF FinishedLinearly, TypeOK
<1>9. CASE NothingToReap
  BY <1>1, <1>9 DEF NothingToReap, TypeOK
<1>10. CASE WaitForChild
  <2>1. /\ OS!SubProcTypeOK'
        /\ dead' \in [pid : Pids \cup {NoPid}, failed : BOOLEAN, seen : BOOLEAN]
    <3>1. CASE UNCHANGED os /\ dead' = [NoDead EXCEPT !.seen = TRUE]
      BY <1>1, <3>1 DEF NoDead
    <3>2. ASSUME NEW p \in Pids, OS!ProcessWaitForAny(p),
                 dead' = [pid |-> p, failed |-> OS!BadExit(p), seen |-> TRUE]
          PROVE  /\ OS!SubProcTypeOK'
                 /\ dead' \in [pid : Pids \cup {NoPid}, failed : BOOLEAN,
                              seen : BOOLEAN]
      <4>1. OS!SubProcTypeOK'
        BY <3>2, ProcessLayerType DEF TypeOK
      <4>2. OS!BadExit(p) \in BOOLEAN
        BY DEF OS!BadExit
      <4> QED BY <3>2, <4>1, <4>2
    <3> QED BY <1>10, <3>1, <3>2 DEF WaitForChild
  <2> QED BY <1>10, <2>1 DEF WaitForChild, TypeOK
<1>11. CASE ReapShellFunction
  BY <1>1, <1>11 DEF ReapShellFunction, TypeOK, AfterReap, NoDead
<1>12. CASE ReapUnknown
  BY <1>1, <1>12 DEF ReapUnknown, TypeOK, NoDead
<1>13. CASE ReapChild
  <2>1. PICK i \in 1..Len(children) :
           ReapFailed(i) \/ ReapFinished(i) \/ ReapAndContinue(i)
    BY <1>13 DEF ReapChild
  <2>2. /\ dead' \in [pid : Pids \cup {NoPid}, failed : BOOLEAN, seen : BOOLEAN]
        /\ UNCHANGED <<given, shell>>
    BY <1>13 DEF ReapChild, NoDead
  <2>3. children[i] \in Files
    <3>1. children \in Seq(Files)
      BY DEF TypeOK
    <3> QED BY <3>1, ElementOfSeq
  <2>4. CASE ReapFailed(i)
    <3>1. FreeChild(i, 2) /\ UNCHANGED <<child, os>>
      BY <2>4 DEF ReapFailed
    <3>2. /\ pc' \in Places
          /\ file' \in Files \cup {NoFile}
          /\ pc' \in InNewJob => file' \in Files
      BY <2>4 DEF ReapFailed, AfterReap, TypeOK
    <3> QED BY <1>1, <2>2, <3>1, <3>2, FreeChildType DEF TypeOK
  <2>5. CASE ReapFinished(i)
    <3>1. FreeChild(i, 0) /\ UNCHANGED <<child, os>>
      BY <2>5 DEF ReapFinished
    <3>2. /\ pc' \in Places
          /\ file' \in Files \cup {NoFile}
          /\ pc' \in InNewJob => file' \in Files
      BY <2>5 DEF ReapFinished, AfterReap, TypeOK
    <3> QED BY <1>1, <2>2, <3>1, <3>2, FreeChildType DEF TypeOK
  <2>6. CASE ReapAndContinue(i)
    <3>1. PICK result \in {"running", "won", "asked", "lost"} :
             /\ StartJobCommand(children[i], result)
             /\ \/ UNCHANGED <<target, chains, pc>>
                \/ /\ result # "running"
                   /\ FreeChild(i, StatusOf(result))
                   /\ pc' = AfterReap
      BY <2>6 DEF ReapAndContinue
    <3>2. /\ pc' \in Places
          /\ file' \in Files \cup {NoFile}
          /\ pc' \in InNewJob => file' \in Files
      BY <2>6, <3>1 DEF ReapAndContinue, AfterReap, TypeOK
    <3>3. /\ command_state' \in [Files -> States]
          /\ update_status' \in [Files -> -1..2]
          /\ children' \in Seq(Files)
          /\ waiting_jobs' \in Seq(Files)
          /\ job_slots_used' \in Nat
          /\ jobserver_tokens' \in Int
      <4>1. CASE UNCHANGED <<target, chains, pc>>
        BY <4>1 DEF TypeOK
      <4>2. CASE result # "running" /\ FreeChild(i, StatusOf(result))
        <5>1. StatusOf(result) \in -1..2
          BY <4>2 DEF StatusOf
        <5> QED BY <4>2, <5>1, FreeChildType
      <4> QED BY <3>1, <4>1, <4>2
    <3> QED BY <2>2, <2>3, <3>1, <3>2, <3>3, StartJobCommandType DEF TypeOK
  <2> QED BY <2>1, <2>4, <2>5, <2>6
<1>14. CASE NextPass
  BY <1>1, <1>14 DEF NextPass, TypeOK
<1>15. CASE GoalsDone
  BY <1>1, <1>15 DEF GoalsDone, TypeOK
<1>16. CASE GiveUp
  BY <1>1, <1>16 DEF GiveUp, TypeOK
<1>17. CASE Exit
  BY <1>1, <1>17 DEF Exit, TypeOK
<1>18. CASE CommandExits
  <2>1. OS!SubProcTypeOK'
    BY <1>18, ProcessLayerType DEF CommandExits, TypeOK
  <2> QED BY <1>18, <2>1 DEF CommandExits, TypeOK
<1> QED
  BY <1>2, <1>3, <1>4, <1>5, <1>6, <1>7, <1>8, <1>9, <1>10, <1>11, <1>12,
     <1>13, <1>14, <1>15, <1>16, <1>17, <1>18 DEF Next, Make

(* Type correctness, of make and of the process table below it.            *)
THEOREM TypeCorrect == Spec => []TypeOK
PROOF
<1>1. Init => TypeOK
  BY TypeInit
<1>2. TypeOK /\ [Next]_vars => TypeOK'
  BY TypeStep
<1> QED BY <1>1, <1>2, PTL DEF Spec

-----------------------------------------------------------------------------
(* The chains                                                              *)

Chains == Accounting /\ Tracked /\ Numbered

(* Neither the exit of a process nor a wait for one touches the chains.    *)
LEMMA ChainsUnchanged ==
  ASSUME Chains, UNCHANGED <<command_state, chains, psn>>
  PROVE  Chains'
BY DEF Chains, Accounting, Tracked, Numbered, chains

(* A child that is on neither chain goes on one of them, or its target is  *)
(* finished at once; no other target changes its state.                    *)
LEMMA StartWaitingJobChains ==
  ASSUME TypeOK, NEW f \in Files, NEW others \in Seq(Files), NEW tokens \in Int,
         StartWaitingJob(f, others, tokens),
         job_slots_used = Len(children),
         tokens = Len(children) + Len(others) + 1,
         f \notin ToSet(children), f \notin ToSet(others),
         {g \in Files : command_state[g] = "running"} \ {f} =
            ToSet(children) \cup ToSet(others),
         ToSet(children) \cap ToSet(others) = {},
         IsInjective(children), IsInjective(others),
         Numbered
  PROVE  /\ Chains'
         /\ \A g \in Files \ {f} : command_state'[g] = command_state[g]
PROOF
<1>1. /\ children \in Seq(Files)
      /\ Len(children) \in Nat /\ Len(others) \in Nat
      /\ command_state \in [Files -> States]
      /\ psn \in [Files -> 0..1]
      /\ \A i \in 1..Len(children) : children[i] \in Files
  BY ElementOfSeq, LenProperties DEF TypeOK
<1>2. ASSUME command_state' = [command_state EXCEPT ![f] = "running"]
      PROVE  /\ {g \in Files : command_state'[g] = "running"} =
                   {f} \cup {g \in Files : command_state[g] = "running"}
             /\ \A g \in Files \ {f} : command_state'[g] = command_state[g]
  BY <1>1, <1>2
<1>3. ASSUME psn' = [psn EXCEPT ![f] = 1]
      PROVE  \A i \in 1..Len(children) : psn'[children[i]] = 1
  BY <1>1, <1>3 DEF Numbered
<1>4. CASE PutOnWaitingChain(f, others, tokens)
  <2>1. /\ waiting_jobs' = <<f>> \o others
        /\ UNCHANGED <<children, job_slots_used, psn>>
        /\ jobserver_tokens' = tokens
        /\ command_state' = [command_state EXCEPT ![f] = "running"]
    BY <1>4 DEF PutOnWaitingChain, child
  <2>2. /\ Len(waiting_jobs') = Len(others) + 1
        /\ IsInjective(waiting_jobs')
        /\ ToSet(waiting_jobs') = ToSet(others) \cup {f}
    BY <2>1, PushProperties, PushOnChain
  <2>3. Accounting'
    BY <1>1, <2>1, <2>2 DEF Accounting
  <2>4. Tracked'
    BY <1>2, <2>1, <2>2 DEF Tracked
  <2>5. Numbered'
    BY <2>1 DEF Numbered
  <2> QED BY <1>2, <2>1, <2>3, <2>4, <2>5 DEF Chains
<1>5. CASE PutOnChildrenChain(f, others, tokens)
  <2>1. /\ waiting_jobs' = others
        /\ children' = <<f>> \o children
        /\ job_slots_used' = job_slots_used + 1
        /\ jobserver_tokens' = tokens
        /\ command_state' = [command_state EXCEPT ![f] = "running"]
        /\ psn' = [psn EXCEPT ![f] = 1]
    BY <1>5 DEF PutOnChildrenChain, StartJobCommand
  <2>2. /\ Len(children') = Len(children) + 1
        /\ children'[1] = f
        /\ \A j \in 1..Len(children) : children'[j + 1] = children[j]
        /\ IsInjective(children')
        /\ ToSet(children') = ToSet(children) \cup {f}
    BY <1>1, <2>1, PushProperties, PushOnChain
  <2>3. Accounting'
    BY <1>1, <2>1, <2>2 DEF Accounting
  <2>4. Tracked'
    BY <1>2, <2>1, <2>2 DEF Tracked
  <2>5. ASSUME NEW i \in 1..(Len(children) + 1)
        PROVE  psn'[children'[i]] = 1
    <3>1. CASE i = 1
      BY <1>1, <2>1, <2>2, <3>1
    <3>2. CASE i # 1
      <4>1. i - 1 \in 1..Len(children) /\ (i - 1) + 1 = i
        BY <1>1, <3>2
      <4> QED BY <1>3, <2>1, <2>2, <4>1
    <3> QED BY <3>1, <3>2
  <2> QED BY <1>2, <2>1, <2>2, <2>3, <2>4, <2>5 DEF Chains, Numbered
<1>6. CASE FinishAtOnce(f, others, tokens)
  <2>1. /\ waiting_jobs' = others
        /\ UNCHANGED <<children, job_slots_used>>
        /\ jobserver_tokens' = tokens - 1
        /\ command_state' = [command_state EXCEPT ![f] = "finished"]
        /\ psn' = [psn EXCEPT ![f] = 1]
    BY <1>6 DEF FinishAtOnce, Finish, StartJobCommand
  <2>2. /\ {g \in Files : command_state'[g] = "running"} =
              {g \in Files : command_state[g] = "running"} \ {f}
        /\ \A g \in Files \ {f} : command_state'[g] = command_state[g]
    BY <1>1, <2>1
  <2>3. Accounting'
    BY <1>1, <2>1 DEF Accounting
  <2>4. Tracked'
    BY <2>1, <2>2 DEF Tracked
  <2>5. Numbered'
    BY <1>3, <2>1 DEF Numbered
  <2> QED BY <2>2, <2>3, <2>4, <2>5 DEF Chains
<1> QED BY <1>4, <1>5, <1>6 DEF StartWaitingJob

(* A child taken off the chain was on it once, and held a slot and a token *)
(* until then; its target is finished.                                     *)
LEMMA FreeChildChains ==
  ASSUME TypeOK, Chains, NEW i \in 1..Len(children), NEW status,
         FreeChild(i, status),
         psn' = psn \/ psn' = [psn EXCEPT ![children[i]] = 1]
  PROVE  /\ Chains'
         /\ \A g \in Files : command_state[g] # "running" =>
               command_state'[g] = command_state[g]
PROOF
<1>1. /\ children \in Seq(Files) /\ children[i] \in Files
      /\ Len(children) \in Nat \ {0} /\ Len(waiting_jobs) \in Nat
      /\ \A j \in 1..Len(children) : children[j] \in Files
  BY ElementOfSeq, LenProperties DEF TypeOK
<1>2. /\ Len(children') = Len(children) - 1
      /\ \A j \in 1..(Len(children) - 1) :
            children'[j] = IF j < i THEN children[j] ELSE children[j + 1]
      /\ IsInjective(children')
      /\ ToSet(children') = ToSet(children) \ {children[i]}
  BY <1>1, RemoveAtProperties, RemoveFromChain DEF FreeChild, Chains, Tracked
<1>3. children[i] \in ToSet(children)
  BY <1>1, LenProperties DEF ToSet
<1>4. Accounting'
  BY <1>1, <1>2 DEF FreeChild, Chains, Accounting
<1>5. command_state' = [command_state EXCEPT ![children[i]] = "finished"]
  BY DEF FreeChild, Finish
<1>6. Tracked'
  <2>1. {g \in Files : command_state'[g] = "running"} =
           {g \in Files : command_state[g] = "running"} \ {children[i]}
    BY <1>1, <1>5 DEF TypeOK
  <2> QED BY <1>2, <1>3, <2>1 DEF FreeChild, Chains, Tracked
<1>7. Numbered'
  <2>1. \A j \in 1..Len(children) : psn'[children[j]] = 1
    BY <1>1 DEF Chains, Numbered, TypeOK
  <2>2. ASSUME NEW j \in 1..Len(children') PROVE psn'[children'[j]] = 1
    BY <1>1, <1>2, <2>1, <2>2
  <2> QED BY <2>2 DEF Numbered
<1>8. command_state[children[i]] = "running"
  BY <1>1, <1>3 DEF Chains, Tracked
<1> QED BY <1>1, <1>4, <1>5, <1>6, <1>7, <1>8 DEF Chains, TypeOK

(* Only the last child of the chain can match: the others have a successor *)
(* that has started a command.                                             *)
LEMMA OnlyLastMatches ==
  ASSUME TypeOK, Numbered, NEW i \in 1..Len(children), Matching(i)
  PROVE  i = Len(children)
PROOF
<1>1. Len(children) \in Nat
  BY LenProperties DEF TypeOK
<1>2. CASE i < Len(children)
  <2>1. i + 1 \in 1..Len(children) /\ psn[children[i + 1]] = 0
    BY <1>1, <1>2 DEF Matching
  <2>2. psn[children[i + 1]] = 1
    BY <2>1 DEF Numbered
  <2> QED BY <2>1, <2>2
<1> QED BY <1>1, <1>2

(* What ReapChild does to the chains.                                      *)
LEMMA ReapChildCases ==
  ASSUME TypeOK, ReapChild
  PROVE  \E i \in 1..Len(children) :
            /\ Matching(i)
            /\ children[i] \in Files
            /\ psn' = psn \/ psn' = [psn EXCEPT ![children[i]] = 1]
            /\ \/ UNCHANGED <<target, chains, pc>>
               \/ \E status \in 0..2 : FreeChild(i, status)
            /\ pc' = "die" \/ pc' = AfterReap \/ pc' = pc
            /\ file' = file \/ pc' = "die"
PROOF
<1>1. PICK i \in 1..Len(children) :
         Matching(i) /\ (ReapFailed(i) \/ ReapFinished(i) \/ ReapAndContinue(i))
  BY DEF ReapChild
<1>2. children[i] \in Files
  BY ElementOfSeq DEF TypeOK
<1>3. CASE ReapFailed(i)
  BY <1>1, <1>2, <1>3 DEF ReapFailed, child
<1>4. CASE ReapFinished(i)
  BY <1>1, <1>2, <1>4 DEF ReapFinished, child
<1>5. CASE ReapAndContinue(i)
  <2>1. PICK result \in {"running", "won", "asked", "lost"} :
           /\ StartJobCommand(children[i], result)
           /\ \/ UNCHANGED <<target, chains, pc>>
              \/ /\ result # "running"
                 /\ FreeChild(i, StatusOf(result))
                 /\ pc' = AfterReap
    BY <1>5 DEF ReapAndContinue
  <2>2. result # "running" => StatusOf(result) \in 0..2
    BY DEF StatusOf
  <2>3. file' = file
    BY <1>5 DEF ReapAndContinue
  <2> QED BY <1>1, <1>2, <2>1, <2>2, <2>3 DEF StartJobCommand, chains
<1> QED BY <1>1, <1>3, <1>4, <1>5

LEMMA InvInit == Init => IInv
PROOF
<1> SUFFICES ASSUME Init PROVE IInv
  OBVIOUS
<1>1. TypeOK
  BY TypeInit
<1>2. children = << >> /\ waiting_jobs = << >> /\ Len(<< >>) = 0
  BY EmptySeq DEF Init
<1>3. Accounting
  BY <1>2 DEF Init, Accounting
<1>4. Tracked
  <2>1. ToSet(<< >>) = {} /\ IsInjective(<< >>)
    BY EmptySeq DEF ToSet, IsInjective
  <2> QED BY <1>2, <2>1 DEF Init, Tracked
<1>5. Fresh /\ Numbered
  BY <1>2 DEF Init, Fresh, Numbered
<1> QED BY <1>1, <1>3, <1>4, <1>5 DEF IInv

(* Each step keeps the invariant.  Those that start or free a child are    *)
(* the ones that matter: the others leave the chains alone.                *)
LEMMA InvStep == IInv /\ [Next]_vars => IInv'
PROOF
<1> SUFFICES ASSUME IInv, [Next]_vars PROVE IInv'
  OBVIOUS
<1>1. TypeOK /\ Accounting /\ Tracked /\ Fresh /\ Numbered
  BY DEF IInv
<1>2. TypeOK'
  BY <1>1, TypeStep
<1>3. Chains
  BY <1>1 DEF Chains
<1>4. SUFFICES Chains' /\ Fresh'
  BY <1>2 DEF IInv, Chains
<1>5. ASSUME UNCHANGED <<target, chains, child>> PROVE Chains'
  BY <1>3, <1>5, ChainsUnchanged DEF target, child
<1> USE DEF target, chains, child
<1>6. CASE UNCHANGED vars
  BY <1>1, <1>5, <1>6 DEF vars, Fresh
<1>7. ASSUME NEW f \in Files, NewJob(f) PROVE Chains' /\ Fresh'
  BY <1>5, <1>7 DEF NewJob, Fresh
<1>8. CASE StartWaitingJobs
  <2>1. CASE waiting_jobs = << >>
    BY <1>1, <1>5, <1>8, <2>1 DEF StartWaitingJobs, Fresh
  <2>2. CASE waiting_jobs # << >>
    <3> DEFINE f == Head(waiting_jobs)
               others == Tail(waiting_jobs)
    <3>1. waiting_jobs \in Seq(Files) /\ jobserver_tokens \in Int
      BY <1>1 DEF TypeOK
    <3>2. /\ f \in Files
          /\ others \in Seq(Files)
          /\ Len(waiting_jobs) = Len(others) + 1
          /\ Len(others) \in Nat
      BY <2>2, <3>1, EmptySeq, HeadTailProperties
    <3>3. /\ IsInjective(others)
          /\ f \in ToSet(waiting_jobs)
          /\ ToSet(others) = ToSet(waiting_jobs) \ {f}
      BY <1>1, <2>2, <3>1, PopFromChain DEF Tracked
    <3>4. StartWaitingJob(f, others, jobserver_tokens)
      BY <1>8, <2>2 DEF StartWaitingJobs
    <3>5. UNCHANGED file /\ (pc' = pc \/ pc' = "reap" \/ (pc' = "expand" /\ pc = "kick"))
      BY <1>8, <2>2 DEF StartWaitingJobs
    <3>6. Len(children) \in Nat
      BY <1>1, LenProperties DEF TypeOK
    <3>7. command_state[f] = "running"
      BY <1>1, <3>2, <3>3 DEF Tracked
    <3> HIDE DEF f, others
    <3>8. /\ Chains'
          /\ \A g \in Files \ {f} : command_state'[g] = command_state[g]
      BY <1>1, <3>1, <3>2, <3>3, <3>4, <3>6, StartWaitingJobChains
         DEF Accounting, Tracked
    <3>9. Fresh'
      BY <1>1, <3>5, <3>7, <3>8 DEF Fresh, TypeOK, InNewJob
    <3> QED BY <3>8, <3>9
  <2> QED BY <2>1, <2>2
<1>9. CASE ExpandLines
  BY <1>1, <1>5, <1>9 DEF ExpandLines, Fresh
<1>10. CASE ShellCompleted
  BY <1>1, <1>5, <1>10 DEF ShellCompleted, Fresh
<1>11. CASE StartJob
  <2>1. file \in Files /\ command_state[file] = "not_started"
    BY <1>1, <1>11 DEF StartJob, Fresh, TypeOK, InNewJob
  <2>2. file \notin ToSet(children) /\ file \notin ToSet(waiting_jobs)
    BY <1>1, <2>1 DEF Tracked
  <2>3. StartWaitingJob(file, waiting_jobs, jobserver_tokens + 1)
    BY <1>11 DEF StartJob
  <2>4. /\ waiting_jobs \in Seq(Files)
        /\ Len(waiting_jobs) \in Nat
        /\ Len(children) \in Nat
        /\ jobserver_tokens + 1 \in Int
    BY <1>1, LenProperties DEF TypeOK
  <2>5. jobserver_tokens + 1 = Len(children) + Len(waiting_jobs) + 1
    BY <1>1, <2>4 DEF Accounting
  <2>6. {g \in Files : command_state[g] = "running"} \ {file} =
           ToSet(children) \cup ToSet(waiting_jobs)
    BY <1>1, <2>1 DEF Tracked
  <2>7. Chains'
    BY <1>1, <2>1, <2>2, <2>3, <2>4, <2>5, <2>6, StartWaitingJobChains
       DEF Accounting, Tracked
  <2> QED BY <1>11, <2>7 DEF StartJob, Fresh
<1>12. CASE FinishedLinearly
  BY <1>5, <1>12 DEF FinishedLinearly, Fresh
<1>13. CASE NothingToReap
  BY <1>5, <1>13 DEF NothingToReap, Fresh
<1>14. CASE WaitForChild
  BY <1>1, <1>5, <1>14 DEF WaitForChild, Fresh
<1>15. CASE ReapShellFunction
  BY <1>1, <1>5, <1>15 DEF ReapShellFunction, AfterReap, Fresh
<1>16. CASE ReapUnknown
  BY <1>1, <1>5, <1>16 DEF ReapUnknown, Fresh
<1>17. CASE ReapChild
  <2>1. PICK i \in 1..Len(children) :
            /\ children[i] \in Files
            /\ psn' = psn \/ psn' = [psn EXCEPT ![children[i]] = 1]
            /\ \/ UNCHANGED <<target, chains, pc>>
               \/ \E status \in 0..2 : FreeChild(i, status)
            /\ pc' = "die" \/ pc' = AfterReap \/ pc' = pc
            /\ file' = file \/ pc' = "die"
    BY <1>1, <1>17, ReapChildCases
  <2>2. pc' \in {"kick", "expand", "shell", "slots"} => pc' = pc /\ file' = file
    BY <2>1 DEF AfterReap
  <2>3. CASE UNCHANGED <<target, chains, pc>>
    <3>1. Numbered'
      BY <1>1, <2>1, <2>3, ElementOfSeq DEF Numbered, TypeOK
    <3>2. Accounting' /\ Tracked'
      BY <1>1, <2>3 DEF Accounting, Tracked
    <3>3. Fresh'
      BY <1>1, <2>2, <2>3 DEF Fresh
    <3> QED BY <3>1, <3>2, <3>3 DEF Chains
  <2>4. ASSUME NEW status \in 0..2, FreeChild(i, status)
        PROVE  Chains' /\ Fresh'
    <3>1. /\ Chains'
          /\ \A g \in Files : command_state[g] # "running" =>
                command_state'[g] = command_state[g]
      BY <1>1, <1>3, <2>1, <2>4, FreeChildChains
    <3>2. Fresh'
      BY <1>1, <2>2, <3>1 DEF Fresh, TypeOK, InNewJob
    <3> QED BY <3>1, <3>2
  <2> QED BY <2>1, <2>3, <2>4
<1>18. CASE NextPass
  BY <1>5, <1>18 DEF NextPass, Fresh
<1>19. CASE GoalsDone
  BY <1>5, <1>19 DEF GoalsDone, Fresh
<1>20. CASE GiveUp
  BY <1>5, <1>20 DEF GiveUp, Fresh
<1>21. CASE Exit
  BY <1>5, <1>21 DEF Exit, Fresh
<1>22. CASE CommandExits
  BY <1>1, <1>5, <1>22 DEF CommandExits, Fresh
<1> QED
  BY <1>6, <1>7, <1>8, <1>9, <1>10, <1>11, <1>12, <1>13, <1>14, <1>15, <1>16,
     <1>17, <1>18, <1>19, <1>20, <1>21, <1>22 DEF Next, Make

(* The inductive invariant.                                                *)
THEOREM Invariance == Spec => []IInv
PROOF
<1>1. Init => IInv
  BY InvInit
<1>2. IInv /\ [Next]_vars => IInv'
  BY InvStep
<1> QED BY <1>1, <1>2, PTL DEF Spec

(* job_slots_used and the tokens agree with the chains, so die waits for   *)
(* exactly the children there are and free_child never runs out of tokens. *)
THEOREM AccountingHolds == Spec => []Accounting
PROOF
<1>1. IInv => Accounting
  BY DEF IInv
<1> QED BY <1>1, Invariance, PTL

(* The running targets are the ones on the chains, each on one, once.      *)
THEOREM TrackedHolds == Spec => []Tracked
PROOF
<1>1. IInv => Tracked
  BY DEF IInv
<1> QED BY <1>1, Invariance, PTL

(* A step of reap_children that frees a child frees the one at the end of  *)
(* the chain, the oldest, whichever process has died: among several        *)
(* children the verdict need not go to the one whose command it was.       *)
THEOREM OldestFirstHolds == Spec => OldestFirst
PROOF
<1>1. ASSUME IInv, IInv', [Next]_vars, Len(children') < Len(children)
      PROVE  children' = Front(children)
  <2>1. TypeOK /\ Numbered /\ Len(children) \in Nat /\ children \in Seq(Files)
    BY <1>1, LenProperties DEF IInv, TypeOK
  <2>2. ReapChild
    <3>1. ASSUME UNCHANGED children PROVE FALSE
      BY <1>1, <2>1, <3>1
    <3>2. ASSUME NEW f \in Files, NEW others, NEW tokens,
                 StartWaitingJob(f, others, tokens)
          PROVE  FALSE
      <4>1. CASE PutOnChildrenChain(f, others, tokens)
        <5>1. Len(children') = Len(children) + 1
          BY <2>1, <4>1, PushProperties DEF PutOnChildrenChain
        <5> QED BY <1>1, <2>1, <5>1
      <4>2. CASE PutOnWaitingChain(f, others, tokens) \/ FinishAtOnce(f, others, tokens)
        BY <3>1, <4>2 DEF PutOnWaitingChain, FinishAtOnce
      <4> QED BY <3>2, <4>1, <4>2 DEF StartWaitingJob
    <3>3. ASSUME StartJob PROVE FALSE
      <4>1. file \in Files
        BY <2>1, <3>3 DEF StartJob, TypeOK, InNewJob
      <4> QED BY <3>2, <3>3, <4>1 DEF StartJob
    <3>4. ASSUME StartWaitingJobs PROVE FALSE
      <4>1. waiting_jobs # << >> => Head(waiting_jobs) \in Files
        BY <2>1, HeadTailProperties DEF TypeOK
      <4> QED BY <3>1, <3>2, <3>4, <4>1 DEF StartWaitingJobs, chains
    <3> QED
      BY <1>1, <3>1, <3>3, <3>4
         DEF Next, Make, vars, chains, NewJob, ExpandLines, ShellCompleted,
             FinishedLinearly, NothingToReap, WaitForChild, ReapShellFunction,
             ReapUnknown, NextPass, GoalsDone, GiveUp, Exit, CommandExits
  <2>3. PICK i \in 1..Len(children) :
           /\ Matching(i)
           /\ \/ UNCHANGED <<target, chains, pc>>
              \/ \E status \in 0..2 : FreeChild(i, status)
    BY <2>1, <2>2, ReapChildCases
  <2>4. children' = RemoveAt(children, i)
    BY <1>1, <2>1, <2>3 DEF chains, FreeChild
  <2>5. i = Len(children) /\ children # << >>
    BY <2>1, <2>3, OnlyLastMatches, EmptySeq
  <2> QED BY <2>1, <2>4, <2>5, RemoveLast
<1>2. IInv /\ IInv' /\ [Next]_vars =>
         [Len(children') < Len(children) => children' = Front(children)]_children
  BY <1>1
<1> QED BY <1>2, Invariance, PTL DEF Spec, OldestFirst

(* A step that finds no job put off starts none beyond the limit.          *)
LEMMA SlotBoundStep ==
  ASSUME TypeOK, waiting_jobs = << >>, SlotBound, [Next]_vars
  PROVE  SlotBound'
PROOF
<1> SUFFICES ASSUME JobSlots # 0 PROVE job_slots_used' <= JobSlots
  BY DEF SlotBound
<1>1. /\ JobSlots \in Nat /\ job_slots_used \in Nat
      /\ job_slots_used <= JobSlots
  BY OptionsAssumption DEF TypeOK, SlotBound
<1>2. CASE UNCHANGED job_slots_used
  BY <1>1, <1>2
<1>3. CASE StartWaitingJobs
  BY <1>2, <1>3 DEF StartWaitingJobs, chains
<1>4. CASE StartJob
  <2>1. job_slots_used # JobSlots
    BY <1>4 DEF StartJob, SlotsFull
  <2>2. \/ UNCHANGED job_slots_used
        \/ job_slots_used' = job_slots_used + 1
    BY <1>4 DEF StartJob, StartWaitingJob, PutOnWaitingChain,
                PutOnChildrenChain, FinishAtOnce
  <2> QED BY <1>1, <2>1, <2>2
<1>5. CASE ReapChild
  <2>1. \/ UNCHANGED job_slots_used
        \/ job_slots_used' = IF job_slots_used > 0 THEN job_slots_used - 1
                                                   ELSE 0
    BY <1>5 DEF ReapChild, ReapFailed, ReapFinished, ReapAndContinue,
                FreeChild, chains
  <2> QED BY <1>1, <2>1
<1> QED
  BY <1>2, <1>3, <1>4, <1>5
  DEF Next, Make, NewJob, ExpandLines, ShellCompleted, FinishedLinearly,
      NothingToReap, WaitForChild, ReapShellFunction, ReapUnknown, NextPass,
      GoalsDone, GiveUp, Exit, CommandExits, vars, chains

(* No more jobs run at once than -j allows as long as none is put off: it  *)
(* is only start_waiting_jobs that starts a job without a look at the      *)
(* slots (the configuration LoadSlots).                                    *)
THEOREM SlotBoundHolds == Spec /\ [](waiting_jobs = << >>) => []SlotBound
PROOF
<1>1. Init => SlotBound
  BY OptionsAssumption DEF Init, SlotBound
<1>2. TypeOK /\ waiting_jobs = << >> /\ SlotBound /\ [Next]_vars => SlotBound'
  BY SlotBoundStep
<1> QED BY <1>1, <1>2, TypeCorrect, PTL DEF Spec

-----------------------------------------------------------------------------
(***************************************************************************)
(* Several jobs at once.  reap_children does not look at the pid, so which *)
(* child it takes for the dead one may be wrong, but as many leave the     *)
(* chain as processes are reported, but for the one of $(shell).           *)
(***************************************************************************)
NoBuiltins ==
    \A r \in Recipes : \A k \in 1..Len(r.lines) : r.lines[k].kind # "builtin"

One(b) == IF b THEN 1 ELSE 0

(* Where the process of a $(shell) is registered; whether a process has    *)
(* been reported that reap_children has not yet dealt with; and whether    *)
(* one of $(shell) is among all these.                                     *)
Shells == {i \in 1..Len(proc_array) : proc_array[i][2] = 0}
Held == dead.pid # NoPid
ShellHeld == Held /\ dead.pid[2] = 0
ShellDue == Shells # {} \/ ShellHeld

Balance == Len(proc_array) + One(Held) = Len(children) + One(ShellDue)

(* A recipe line that is executing has its place in proc_array.            *)
Registered ==
    \A f \in Files, k \in 1..MaxLines : command[<<f, k>>] = "live" =>
        \E i \in 1..Len(proc_array) : proc_array[i] = <<f, k>>

(* There is one process of $(shell), and it is known to func_shell.        *)
OneShell ==
    /\ \A i \in Shells : proc_array[i] = shell_function_pid
    /\ \A i \in Shells, j \in Shells : i = j
    /\ ShellHeld => dead.pid = shell_function_pid /\ Shells = {}

(* It is over when func_shell returns, or make dies.                       *)
Shelled ==
    /\ shell_function_pid[2] = 0
    /\ shell_function_completed => ~ShellDue
    /\ pc \notin {"shell", "die", "exit"} => shell_function_pid = NoPid

(* The loop that called reap_children goes on when it has dealt with the   *)
(* process; when there was none, the only one due is not registered.       *)
Answer ==
    /\ Held => dead.seen
    /\ dead.seen =>
          /\ pc \in {"reap", "shell", "slots", "linear", "die"}
          /\ SomethingToReap
          /\ pc = "shell" => ~shell_function_completed
          /\ ~Held => children = << >>

Gone == pc = "exit" => children = << >>

Waiting == ~builtin_cmd_running /\ Balance /\ Registered /\ OneShell
ParallelInv == IInv /\ Waiting /\ Shelled /\ Answer /\ Gone

(* Only processes have places in the array and are reported.               *)
LEMMA PidTypes ==
  ASSUME TypeOK
  PROVE  /\ NoPid \notin Pids /\ NoPid[2] = 0
         /\ proc_array \in Seq(Pids) /\ Len(proc_array) \in Nat
         /\ \A i \in 1..Len(proc_array) : proc_array[i] \in Pids
         /\ children \in Seq(Files) /\ Len(children) \in Nat
         /\ command \in [Pids -> OS!Fates] /\ fake_exits_pending \in Nat
         /\ \A f \in Files, k \in 1..MaxLines : <<f, k>> \in Pids /\ k # 0
         /\ \A f \in Files : <<f, 0>> \in Pids
PROOF
<1>1. NoPid \notin Pids /\ NoPid[2] = 0
  BY FilesAssumption DEF Pids, NoPid
<1>2. /\ proc_array \in Seq(Pids) /\ command \in [Pids -> OS!Fates]
      /\ children \in Seq(Files) /\ fake_exits_pending \in Nat
  BY DEF TypeOK, OS!SubProcTypeOK
<1>3. \A i \in 1..Len(proc_array) : proc_array[i] \in Pids
  BY <1>2, ElementOfSeq
<1>4. Len(proc_array) \in Nat /\ Len(children) \in Nat
  BY <1>2, LenProperties
<1>5. MaxLines \in Nat
  BY RecipesAssumption
<1> QED BY <1>1, <1>2, <1>3, <1>4, <1>5 DEF Pids

(* Without built-ins a command that is running is a registered process.    *)
LEMMA StartJobCommandRegisters ==
  ASSUME TypeOK, NoBuiltins, ~builtin_cmd_running, NEW f \in Files, NEW result,
         StartJobCommand(f, result)
  PROVE  /\ ~builtin_cmd_running'
         /\ \/ result # "running" /\ UNCHANGED os
            \/ \E p \in Pids :
                  /\ p[2] # 0
                  /\ \/ result = "running" /\ OS!ProcessEasyBegun(p)
                     \/ result # "running" /\ OS!ProcessEasyRefused(p)
PROOF
<1>1. PICK k \in command_line[f]..(Len(Lines(f)) + 1) :
         NoMoreCommands(f, k, result) \/ RunLine(f, k, result)
  BY DEF StartJobCommand
<1>2. /\ Len(Lines(f)) \in Nat /\ MaxLines \in Nat
      /\ \A j \in 1..Len(Lines(f)) : <<f, j>> \in Pids /\ Lines(f)[j].kind # "builtin"
  BY RecipeLength DEF NoBuiltins, TypeOK, Lines
<1>3. command_line[f] \in Nat \ {0}
  BY <1>2 DEF TypeOK
<1>4. CASE NoMoreCommands(f, k, result)
  <2>1. result = "won" /\ UNCHANGED os
    BY <1>4 DEF NoMoreCommands
  <2>2. command_line[f] # k => k - 1 \in 1..Len(Lines(f))
    BY <1>1, <1>2, <1>3, <1>4 DEF NoMoreCommands
  <2>3. ~builtin_cmd_running'
    BY <1>2, <1>4, <2>2 DEF NoMoreCommands
  <2> QED BY <2>1, <2>3
<1>5. CASE RunLine(f, k, result)
  <2>1. k \in 1..Len(Lines(f))
    BY <1>1, <1>2, <1>3, <1>5 DEF RunLine
  <2>2. ~builtin_cmd_running' /\ ProcessLine(f, k, result)
    BY <1>2, <1>5, <2>1 DEF RunLine, BuiltinLine
  <2>3. <<f, k>> \in Pids /\ <<f, k>>[2] # 0
    BY <1>2, <2>1
  <2>4. \/ result # "running" /\ UNCHANGED os
        \/ result = "running" /\ OS!ProcessEasyBegun(<<f, k>>)
        \/ result # "running" /\ OS!ProcessEasyRefused(<<f, k>>)
    BY <2>2 DEF ProcessLine
  <2> QED BY <2>2, <2>3, <2>4
<1> QED BY <1>1, <1>4, <1>5

(* A registered process goes to the end of the array; no other moves.      *)
LEMMA RegisterProcess ==
  ASSUME TypeOK, Registered, NEW p \in Pids, proc_array' = Append(proc_array, p),
         \A q \in Pids : q # p /\ command'[q] = "live" => command[q] = "live"
  PROVE  /\ Registered'
         /\ Len(proc_array') = Len(proc_array) + 1
         /\ \A i \in 1..Len(proc_array) : proc_array'[i] = proc_array[i]
         /\ proc_array'[Len(proc_array) + 1] = p
PROOF
<1>1. /\ Len(proc_array') = Len(proc_array) + 1
      /\ \A i \in 1..Len(proc_array) : proc_array'[i] = proc_array[i]
      /\ proc_array'[Len(proc_array) + 1] = p
  BY PidTypes, AppendProperties
<1>2. ASSUME NEW f \in Files, NEW k \in 1..MaxLines, command'[<<f, k>>] = "live"
      PROVE  \E i \in 1..Len(proc_array') : proc_array'[i] = <<f, k>>
  <2>1. CASE <<f, k>> = p
    <3>1. Len(proc_array) + 1 \in 1..Len(proc_array')
      BY <1>1, PidTypes
    <3> QED BY <1>1, <2>1, <3>1
  <2>2. CASE <<f, k>> # p
    <3>1. <<f, k>> \in Pids
      BY PidTypes
    <3>2. PICK i \in 1..Len(proc_array) : proc_array[i] = <<f, k>>
      BY <1>2, <2>2, <3>1 DEF Registered
    <3>3. i \in 1..Len(proc_array') /\ proc_array'[i] = <<f, k>>
      BY <1>1, <3>2, PidTypes
    <3> QED BY <3>3
  <2> QED BY <2>1, <2>2
<1> QED BY <1>1, <1>2 DEF Registered

(* The children that have no process any more: at most the one that is due *)
(* to be reaped.                                                           *)
Left == Len(children) - One(Held)
NoShellHeld == ~ShellHeld /\ ~ShellHeld'

(* What is said of the waiting concerns the processes due, not how they    *)
(* end nor that another could not be launched.                             *)
LEMMA NoneRegistered ==
  ASSUME TypeOK, TypeOK', Waiting, ~builtin_cmd_running',
         UNCHANGED <<shell_function_pid, proc_array>>,
         UNCHANGED dead \/ NoShellHeld, Left' = Left,
         \A q \in Pids : command'[q] = "live" => command[q] = "live"
  PROVE  Waiting' /\ (ShellDue' <=> ShellDue)
PROOF
<1>1. /\ Shells' = Shells /\ (ShellHeld' <=> ShellHeld) /\ (ShellDue' <=> ShellDue)
      /\ ShellHeld' => UNCHANGED dead
  BY DEF Shells, NoShellHeld, Held, ShellHeld, ShellDue
<1>2. Balance'
  <2>1. /\ One(Held) \in Int /\ One(Held)' \in Int
        /\ One(ShellDue) \in Int /\ One(ShellDue)' = One(ShellDue)
    BY <1>1 DEF One
  <2>2. Len(children) \in Int /\ Len(children') \in Int /\ Len(proc_array) \in Int
    BY LenProperties DEF TypeOK, OS!SubProcTypeOK
  <2> QED BY <2>1, <2>2 DEF Waiting, Balance, Left
<1>3. OneShell'
  BY <1>1 DEF Waiting, OneShell
<1>4. Registered'
  BY PidTypes DEF Waiting, Registered
<1> QED BY <1>1, <1>2, <1>3, <1>4 DEF Waiting

(* Nor do a command that is not launched and a child that needs none.      *)
LEMMA RefusedWaits ==
  ASSUME TypeOK, TypeOK', Waiting, ~builtin_cmd_running',
         UNCHANGED shell_function_pid,
         UNCHANGED dead \/ NoShellHeld, Left' = Left,
         UNCHANGED os \/ \E p \in Pids : OS!ProcessEasyRefused(p)
  PROVE  Waiting' /\ (ShellDue' <=> ShellDue)
PROOF
<1>1. CASE UNCHANGED os
  BY <1>1, NoneRegistered DEF os
<1>2. ASSUME NEW p \in Pids, OS!ProcessEasyRefused(p)
      PROVE  Waiting' /\ (ShellDue' <=> ShellDue)
  <2>1. /\ UNCHANGED proc_array
        /\ \A q \in Pids : command'[q] = "live" => command[q] = "live"
    BY <1>2, PidTypes DEF OS!ProcessEasyRefused
  <2> QED BY <2>1, NoneRegistered
<1> QED BY <1>1, <1>2

(* The process of a line that is begun is due, and so is its child.        *)
LEMMA BegunWaits ==
  ASSUME TypeOK, TypeOK', Waiting, ~builtin_cmd_running',
         UNCHANGED shell_function_pid,
         UNCHANGED dead \/ NoShellHeld, Left' = Left + 1,
         NEW p \in Pids, p[2] # 0, OS!ProcessEasyBegun(p)
  PROVE  Waiting' /\ (ShellDue' <=> ShellDue)
PROOF
<1>1. /\ proc_array' = Append(proc_array, p)
      /\ \A q \in Pids : q # p /\ command'[q] = "live" => command[q] = "live"
  BY PidTypes DEF OS!ProcessEasyBegun
<1>2. /\ Registered'
      /\ Len(proc_array') = Len(proc_array) + 1
      /\ \A i \in 1..Len(proc_array) : proc_array'[i] = proc_array[i]
      /\ proc_array'[Len(proc_array) + 1] = p
  BY <1>1, RegisterProcess DEF Waiting
<1>3. Len(proc_array) \in Nat /\ Len(children) \in Int /\ Len(children') \in Int
  BY LenProperties DEF TypeOK, OS!SubProcTypeOK
<1>4. Shells' = Shells
  BY <1>2, <1>3 DEF Shells
<1>5. /\ (ShellHeld' <=> ShellHeld) /\ (ShellDue' <=> ShellDue)
      /\ ShellHeld' => UNCHANGED dead
  BY <1>4 DEF NoShellHeld, Held, ShellHeld, ShellDue
<1>6. Balance'
  <2>1. /\ One(Held) \in Int /\ One(Held)' \in Int
        /\ One(ShellDue) \in Int /\ One(ShellDue)' = One(ShellDue)
    BY <1>5 DEF One
  <2> QED BY <1>2, <1>3, <2>1 DEF Waiting, Balance, Left
<1>7. OneShell'
  <2>1. \A i \in Shells : proc_array'[i] = proc_array[i]
    BY <1>2 DEF Shells
  <2> QED BY <1>4, <1>5, <2>1 DEF Waiting, OneShell
<1> QED BY <1>2, <1>5, <1>6, <1>7 DEF Waiting

(* A job that is put off, begun or over at once keeps the balance.         *)
LEMMA StartWaitingJobWaits ==
  ASSUME TypeOK, TypeOK', NoBuiltins, Waiting,
         NEW f \in Files, NEW others, NEW tokens,
         StartWaitingJob(f, others, tokens), UNCHANGED <<shell, dead>>
  PROVE  Waiting' /\ (ShellDue' <=> ShellDue)
PROOF
<1>1. /\ UNCHANGED <<dead, shell_function_pid>> /\ ~builtin_cmd_running
      /\ Held' = Held /\ One(Held)' = One(Held) /\ One(Held) \in Int
  BY DEF shell, Waiting, Held, One
<1>2. CASE PutOnWaitingChain(f, others, tokens)
  <2>1. UNCHANGED <<children, os, builtin_cmd_running>>
    BY <1>2 DEF PutOnWaitingChain, child
  <2> QED BY <1>1, <2>1, RefusedWaits DEF Left
<1>3. CASE PutOnChildrenChain(f, others, tokens)
  <2>1. ~builtin_cmd_running' /\ \E p \in Pids : p[2] # 0 /\ OS!ProcessEasyBegun(p)
    BY <1>1, <1>3, StartJobCommandRegisters DEF PutOnChildrenChain
  <2>2. children' = <<f>> \o children
    BY <1>3 DEF PutOnChildrenChain
  <2>3. Left' = Left + 1
    <3>1. Len(children') = Len(children) + 1 /\ Len(children) \in Int
      BY <2>2, PidTypes, PushProperties
    <3> QED BY <1>1, <3>1 DEF Left
  <2> QED BY <1>1, <2>1, <2>3, BegunWaits
<1>4. CASE FinishAtOnce(f, others, tokens)
  <2>1. ~builtin_cmd_running' /\ (UNCHANGED os \/ \E p \in Pids : OS!ProcessEasyRefused(p))
    BY <1>1, <1>4, StartJobCommandRegisters DEF FinishAtOnce
  <2>2. UNCHANGED children
    BY <1>4 DEF FinishAtOnce
  <2> QED BY <1>1, <2>1, <2>2, RefusedWaits DEF Left
<1> QED BY <1>2, <1>3, <1>4 DEF StartWaitingJob

(* The process that is reported leaves the array; if it is the one of      *)
(* $(shell), it was the only one.                                          *)
LEMMA ReportWaits ==
  ASSUME TypeOK, TypeOK', Waiting, ~Held, NEW p \in Pids, OS!ProcessWaitForAny(p),
         dead'.pid = p, UNCHANGED <<children, shell_function_pid, builtin_cmd_running>>
  PROVE  Waiting' /\ Held' /\ (ShellDue' <=> ShellDue)
PROOF
<1>1. PICK i \in 1..Len(proc_array) :
         /\ p = proc_array[i] /\ command[p] # "live"
         /\ proc_array' = RemoveAt(proc_array, i)
         /\ UNCHANGED command
  <2>1. PICK i \in OS!Reportable :
           /\ p = proc_array[i]
           /\ proc_array' = RemoveAt(proc_array, i)
           /\ UNCHANGED command
    BY DEF OS!ProcessWaitForAny, OS!RemoveAt, RemoveAt
  <2> QED BY <2>1 DEF OS!Reportable
<1>2. /\ Len(proc_array) \in Nat \ {0} /\ Len(children) \in Nat
      /\ Len(proc_array') = Len(proc_array) - 1
      /\ \A j \in 1..(Len(proc_array) - 1) :
            proc_array'[j] = IF j < i THEN proc_array[j] ELSE proc_array[j + 1]
  <2>1. /\ proc_array \in Seq(Pids)
        /\ Len(proc_array) \in Nat /\ Len(children) \in Nat
    BY PidTypes
  <2>2. Len(proc_array) \in Nat \ {0}
    BY <2>1
  <2>3. /\ Len(RemoveAt(proc_array, i)) = Len(proc_array) - 1
        /\ \A j \in 1..(Len(proc_array) - 1) :
              RemoveAt(proc_array, i)[j] =
                 IF j < i THEN proc_array[j] ELSE proc_array[j + 1]
    BY <2>1, RemoveAtProperties
  <2> QED BY <1>1, <2>1, <2>2, <2>3
<1>3. Held'
  BY PidTypes DEF Held
<1>4. \A f \in Files, k \in 1..MaxLines : command'[<<f, k>>] = "live" =>
         \E j \in 1..Len(proc_array') : proc_array'[j] = <<f, k>>
  <2> SUFFICES ASSUME NEW f \in Files, NEW k \in 1..MaxLines, command[<<f, k>>] = "live"
               PROVE  \E j \in 1..Len(proc_array') : proc_array'[j] = <<f, k>>
    BY <1>1
  <2>1. PICK j \in 1..Len(proc_array) : proc_array[j] = <<f, k>>
    BY DEF Waiting, Registered
  <2>2. j # i
    BY <1>1, <2>1
  <2>3. CASE j < i
    BY <1>2, <2>1, <2>3
  <2>4. CASE j > i
    <3>1. j - 1 \in 1..Len(proc_array') /\ ~(j - 1 < i) /\ (j - 1) + 1 = j
      BY <1>2, <2>4
    <3> QED BY <1>2, <2>1, <3>1
  <2> QED BY <2>2, <2>3, <2>4
<1>5. CASE p[2] = 0
  <2>1. i \in Shells /\ Shells = {i} /\ p = shell_function_pid
    BY <1>1, <1>5 DEF Shells, Waiting, OneShell
  <2>2. Shells' = {}
    <3>1. ASSUME NEW j \in 1..Len(proc_array'), proc_array'[j][2] = 0 PROVE FALSE
      <4>1. CASE j < i
        <5>1. j \in Shells
          BY <1>2, <3>1, <4>1 DEF Shells
        <5> QED BY <2>1, <4>1, <5>1
      <4>2. CASE ~(j < i)
        <5>1. j + 1 \in Shells
          BY <1>2, <3>1, <4>2 DEF Shells
        <5> QED BY <2>1, <4>2, <5>1
      <4> QED BY <4>1, <4>2
    <3> QED BY <3>1 DEF Shells
  <2>3. ShellHeld' /\ ShellDue' /\ ShellDue
    BY <1>3, <1>5, <2>1 DEF ShellHeld, ShellDue
  <2>4. OneShell'
    BY <2>1, <2>2, <2>3 DEF OneShell
  <2>5. Balance'
    BY <1>2, <1>3, <2>3 DEF Waiting, Balance, One
  <2> QED BY <1>3, <1>4, <2>3, <2>4, <2>5 DEF Waiting, Registered
<1>6. CASE p[2] # 0
  <2>1. ~ShellHeld' /\ ~ShellHeld
    BY <1>6 DEF ShellHeld
  <2> DEFINE at(j) == IF j < i THEN j ELSE j + 1
  <2>2. \A j \in Shells' : at(j) \in Shells /\ proc_array'[j] = proc_array[at(j)]
    BY <1>2 DEF Shells
  <2>3. \A j \in Shells', k \in Shells' : at(j) = at(k) => j = k
    BY <1>2 DEF Shells
  <2>4. Shells # {} => Shells' # {}
    <3> SUFFICES ASSUME NEW j \in Shells PROVE \E k \in 1..Len(proc_array') : k \in Shells'
      OBVIOUS
    <3>1. j # i
      BY <1>1, <1>6 DEF Shells
    <3>2. CASE j < i
      <4>1. j \in 1..Len(proc_array') /\ proc_array'[j] = proc_array[j]
        BY <1>2, <3>2 DEF Shells
      <4> QED BY <4>1 DEF Shells
    <3>3. CASE j > i
      <4>1. j - 1 \in 1..Len(proc_array') /\ ~(j - 1 < i) /\ (j - 1) + 1 = j
        BY <1>2, <3>3 DEF Shells
      <4>2. proc_array'[j - 1] = proc_array[j]
        BY <1>2, <4>1
      <4> QED BY <4>1, <4>2 DEF Shells
    <3>4. j \in 1..Len(proc_array)
      BY DEF Shells
    <3> QED BY <3>1, <3>2, <3>3, <3>4
  <2>5. ShellDue' <=> ShellDue
    BY <2>1, <2>2, <2>4 DEF ShellDue
  <2>6. OneShell'
    BY <2>1, <2>2, <2>3 DEF Waiting, OneShell
  <2>7. Balance'
    <3>1. One(ShellDue)' = One(ShellDue) /\ One(ShellDue) \in Int
      BY <2>5 DEF One
    <3> QED BY <1>2, <1>3, <3>1 DEF Waiting, Balance, One
  <2> QED BY <1>3, <1>4, <2>5, <2>6, <2>7 DEF Waiting, Registered
<1> QED BY <1>5, <1>6

(* When nothing is registered there are no children, so the wait that      *)
(* reports nothing is one for a process of $(shell) only.                  *)
LEMMA WaitForChildWaits ==
  ASSUME ParallelInv, TypeOK', WaitForChild
  PROVE  Waiting' /\ Shelled' /\ Answer' /\ Gone'
PROOF
<1>1. /\ TypeOK /\ Waiting /\ Shelled /\ Answer /\ Gone
      /\ Blocked /\ ~dead.seen /\ ~Held /\ SomethingToReap /\ ~builtin_cmd_running
  BY DEF ParallelInv, IInv, Answer, Waiting, WaitForChild
<1>2. UNCHANGED <<children, builtin_cmd_running, shell_function_pid,
                  shell_function_completed, pc>>
  BY DEF WaitForChild, chains, child, shell
<1>3. Waiting' /\ (ShellDue' <=> ShellDue) /\ dead'.seen /\ (~Held' => children = << >>)
  <2>1. CASE proc_array = << >>
    <3>1. dead' = [NoDead EXCEPT !.seen = TRUE] /\ UNCHANGED os
      BY <2>1 DEF WaitForChild
    <3>2. dead'.pid = NoPid /\ dead'.seen
      BY <3>1 DEF NoDead
    <3>3. NoShellHeld /\ ~Held'
      BY <1>1, <3>2 DEF NoShellHeld, ShellHeld, Held
    <3>4. Left' = Left
      BY <1>1, <1>2, <3>3 DEF Left, One
    <3>5. Waiting' /\ (ShellDue' <=> ShellDue)
      BY <1>1, <1>2, <3>1, <3>3, <3>4, RefusedWaits
    <3>6. ~ShellDue
      BY <1>1, <2>1 DEF ShellDue, ShellHeld, Shells
    <3>7. Len(children) = 0
      BY <1>1, <2>1, <3>6, PidTypes DEF Waiting, Balance, One
    <3> QED BY <1>1, <3>2, <3>5, <3>7, PidTypes, EmptySeq
  <2>2. CASE proc_array # << >>
    <3>1. PICK p \in Pids :
             /\ OS!ProcessWaitForAny(p)
             /\ dead' = [pid |-> p, failed |-> OS!BadExit(p), seen |-> TRUE]
      BY <1>1, <2>2 DEF WaitForChild
    <3> QED BY <1>1, <1>2, <3>1, ReportWaits
  <2> QED BY <2>1, <2>2
<1>4. Shelled' /\ Gone'
  BY <1>1, <1>2, <1>3 DEF Shelled, Gone
<1>5. Answer'
  BY <1>1, <1>2, <1>3 DEF Answer, Blocked, SomethingToReap
<1> QED BY <1>3, <1>4, <1>5

(* A process reported while func_shell waits is known to be its own.       *)
LEMMA ReapShellFunctionWaits ==
  ASSUME ParallelInv, TypeOK', ReapShellFunction
  PROVE  Waiting' /\ Shelled' /\ Answer' /\ Gone'
PROOF
<1>1. /\ TypeOK /\ Waiting /\ Shelled /\ Answer /\ Gone
      /\ dead.seen /\ dead.pid = shell_function_pid /\ dead' = NoDead
      /\ UNCHANGED <<children, os, shell_function_pid, builtin_cmd_running>>
      /\ pc' = AfterReap /\ shell_function_completed'
  BY DEF ParallelInv, IInv, ReapShellFunction, IsShellFunction, chains, child
<1>2. UNCHANGED <<proc_array, command>> /\ NoDead.pid = NoPid /\ ~NoDead.seen
  BY <1>1 DEF os, NoDead
<1>3. Held /\ ShellHeld /\ Shells = {}
  <2>1. Held
    BY <1>1 DEF Held, Answer, SomethingToReap
  <2>2. ShellHeld
    BY <1>1, <2>1 DEF ShellHeld, Shelled
  <2> QED BY <1>1, <2>1, <2>2 DEF Waiting, OneShell
<1>4. ~Held' /\ ~ShellHeld' /\ Shells' = {} /\ ShellDue /\ ~ShellDue'
  BY <1>1, <1>2, <1>3 DEF Held, ShellHeld, ShellDue, Shells
<1>5. Balance'
  BY <1>1, <1>2, <1>3, <1>4, PidTypes DEF Waiting, Balance, One
<1>6. Waiting'
  BY <1>1, <1>2, <1>4, <1>5 DEF Waiting, Registered, OneShell
<1>7. Shelled' /\ Gone'
  BY <1>1, <1>4 DEF Shelled, Gone, AfterReap
<1>8. Answer'
  BY <1>1, <1>2, <1>4 DEF Answer
<1> QED BY <1>6, <1>7, <1>8

(* What is reaped otherwise is not a process of $(shell).                  *)
LEMMA ReapOther ==
  ASSUME TypeOK, Waiting, Shelled, Answer, dead.seen, ~IsShellFunction, dead' = NoDead
  PROVE  NoShellHeld /\ ~Held' /\ ~dead'.seen /\ (children # << >> => Held)
PROOF
<1>1. dead.pid # shell_function_pid
  BY DEF IsShellFunction, Waiting
<1>2. dead'.pid = NoPid /\ ~dead'.seen
  BY DEF NoDead
<1> QED BY <1>1, <1>2 DEF NoShellHeld, ShellHeld, Held, Waiting, OneShell, Answer

(* With no child left, only a wait that found nothing ends like this.      *)
LEMMA ReapUnknownWaits ==
  ASSUME ParallelInv, TypeOK', ReapUnknown
  PROVE  Waiting' /\ Shelled' /\ Answer' /\ Gone'
PROOF
<1>1. /\ TypeOK /\ Waiting /\ Shelled /\ Answer /\ Gone
      /\ dead.seen /\ ~IsShellFunction /\ dead' = NoDead /\ children = << >>
      /\ UNCHANGED <<children, os, shell_function_pid, shell_function_completed,
                     builtin_cmd_running, pc>>
  BY DEF ParallelInv, IInv, ReapUnknown, chains, child, shell
<1>2. NoShellHeld /\ ~Held' /\ ~dead'.seen
  BY <1>1, ReapOther
<1>3. ~Held
  <2> SUFFICES ASSUME Held PROVE FALSE
    OBVIOUS
  <2>1. Len(proc_array) + 1 = 0 + One(ShellDue) /\ Len(proc_array) \in Nat
    BY <1>1, PidTypes, EmptySeq DEF Waiting, Balance, One
  <2>2. ShellDue /\ Len(proc_array) = 0
    BY <2>1 DEF One
  <2> QED BY <1>2, <2>2 DEF NoShellHeld, ShellDue, Shells
<1>4. Left' = Left
  BY <1>1, <1>2, <1>3 DEF Left, One
<1>5. Waiting' /\ (ShellDue' <=> ShellDue)
  <2>1. ~builtin_cmd_running'
    BY <1>1 DEF Waiting
  <2> QED BY <1>1, <1>2, <1>4, <2>1, RefusedWaits
<1>6. Shelled' /\ Gone' /\ Answer'
  BY <1>1, <1>2, <1>5 DEF Shelled, Gone, Answer
<1> QED BY <1>5, <1>6

(* One child leaves the chain, or has another process, for one process     *)
(* that was reported.                                                      *)
LEMMA ReapChildWaits ==
  ASSUME ParallelInv, TypeOK', NoBuiltins, ReapChild
  PROVE  Waiting' /\ Shelled' /\ Answer' /\ Gone'
PROOF
<1>1. /\ TypeOK /\ Waiting /\ Shelled /\ Answer /\ Gone
      /\ dead.seen /\ ~IsShellFunction /\ dead' = NoDead
      /\ UNCHANGED <<shell_function_pid, shell_function_completed>>
      /\ ~builtin_cmd_running
  BY DEF ParallelInv, IInv, Waiting, ReapChild, shell
<1>2. PICK i \in 1..Len(children) :
         ReapFailed(i) \/ ReapFinished(i) \/ ReapAndContinue(i)
  BY DEF ReapChild
<1>3. /\ Len(children) \in Nat \ {0} /\ children[i] \in Files
      /\ children # << >> /\ children \in Seq(Files)
  BY <1>1, <1>2, PidTypes, ElementOfSeq, EmptySeq
<1>4. NoShellHeld /\ Held /\ ~Held' /\ ~dead'.seen
  BY <1>1, <1>3, ReapOther
<1>5. ASSUME NEW status, FreeChild(i, status)
      PROVE  Left' = Left
  <2>1. Len(children') = Len(children) - 1
    BY <1>3, <1>5, RemoveAtProperties DEF FreeChild
  <2> QED BY <1>3, <1>4, <2>1 DEF Left, One
<1>6. ASSUME UNCHANGED children PROVE Left' = Left + 1
  BY <1>3, <1>4, <1>6 DEF Left, One
<1>7. Waiting' /\ (ShellDue' <=> ShellDue)
  <2>1. CASE ReapFailed(i) \/ ReapFinished(i)
    <3>1. /\ UNCHANGED <<os, builtin_cmd_running>>
          /\ \E status \in {0, 2} : FreeChild(i, status)
      BY <2>1 DEF ReapFailed, ReapFinished, child
    <3>2. ~builtin_cmd_running' /\ Left' = Left
      BY <1>1, <1>5, <3>1
    <3> QED BY <1>1, <1>4, <3>1, <3>2, RefusedWaits
  <2>2. CASE StartJobCommand(children[i], "running") /\ UNCHANGED chains
    <3>1. /\ ~builtin_cmd_running'
          /\ \E p \in Pids : p[2] # 0 /\ OS!ProcessEasyBegun(p)
      BY <1>1, <1>3, <2>2, StartJobCommandRegisters
    <3>2. Left' = Left + 1
      BY <1>6, <2>2 DEF chains
    <3> QED BY <1>1, <1>4, <3>1, <3>2, BegunWaits
  <2>3. ASSUME NEW result \in {"won", "asked", "lost"},
               StartJobCommand(children[i], result),
               FreeChild(i, StatusOf(result))
        PROVE  Waiting' /\ (ShellDue' <=> ShellDue)
    <3>1. /\ ~builtin_cmd_running'
          /\ UNCHANGED os \/ \E p \in Pids : OS!ProcessEasyRefused(p)
      BY <1>1, <1>3, <2>3, StartJobCommandRegisters
    <3>2. Left' = Left
      BY <1>5, <2>3
    <3> QED BY <1>1, <1>4, <3>1, <3>2, RefusedWaits
  <2> QED BY <1>2, <2>1, <2>2, <2>3 DEF ReapAndContinue
<1>8. /\ pc' = "die" \/ pc' = AfterReap \/ pc' = pc
      /\ pc \notin {"shell", "die", "exit"} => shell_function_pid = NoPid
  BY <1>1, ReapChildCases DEF ParallelInv, Shelled
<1>9. Shelled'
  BY <1>1, <1>7, <1>8 DEF Shelled, AfterReap
<1>10. Gone'
  <2>1. pc # "exit"
    BY <1>1, <1>3 DEF Gone
  <2> QED BY <1>8, <2>1 DEF Gone, AfterReap
<1>11. Answer'
  BY <1>4 DEF Answer
<1> QED BY <1>7, <1>9, <1>10, <1>11

(* func_shell has its process registered, if there is a slot for it.       *)
LEMMA ExpandLinesWaits ==
  ASSUME ParallelInv, TypeOK', ExpandLines
  PROVE  Waiting' /\ Shelled' /\ Answer' /\ Gone'
PROOF
<1>1. /\ TypeOK /\ Waiting /\ Shelled /\ Answer
      /\ pc = "expand" /\ file \in Files /\ pc' \in {"shell", "slots"}
      /\ shell_function_pid = NoPid /\ ~dead.seen /\ ~Held
      /\ UNCHANGED <<children, dead, builtin_cmd_running>> /\ ~builtin_cmd_running
  BY DEF ParallelInv, IInv, Waiting, Shelled, Answer, ExpandLines, chains, child,
         TypeOK, InNewJob
<1>2. /\ Left' = Left /\ ~ShellHeld /\ ~ShellHeld' /\ ~Held' /\ <<file, 0>> \in Pids
      /\ Len(proc_array) \in Nat /\ Len(children) \in Nat
      /\ NoPid \notin Pids /\ NoPid[2] = 0
  BY <1>1, PidTypes DEF Left, Held, ShellHeld, One
<1>3. Shells = {} /\ ~ShellDue
  <2>1. ASSUME NEW i \in Shells PROVE FALSE
    BY <1>1, <1>2, PidTypes DEF Waiting, OneShell, Shells
  <2> QED BY <1>2, <2>1 DEF ShellDue
<1>4. CASE UNCHANGED shell_function_pid
           /\ (UNCHANGED os \/ OS!ProcessEasyRefused(<<file, 0>>)) /\ pc' = "slots"
  <2>1. Waiting' /\ (ShellDue' <=> ShellDue)
    BY <1>1, <1>2, <1>4, RefusedWaits
  <2> QED BY <1>1, <1>2, <1>3, <1>4, <2>1 DEF Shelled, Answer, Gone
<1>5. CASE /\ OS!OpenPipe(<<file, 0>>) /\ shell_function_pid' = <<file, 0>>
           /\ shell_function_completed' = FALSE /\ pc' = "shell"
  <2>1. Shelled' /\ Answer' /\ Gone'
    BY <1>1, <1>2, <1>5 DEF Shelled, Answer, Gone
  <2>2. \A f \in Files, k \in 1..MaxLines :
           command'[<<f, k>>] = "live" => command[<<f, k>>] = "live"
    <3> TAKE f \in Files, k \in 1..MaxLines
    <3>1. <<f, k>> \in Pids /\ <<f, k>> # <<file, 0>>
      BY <1>1, PidTypes
    <3> QED BY <1>1, <1>5, <3>1, PidTypes DEF OS!OpenPipe
  <2>3. CASE UNCHANGED proc_array
    <3>1. Shells' = {} /\ ~ShellDue'
      BY <1>2, <1>3, <2>3 DEF Shells, ShellDue
    <3>2. Balance'
      BY <1>1, <1>2, <1>3, <2>3, <3>1 DEF Waiting, Balance, One
    <3>3. Registered'
      BY <1>1, <2>2, <2>3 DEF Waiting, Registered
    <3> QED BY <1>1, <1>2, <2>1, <3>1, <3>2, <3>3 DEF Waiting, OneShell
  <2>4. CASE proc_array' = Append(proc_array, <<file, 0>>)
    <3> DEFINE n == Len(proc_array) + 1
    <3>1. /\ Len(proc_array') = n /\ proc_array'[n] = <<file, 0>>
          /\ \A i \in 1..Len(proc_array) : proc_array'[i] = proc_array[i]
      BY <1>1, <1>2, <2>4, PidTypes, AppendProperties
    <3>2. n \in 1..Len(proc_array') /\ \A i \in 1..n : i = n \/ i \in 1..Len(proc_array)
      BY <1>2, <3>1
    <3> HIDE DEF n
    <3>3. Shells' = {n}
      BY <1>3, <3>1, <3>2 DEF Shells
    <3>4. ShellDue'
      BY <3>3 DEF ShellDue
    <3>5. Balance'
      BY <1>1, <1>2, <1>3, <3>1, <3>4 DEF Waiting, Balance, One, n
    <3>6. Registered'
      <4>1. ASSUME NEW f \in Files, NEW k \in 1..MaxLines, command'[<<f, k>>] = "live"
            PROVE  \E i \in 1..Len(proc_array') : proc_array'[i] = <<f, k>>
        <5>1. PICK i \in 1..Len(proc_array) : proc_array[i] = <<f, k>>
          BY <1>1, <2>2, <4>1 DEF Waiting, Registered
        <5>2. i \in 1..Len(proc_array') /\ proc_array'[i] = <<f, k>>
          BY <1>2, <3>1, <5>1 DEF n
        <5> QED BY <5>2
      <4> QED BY <4>1 DEF Registered
    <3>7. OneShell'
      BY <1>2, <1>5, <3>1, <3>3 DEF OneShell
    <3> QED BY <1>1, <2>1, <3>5, <3>6, <3>7 DEF Waiting
  <2> QED BY <1>5, <2>3, <2>4 DEF OS!OpenPipe
<1> QED BY <1>1, <1>4, <1>5 DEF ExpandLines, shell, os

(* The other steps of the thread leave the processes that are due alone.   *)
LEMMA ParallelStep == NoBuiltins /\ ParallelInv /\ [Next]_vars => ParallelInv'
PROOF
<1> SUFFICES ASSUME NoBuiltins, ParallelInv, [Next]_vars PROVE ParallelInv'
  OBVIOUS
<1>1. /\ TypeOK /\ Waiting /\ Shelled /\ Answer /\ Gone /\ ~builtin_cmd_running
      /\ shell_function_pid = NoPid \/ pc \in {"shell", "die", "exit"}
  BY DEF ParallelInv, IInv, Waiting, Shelled
<1>2. IInv' /\ TypeOK'
  BY InvStep DEF ParallelInv, IInv
<1>3. SUFFICES Waiting' /\ Shelled' /\ Answer' /\ Gone'
  BY <1>2 DEF ParallelInv
<1>4. ASSUME UNCHANGED <<children, dead, os, shell_function_pid, builtin_cmd_running>>
      PROVE  Waiting' /\ (ShellDue' <=> ShellDue)
  <2>1. Left' = Left
    BY <1>4 DEF Left, Held
  <2> QED BY <1>1, <1>2, <1>4, <2>1, RefusedWaits
<1>5. CASE UNCHANGED vars
  <2>1. Waiting' /\ (ShellDue' <=> ShellDue)
    BY <1>4, <1>5 DEF vars, chains, child, shell
  <2> QED BY <1>1, <1>5, <2>1 DEF vars, chains, shell, Shelled, Answer, Gone, Held,
                                  SomethingToReap
<1>6. CASE (\E f \in Files : NewJob(f)) \/ NextPass \/ GoalsDone \/ GiveUp
  <2>1. /\ UNCHANGED <<children, dead, os, shell, builtin_cmd_running>>
        /\ pc = "pass" /\ pc' \in {"kick", "kick_pass", "die"}
    BY <1>6 DEF NewJob, NextPass, GoalsDone, GiveUp, chains, child
  <2>2. Waiting' /\ (ShellDue' <=> ShellDue)
    BY <1>4, <2>1 DEF shell
  <2> QED BY <1>1, <2>1, <2>2 DEF Shelled, Answer, Gone, Held, shell
<1>7. CASE StartWaitingJobs \/ StartJob
  <2>1. /\ UNCHANGED <<shell, dead>> /\ ~dead.seen
        /\ pc \notin {"shell", "die", "exit"} /\ pc' \notin {"shell", "die", "exit"}
    BY <1>1, <1>7 DEF StartWaitingJobs, StartJob, Answer
  <2>2. Waiting' /\ (ShellDue' <=> ShellDue)
    <3>1. CASE UNCHANGED <<chains, child, os>>
      BY <1>4, <2>1, <3>1 DEF chains, child, shell
    <3>2. ASSUME NEW f \in Files, NEW others, NEW tokens,
                 StartWaitingJob(f, others, tokens)
          PROVE  Waiting' /\ (ShellDue' <=> ShellDue)
      BY <1>1, <1>2, <2>1, <3>2, StartWaitingJobWaits
    <3>3. waiting_jobs # << >> => Head(waiting_jobs) \in Files
      BY <1>1, HeadTailProperties DEF TypeOK
    <3>4. StartJob => file \in Files
      BY <1>1 DEF StartJob, TypeOK, InNewJob
    <3> QED BY <1>7, <3>1, <3>2, <3>3, <3>4 DEF StartWaitingJobs, StartJob
  <2> QED BY <1>1, <2>1, <2>2 DEF Shelled, Answer, Gone, Held, shell
<1>8. CASE ExpandLines
  BY <1>2, <1>8, ExpandLinesWaits
<1>9. CASE ShellCompleted
  <2>1. /\ UNCHANGED <<children, dead, os, builtin_cmd_running, shell_function_completed>>
        /\ ~ShellDue /\ ~dead.seen /\ ~Held
        /\ shell_function_pid' = NoPid /\ pc' = "slots"
    BY <1>1, <1>9 DEF ShellCompleted, Shelled, Answer, chains, child
  <2>2. /\ UNCHANGED <<Shells, proc_array, command>> /\ Shells = {}
        /\ ~ShellHeld' /\ ~Held' /\ ~ShellDue'
    BY <2>1 DEF os, Shells, ShellHeld, Held, ShellDue
  <2>3. Balance'
    BY <1>1, <2>1, <2>2 DEF Waiting, Balance, One
  <2>4. Waiting'
    BY <1>1, <2>1, <2>2, <2>3 DEF Waiting, Registered, OneShell
  <2> QED BY <1>1, <2>1, <2>2, <2>4, PidTypes DEF Shelled, Answer, Gone
<1>10. CASE FinishedLinearly \/ NothingToReap \/ Exit
  <2>1. /\ UNCHANGED <<children, dead, os, shell, builtin_cmd_running>>
        /\ \/ pc \in {"linear", "reap"} /\ pc' = "pass"
           \/ pc = "die" /\ pc' = "exit"
        /\ ~dead.seen
    BY <1>1, <1>10 DEF FinishedLinearly, NothingToReap, Exit, chains, child, Answer
  <2>2. Waiting' /\ (ShellDue' <=> ShellDue)
    BY <1>4, <2>1 DEF shell
  <2>3. Gone'
    <3>1. CASE Exit
      <4>1. Len(children) = 0
        BY <3>1 DEF Exit, ParallelInv, IInv, Accounting
      <4> QED BY <1>1, <2>1, <4>1, PidTypes, EmptySeq DEF Gone
    <3> QED BY <1>10, <3>1 DEF FinishedLinearly, NothingToReap, Gone
  <2> QED BY <1>1, <2>1, <2>2, <2>3 DEF Shelled, Answer, Held, shell
<1>11. CASE WaitForChild
  BY <1>2, <1>11, WaitForChildWaits
<1>12. CASE ReapShellFunction
  BY <1>2, <1>12, ReapShellFunctionWaits
<1>13. CASE ReapUnknown
  BY <1>2, <1>13, ReapUnknownWaits
<1>14. CASE ReapChild
  BY <1>2, <1>14, ReapChildWaits
<1>15. CASE CommandExits
  <2>1. PICK p \in Pids : OS!ProcessExit(p)
    BY <1>15 DEF CommandExits
  <2>2. /\ UNCHANGED <<children, dead, pc, shell, builtin_cmd_running>>
    BY <1>15 DEF CommandExits, chains, child
  <2>3. /\ UNCHANGED proc_array
        /\ \A q \in Pids : command'[q] = "live" => command[q] = "live"
    BY <1>1, <2>1, PidTypes DEF OS!ProcessExit
  <2>4. Left' = Left
    BY <2>2 DEF Left, Held
  <2>5. Waiting' /\ (ShellDue' <=> ShellDue)
    BY <1>1, <1>2, <2>2, <2>3, <2>4, NoneRegistered DEF shell
  <2> QED BY <1>1, <2>2, <2>5 DEF Shelled, Answer, Gone, Held, SomethingToReap, shell
<1> QED BY <1>5, <1>6, <1>7, <1>8, <1>9, <1>10, <1>11, <1>12, <1>13, <1>14, <1>15
           DEF Next, Make

(* At the start nothing is due.                                            *)
LEMMA ParallelInit == Init => ParallelInv
PROOF
<1> SUFFICES ASSUME Init PROVE ParallelInv
  OBVIOUS
<1>1. IInv /\ TypeOK
  BY InvInit DEF IInv
<1>2. /\ proc_array = << >> /\ children = << >> /\ ~builtin_cmd_running
      /\ shell_function_pid = NoPid /\ dead = NoDead /\ pc = "pass"
      /\ command = [p \in Pids |-> "new"]
  BY DEF Init, OS!SubProcInit
<1>3. Shells = {} /\ ~Held /\ ~ShellHeld /\ ~ShellDue /\ ~dead.seen
  BY <1>2 DEF Shells, Held, ShellHeld, ShellDue, NoDead
<1>4. Registered
  BY <1>1, <1>2, PidTypes DEF Registered
<1>5. Waiting
  BY <1>2, <1>3, <1>4 DEF Waiting, Balance, OneShell, One
<1> QED BY <1>1, <1>2, <1>3, <1>5, PidTypes DEF ParallelInv, Shelled, Answer, Gone

(* make exits only when every recipe line it started has ended, however    *)
(* many jobs run at once and whichever child is taken for the dead one, if *)
(* no recipe has a built-in command.  The premise is needed: in the        *)
(* configuration Orphan make exits over a process because of a built-in.   *)
THEOREM NoneLeftRunningParallel ==
  ASSUME NoBuiltins
  PROVE  Spec => []NoneLeftRunning
PROOF
<1>1. ASSUME ParallelInv, pc = "exit", NEW f \in Files, NEW k \in 1..MaxLines,
             command[<<f, k>>] = "live"
      PROVE  FALSE
  <2>1. /\ TypeOK /\ Waiting /\ Len(children) = 0
    BY <1>1, EmptySeq DEF ParallelInv, IInv, Gone
  <2>2. PICK i \in 1..Len(proc_array) : proc_array[i] = <<f, k>>
    BY <1>1, <2>1 DEF Waiting, Registered
  <2>3. Len(proc_array) \in Nat /\ k # 0
    BY <2>1, PidTypes
  <2>4. Len(proc_array) + One(Held) = One(ShellDue)
    BY <2>1, <2>3 DEF Waiting, Balance, One
  <2>5. /\ Len(proc_array) >= 1
        /\ One(Held) \in {0, 1} /\ One(ShellDue) \in {0, 1}
    BY <2>2, <2>3 DEF One
  <2>6. Len(proc_array) = 1 /\ One(Held) = 0 /\ One(ShellDue) = 1
    <3> DEFINE n == Len(proc_array)
               h == One(Held)
               d == One(ShellDue)
    <3>1. n \in Nat /\ n >= 1 /\ h \in {0, 1} /\ d \in {0, 1} /\ n + h = d
      BY <2>3, <2>4, <2>5
    <3> HIDE DEF n, h, d
    <3>2. n = 1 /\ h = 0 /\ d = 1
      BY <3>1
    <3> QED BY <3>2 DEF n, h, d
  <2>7. ~Held /\ ShellDue
    BY <2>6 DEF One
  <2>8. proc_array[1][2] = 0
    BY <2>6, <2>7 DEF ShellDue, ShellHeld, Shells
  <2> QED BY <2>2, <2>3, <2>6, <2>8
<1>2. ParallelInv => NoneLeftRunning
  BY <1>1 DEF NoneLeftRunning
<1>3. ParallelInv /\ [Next]_vars => ParallelInv'
  BY ParallelStep
<1> QED BY <1>2, <1>3, ParallelInit, PTL DEF Spec

(* The table has a slot for each child, and one more during a $(shell).    *)
LEMMA SlotsLeft ==
  ASSUME ParallelInv, SlotBound, JobSlots # 0, JobSlots < MAXIMUM_WAIT_OBJECTS,
         pc \in {"expand", "slots"}
  PROVE  ~OS!Full
PROOF
<1>1. TypeOK /\ Waiting /\ Shelled /\ job_slots_used = Len(children)
  BY DEF ParallelInv, IInv, Accounting
<1>2. /\ NoPid \notin Pids
      /\ \A i \in 1..Len(proc_array) : proc_array[i] \in Pids
      /\ Len(proc_array) \in Nat /\ Len(children) \in Nat
  BY <1>1, PidTypes
<1>3. shell_function_pid = NoPid
  BY <1>1 DEF Shelled
<1>4. Shells = {}
  BY <1>1, <1>2, <1>3 DEF Waiting, OneShell, Shells
<1>5. ~ShellDue
  BY <1>1, <1>3, <1>4 DEF ShellDue, ShellHeld, Held, Waiting, OneShell
<1>6. Len(proc_array) + One(Held) = Len(children) /\ One(Held) \in {0, 1}
  BY <1>1, <1>2, <1>5 DEF Waiting, Balance, One
<1>7. Len(children) <= JobSlots /\ JobSlots \in Nat
  BY <1>1, OptionsAssumption DEF SlotBound
<1> DEFINE h == One(Held)
<1> HIDE DEF h
<1>8. Len(proc_array) < MAXIMUM_WAIT_OBJECTS
  <2>1. Len(proc_array) + h = Len(children) /\ h \in {0, 1}
    BY <1>6 DEF h
  <2> QED BY <1>2, <1>7, <2>1, WaitSlotsAssumption
<1> QED BY <1>2, <1>8, WaitSlotsAssumption DEF OS!Full

(* While no job is put off there is room for the next, and so it is not    *)
(* put off either.                                                         *)
LEMMA RoomStep ==
  ASSUME ~LoadLimited, JobSlots # 0, JobSlots < MAXIMUM_WAIT_OBJECTS,
         ParallelInv, SlotBound, waiting_jobs = << >>, [Next]_vars
  PROVE  waiting_jobs' = << >>
PROOF
<1>1. CASE UNCHANGED waiting_jobs
  BY <1>1
<1>2. CASE StartWaitingJobs
  BY <1>2 DEF StartWaitingJobs, chains
<1>3. CASE StartJob
  <2>1. ~MustWait
    BY <1>3, SlotsLeft DEF StartJob, MustWait
  <2> QED BY <1>3, <2>1 DEF StartJob, StartWaitingJob, PutOnWaitingChain,
                            PutOnChildrenChain, FinishAtOnce
<1>4. CASE ReapChild
  BY <1>4 DEF ReapChild, ReapFailed, ReapFinished, ReapAndContinue, FreeChild, chains
<1> QED
  BY <1>1, <1>2, <1>3, <1>4
  DEF Next, Make, NewJob, ExpandLines, ShellCompleted, FinishedLinearly,
      NothingToReap, WaitForChild, ReapShellFunction, ReapUnknown, NextPass,
      GoalsDone, GiveUp, Exit, CommandExits, vars, chains

(* With fewer job slots than wait slots and no load limit, process_easy    *)
(* and process_register always find a slot: no job is put off and the      *)
(* process of a $(shell) is never dropped from the table, though finished  *)
(* jobs whose process is still to be reaped hold slots as well.            *)
THEOREM RoomForShell ==
  ASSUME NoBuiltins, ~LoadLimited, JobSlots # 0, JobSlots < MAXIMUM_WAIT_OBJECTS
  PROVE  Spec => [](waiting_jobs = << >> /\ SlotBound /\ (pc = "expand" => ~OS!Full))
PROOF
<1> DEFINE RoomInv == ParallelInv /\ waiting_jobs = << >> /\ SlotBound
<1>1. Init => RoomInv
  BY ParallelInit, OptionsAssumption DEF Init, SlotBound
<1>2. RoomInv /\ [Next]_vars => RoomInv'
  BY ParallelStep, RoomStep, SlotBoundStep DEF ParallelInv, IInv
<1>3. RoomInv => waiting_jobs = << >> /\ SlotBound /\ (pc = "expand" => ~OS!Full)
  BY SlotsLeft
<1> QED BY <1>1, <1>2, <1>3, PTL DEF Spec

(* Under the same premises the limit of -j is kept.                        *)
THEOREM SlotBoundParallel ==
  ASSUME NoBuiltins, ~LoadLimited, JobSlots < MAXIMUM_WAIT_OBJECTS
  PROVE  Spec => []SlotBound
PROOF
<1>1. CASE JobSlots = 0
  <2>1. SlotBound
    BY <1>1 DEF SlotBound
  <2> QED BY <2>1, PTL
<1>2. CASE JobSlots # 0
  BY <1>2, RoomForShell, PTL
<1> QED BY <1>1, <1>2

(***************************************************************************)
(* Under -n and -q make executes recursive lines only, whatever the        *)
(* targets, recipes and options: built-in commands are the one exception.  *)
(***************************************************************************)
(* A line that is not a built-in and that -n and -q must leave alone.      *)
Protected(f, k) == Lines(f)[k].kind # "builtin" /\ ~Lines(f)[k].recurse
CommandsKept ==
    \A f \in Files : \A k \in 1..Len(Lines(f)) :
        Protected(f, k) /\ command[<<f, k>>] = "new"
            => command'[<<f, k>>] = "new"

(* start_job_command runs no protected line: -n skips it, -q answers.      *)
LEMMA StartJobCommandDry ==
  ASSUME TypeOK, mode # "run", NEW f \in Files, NEW result,
         StartJobCommand(f, result)
  PROVE  CommandsKept
PROOF
<1>1. PICK k \in command_line[f]..(Len(Lines(f)) + 1) :
         /\ StopsAt(f, k)
         /\ NoMoreCommands(f, k, result) \/ RunLine(f, k, result)
  BY DEF StartJobCommand
<1>2. CASE UNCHANGED os
  BY <1>2 DEF CommandsKept, os
<1>3. CASE /\ k <= Len(Lines(f))
           /\ ~(mode = "question" /\ ~Lines(f)[k].recurse)
           /\ \/ OS!ProcessEasyBegun(<<f, k>>)
              \/ OS!ProcessEasyRefused(<<f, k>>)
  <2>1. mode \in {"print", "question"}
    BY OptionsAssumption DEF TypeOK
  <2>2. ~Skipped(Lines(f)[k])
    BY <1>1, <1>3 DEF StopsAt
  <2>3. ~Protected(f, k)
    BY <1>3, <2>1, <2>2 DEF Skipped, Protected
  <2>4. \A p \in Pids : p # <<f, k>> => command'[p] = command[p]
    BY <1>3 DEF OS!ProcessEasyBegun, OS!ProcessEasyRefused, TypeOK,
                OS!SubProcTypeOK
  <2>5. ASSUME NEW g \in Files, NEW j \in 1..Len(Lines(g)),
               Protected(g, j), command[<<g, j>>] = "new"
        PROVE  command'[<<g, j>>] = "new"
    <3>1. <<g, j>> \in Pids
      BY RecipeLength
    <3>2. <<g, j>> # <<f, k>>
      BY <2>3, <2>5
    <3> QED BY <2>4, <2>5, <3>1, <3>2
  <2> QED BY <2>5 DEF CommandsKept
<1> QED BY <1>1, <1>2, <1>3 DEF NoMoreCommands, RunLine, BuiltinLine, ProcessLine

(* Nor does any other step, under -n or -q.                                *)
LEMMA StepDry ==
  ASSUME TypeOK, mode # "run", [Next]_vars
  PROVE  CommandsKept
PROOF
<1>1. CASE UNCHANGED os
  BY <1>1 DEF CommandsKept, os
<1>2. ASSUME NEW f \in Files, NEW result, StartJobCommand(f, result)
      PROVE  CommandsKept
  BY <1>2, StartJobCommandDry
<1>3. ASSUME NEW f \in Files, NEW others, NEW tokens,
             StartWaitingJob(f, others, tokens)
      PROVE  CommandsKept
  BY <1>1, <1>2, <1>3 DEF StartWaitingJob, PutOnWaitingChain,
                          PutOnChildrenChain, FinishAtOnce
<1>4. CASE StartWaitingJobs
  <2>1. CASE waiting_jobs = << >>
    BY <1>1, <1>4, <2>1 DEF StartWaitingJobs
  <2>2. CASE waiting_jobs # << >>
    <3>1. Head(waiting_jobs) \in Files
      <4>1. waiting_jobs \in Seq(Files)
        BY DEF TypeOK
      <4> QED BY <2>2, <4>1, HeadTailProperties
    <3> QED BY <1>3, <1>4, <2>2, <3>1 DEF StartWaitingJobs
  <2> QED BY <2>1, <2>2
<1>5. CASE ExpandLines
  <2>1. file \in Files
    BY <1>5 DEF ExpandLines, TypeOK, InNewJob
  <2>2. CASE OS!OpenPipe(<<file, 0>>) \/ OS!ProcessEasyRefused(<<file, 0>>)
    <3>1. \A p \in Pids : p # <<file, 0>> => command'[p] = command[p]
      BY <2>2 DEF OS!OpenPipe, OS!ProcessEasyRefused, TypeOK, OS!SubProcTypeOK
    <3>2. \A f \in Files : \A k \in 1..Len(Lines(f)) :
             <<f, k>> \in Pids /\ <<f, k>> # <<file, 0>>
      <4> TAKE f \in Files
      <4> TAKE k \in 1..Len(Lines(f))
      <4>1. Len(Lines(f)) \in Nat /\ <<f, k>> \in Pids
        BY RecipeLength
      <4>2. k # 0
        BY <4>1
      <4> QED BY <4>1, <4>2
    <3> QED BY <3>1, <3>2 DEF CommandsKept
  <2> QED BY <1>1, <1>5, <2>2 DEF ExpandLines
<1>6. CASE StartJob
  BY <1>3, <1>6 DEF StartJob, TypeOK, InNewJob
<1>7. CASE WaitForChild
  BY <1>7 DEF WaitForChild, OS!ProcessWaitForAny, CommandsKept, os
<1>8. CASE ReapChild
  <2>1. PICK i \in 1..Len(children) :
           ReapFailed(i) \/ ReapFinished(i) \/ ReapAndContinue(i)
    BY <1>8 DEF ReapChild
  <2>2. children[i] \in Files
    <3>1. children \in Seq(Files)
      BY DEF TypeOK
    <3> QED BY <3>1, ElementOfSeq
  <2> QED BY <1>1, <1>2, <2>1, <2>2 DEF ReapFailed, ReapFinished, ReapAndContinue
<1>9. CASE CommandExits
  <2>1. PICK p \in Pids : OS!ProcessExit(p)
    BY <1>9 DEF CommandExits
  <2>2. \A q \in Pids : command[q] = "new" => command'[q] = command[q]
    BY <2>1 DEF OS!ProcessExit, TypeOK, OS!SubProcTypeOK
  <2>3. \A f \in Files : \A k \in 1..Len(Lines(f)) : <<f, k>> \in Pids
    BY RecipeLength
  <2> QED BY <2>2, <2>3 DEF CommandsKept
<1> QED
  BY <1>1, <1>4, <1>5, <1>6, <1>7, <1>8, <1>9
  DEF Next, Make, NewJob, ShellCompleted, FinishedLinearly, NothingToReap,
      ReapShellFunction, ReapUnknown, NextPass, GoalsDone, GiveUp, Exit, vars

(* -n and -q: when every built-in command of the makefile is on a line     *)
(* marked as recursive, make executes recursive lines only.  The premise   *)
(* is needed: the run DryBuiltin has a built-in executed under -n.         *)
THEOREM DryRunHolds ==
  ASSUME \A r \in Recipes : \A k \in 1..Len(r.lines) :
            r.lines[k].kind = "builtin" => r.lines[k].recurse
  PROVE  Spec => []DryRun
PROOF
<1>1. ASSUME TypeOK, NEW f \in Files, NEW k \in 1..Len(Lines(f)),
             ~Lines(f)[k].recurse
      PROVE  Protected(f, k)
  BY <1>1 DEF TypeOK, Lines, Protected
<1>2. Init => DryRun
  <2> SUFFICES ASSUME Init, NEW f \in Files, NEW k \in 1..Len(Lines(f))
               PROVE  Lines(f)[k].recurse \/ Fate(f, k) = "new"
    BY DEF DryRun
  <2>1. <<f, k>> \in Pids
    BY TypeInit, RecipeLength
  <2> QED BY <2>1 DEF Init, OS!SubProcInit, Fate
<1>3. TypeOK /\ DryRun /\ [Next]_vars => DryRun'
  <2> SUFFICES ASSUME TypeOK, DryRun, [Next]_vars, mode' # "run",
                      NEW f \in Files, NEW k \in 1..Len(Lines(f)'),
                      ~Lines(f)'[k].recurse
               PROVE  Fate(f, k)' = "new"
    BY DEF DryRun
  <2>1. UNCHANGED <<recipe, mode>>
    BY DEF Next, Make, NewJob, StartWaitingJobs, ExpandLines, ShellCompleted,
           StartJob, FinishedLinearly, NothingToReap, WaitForChild,
           ReapShellFunction, ReapUnknown, ReapChild, NextPass, GoalsDone,
           GiveUp, Exit, CommandExits, vars, given
  <2>2. Lines(f)' = Lines(f)
    BY <2>1 DEF Lines
  <2>3. Protected(f, k)
    BY <1>1, <2>2
  <2>4. command[<<f, k>>] = "new"
    BY <2>1, <2>2, <2>3 DEF DryRun, Fate, Protected
  <2>5. command'[<<f, k>>] = "new"
    BY <2>1, <2>2, <2>3, <2>4, StepDry DEF CommandsKept
  <2> QED BY <2>2, <2>3, <2>5 DEF Fate, Protected
<1> QED BY <1>2, <1>3, TypeCorrect, PTL DEF Spec
=============================================================================
