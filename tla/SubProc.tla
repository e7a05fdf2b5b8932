------------------------------ MODULE SubProc ------------------------------
(***************************************************************************)
(* The waitpid-like layer of make on Windows, w32/subproc/sub_proc.c:      *)
(* proc_array, the count of processes that could not be started but must   *)
(* still be reported as dead (fake_exits_pending), and the system calls    *)
(* make sees of the processes themselves.  One thread of make calls it;    *)
(* the processes exit whenever they like.                                  *)
(***************************************************************************)
EXTENDS Integers, Sequences, FiniteSets, SequencesExt

CONSTANTS Proc,                 \* every command make may launch
          MAXIMUM_WAIT_OBJECTS  \* slots of proc_array (64 in windows.h)

ASSUME SlotsAssumption == MAXIMUM_WAIT_OBJECTS \in Nat \ {0}

VARIABLES proc_array,          \* registered processes, oldest first
          fake_exits_pending,  \* launches that failed, not yet reported
          command              \* what has become of each command

os == <<proc_array, fake_exits_pending, command>>

(* "refused": process_easy returned INVALID_HANDLE_VALUE; "stillborn": the *)
(* handle exists but process_begin failed; "won" and "lost": exit code 0   *)
(* and not 0.                                                              *)
Fates == {"new", "live", "won", "lost", "stillborn", "refused"}

SubProcTypeOK ==
    /\ proc_array \in Seq(Proc)
    /\ fake_exits_pending \in Nat
    /\ command \in [Proc -> Fates]

SubProcInit ==
    /\ proc_array = << >>
    /\ fake_exits_pending = 0
    /\ command = [p \in Proc |-> "new"]

Full == Len(proc_array) >= MAXIMUM_WAIT_OBJECTS

BadExit(p) == command[p] \in {"lost", "stillborn"}

(***************************************************************************)
(* process_easy: refused when the array is full or a handle cannot be      *)
(* duplicated; a process that cannot be created is registered all the same *)
(* and counted as a fake exit.                                             *)
(***************************************************************************)
ProcessEasyRefused(p) ==
    /\ command' = [command EXCEPT ![p] = "refused"]
    /\ UNCHANGED <<proc_array, fake_exits_pending>>

ProcessEasyBegun(p) ==
    /\ ~Full
    /\ proc_array' = Append(proc_array, p)
    /\ \/ /\ command' = [command EXCEPT ![p] = "live"]
          /\ UNCHANGED fake_exits_pending
       \/ /\ command' = [command EXCEPT ![p] = "stillborn"]
          /\ fake_exits_pending' = fake_exits_pending + 1

(* process_begin, then process_register, which does nothing when full.     *)
OpenPipe(p) ==
    /\ command' = [command EXCEPT ![p] = "live"]
    /\ proc_array' = IF Full THEN proc_array ELSE Append(proc_array, p)
    /\ UNCHANGED fake_exits_pending

(* The process exits, at any time.                                         *)
ProcessExit(p) ==
    /\ command[p] = "live"
    /\ \E fate \in {"won", "lost"} : command' = [command EXCEPT ![p] = fate]
    /\ UNCHANGED <<proc_array, fake_exits_pending>>

(***************************************************************************)
(* process_wait_for_any: the first fake exit if any is pending, otherwise  *)
(* the first process of the array that has exited; it leaves the array.    *)
(***************************************************************************)
\* Seeded defect: the exit code is not looked at in the search.
ReportableAny == {i \in 1..Len(proc_array) : command[proc_array[i]] # "live"}

Reportable ==
    {i \in 1..Len(proc_array) :
        IF fake_exits_pending > 0 THEN command[proc_array[i]] = "stillborn"
                                  ELSE command[proc_array[i]] # "live"}

\* Seeded defects: the process keeps its place; the count goes below zero.
ProcessWaitForAnyAgain(p) ==
    \E i \in Reportable :
       /\ \A j \in Reportable : i <= j
       /\ p = proc_array[i]
       /\ fake_exits_pending' =
             IF fake_exits_pending > 0 THEN fake_exits_pending - 1 ELSE 0
       /\ UNCHANGED <<proc_array, command>>
ProcessWaitForAnyCounting(p) ==
    \E i \in Reportable :
       /\ \A j \in Reportable : i <= j
       /\ p = proc_array[i]
       /\ proc_array' = RemoveAt(proc_array, i)
       /\ fake_exits_pending' = fake_exits_pending - 1
       /\ UNCHANGED command

ProcessWaitForAny(p) ==
    \E i \in Reportable :
       /\ \A j \in Reportable : i <= j
       /\ p = proc_array[i]
       /\ proc_array' = RemoveAt(proc_array, i)
       /\ fake_exits_pending' =
             IF fake_exits_pending > 0 THEN fake_exits_pending - 1 ELSE 0
       /\ UNCHANGED command

(***************************************************************************)
(* The layer alone, with the most general client: it launches each command *)
(* at most once, as a job or for $(shell), and waits whenever it likes.    *)
(***************************************************************************)
Launch(p) ==
    /\ command[p] = "new"
    /\ ProcessEasyRefused(p) \/ ProcessEasyBegun(p)

LaunchShell(p) ==
    /\ command[p] = "new"
    /\ OpenPipe(p)

SubProcNext ==
    \E p \in Proc :
        Launch(p) \/ LaunchShell(p) \/ ProcessExit(p) \/ ProcessWaitForAny(p)

(* The operating system lets every process exit; the client keeps waiting. *)
SubProcSpec ==
    /\ SubProcInit
    /\ [][SubProcNext]_os
    /\ \A p \in Proc : WF_os(ProcessExit(p))
    /\ WF_os(\E p \in Proc : ProcessWaitForAny(p))

(* Every awaited process is in the array once, dead ones are reported once *)
(* and only when dead, and none waits for ever although the array is       *)
(* searched from its start.                                                *)
Abstract == INSTANCE WaitAny WITH awaited <- ToSet(proc_array)
WaitsForAny == Abstract!Spec

(* fake_exits_pending is the number of unreported failed launches, so the  *)
(* scan for one never runs off the end of proc_array and no exited process *)
(* is mistaken for one.                                                    *)
FakeExitsCounted ==
    fake_exits_pending =
        Cardinality({i \in 1..Len(proc_array) :
                        command[proc_array[i]] = "stillborn"})
=============================================================================
