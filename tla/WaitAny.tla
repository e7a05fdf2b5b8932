------------------------------- MODULE WaitAny -------------------------------
(***************************************************************************)
(* What sub_proc.c promises its client: "kind of like waitpid()".  Every   *)
(* process handed over is awaited, and a wait reports one that has exited, *)
(* each exactly once and sooner or later.                                  *)
(***************************************************************************)
CONSTANT Proc

VARIABLES awaited, command

Init == awaited = {} /\ command = [p \in Proc |-> "new"]

Begin(p, fate) ==
    /\ command[p] = "new"
    /\ command' = [command EXCEPT ![p] = fate]
    /\ awaited' = IF fate = "refused" THEN awaited ELSE awaited \cup {p}

Exit(p, fate) ==
    /\ command[p] = "live"
    /\ command' = [command EXCEPT ![p] = fate]
    /\ UNCHANGED awaited

Report(p) ==
    /\ p \in awaited
    /\ command[p] \in {"won", "lost", "stillborn"}
    /\ awaited' = awaited \ {p}
    /\ UNCHANGED command

Next ==
    \E p \in Proc :
        \/ \E fate \in {"live", "stillborn", "refused"} : Begin(p, fate)
        \/ \E fate \in {"won", "lost"} : Exit(p, fate)
        \/ Report(p)

Spec == Init /\ [][Next]_<<awaited, command>>
             /\ \A p \in Proc : WF_<<awaited, command>>(Report(p))
=============================================================================
