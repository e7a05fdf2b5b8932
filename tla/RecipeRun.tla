------------------------------ MODULE RecipeRun ------------------------------
(***************************************************************************)
(* What the manual promises of the execution of recipes (make.texi,        *)
(* "Execution", "Parallel", "Errors"): the lines of a target run one after *)
(* another, each only when the one before it has ended and was harmless;   *)
(* no more commands run at once than there are job slots; and the target   *)
(* succeeds or fails as its own lines did.                                 *)
(***************************************************************************)
EXTENDS Integers, Sequences, FiniteSets

CONSTANTS Files, Recipes, MaxLines, Slots, IgnoreErrors

VARIABLES recipe, state, status, fate

vars == <<recipe, state, status, fate>>

Numbers(f) == 1..Len(recipe[f].lines)
Ended(f, k) == fate[<<f, k>>] \in {"won", "lost", "stillborn", "refused"}
Forgiven(f, k) == recipe[f].lines[k].noerror \/ IgnoreErrors
Harmless(f, k) ==
    \/ recipe[f].lines[k].kind = "blank"
    \/ fate[<<f, k>>] = "won"
    \/ fate[<<f, k>>] \in {"lost", "stillborn"} /\ Forgiven(f, k)

Executing == {p \in Files \X (1..MaxLines) : fate[p] = "live"}

Init ==
    /\ recipe \in [Files -> Recipes]
    /\ state = [f \in Files |-> "not_started"]
    /\ status = [f \in Files |-> -1]
    /\ fate = [p \in Files \X (1..MaxLines) |-> "new"]

(* The target is taken up, though its first line may have to wait.         *)
TakeUp(f) ==
    /\ state[f] = "not_started"
    /\ state' = [state EXCEPT ![f] = "running"]
    /\ UNCHANGED <<recipe, status, fate>>

(* The next line is executed; if it is over at once and did harm, so is    *)
(* the target.                                                             *)
Begin(f, k, result) ==
    /\ state[f] # "finished"
    /\ fate[<<f, k>>] = "new"
    /\ recipe[f].lines[k].kind # "blank"
    /\ \A j \in 1..(k - 1) : Harmless(f, j)
    /\ Slots # 0 => Cardinality(Executing) < Slots
    /\ fate' = [fate EXCEPT ![<<f, k>>] = result]
    /\ \/ /\ state' = [state EXCEPT ![f] = "running"]
          /\ UNCHANGED status
       \/ /\ Ended(f, k)' /\ ~Harmless(f, k)'
          /\ state' = [state EXCEPT ![f] = "finished"]
          /\ status' = [status EXCEPT ![f] = 2]
    /\ UNCHANGED recipe

End(f, k, result) ==
    /\ fate[<<f, k>>] = "live"
    /\ fate' = [fate EXCEPT ![<<f, k>>] = result]
    /\ UNCHANGED <<recipe, state, status>>

Succeed(f) ==
    /\ state[f] # "finished"
    /\ \A k \in Numbers(f) : Harmless(f, k)
    /\ state' = [state EXCEPT ![f] = "finished"]
    /\ status' = [status EXCEPT ![f] = 0]
    /\ UNCHANGED <<recipe, fate>>

Fail(f) ==
    /\ state[f] = "running"
    /\ \E k \in Numbers(f) : Ended(f, k) /\ ~Harmless(f, k)
    /\ state' = [state EXCEPT ![f] = "finished"]
    /\ status' = [status EXCEPT ![f] = 2]
    /\ UNCHANGED <<recipe, fate>>

Next ==
    \E f \in Files :
        \/ TakeUp(f) \/ Succeed(f) \/ Fail(f)
        \/ \E k \in Numbers(f) :
              \/ \E result \in {"live", "won", "lost", "stillborn", "refused"} :
                    Begin(f, k, result)
              \/ \E result \in {"won", "lost"} : End(f, k, result)

Spec == Init /\ [][Next]_vars
=============================================================================
