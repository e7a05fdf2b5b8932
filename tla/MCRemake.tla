------------------------------ MODULE MCRemake ------------------------------
(* Small makefiles for Remake.                                             *)
EXTENDS Remake, TLC

CONSTANTS f1, f2, f3, f4

FourFiles == {f1, f2, f3, f4}

On(f) == [file |-> f, ignore_mtime |-> FALSE]
OrderOnly(f) == [file |-> f, ignore_mtime |-> TRUE]
Never == [f \in FourFiles |-> {}]
Single == [f \in FourFiles |-> << >>]

(* f1: f2 f3 ; f2: f4 ; f3: f4.                                            *)
Diamond ==
    [deps |-> (f1 :> <<On(f2), On(f3)>> @@ f2 :> <<On(f4)>> @@ f3 :> <<On(f4)>> @@ f4 :> << >>),
     cmds |-> [f \in FourFiles |-> "commands"],
     is_target |-> FourFiles, phony |-> {}, intermediate |-> {},
     also_make |-> Never, double_colon |-> Single, goals |-> <<f1>>,
     keep_going |-> TRUE, linear |-> FALSE]

(* A phony goal without a recipe; f2 and f3 depend on each other, f2 on f3  *)
(* only for the order; there is no rule for f4.                            *)
Circle ==
    [Diamond EXCEPT
        !.deps = f1 :> <<On(f2), On(f3)>> @@ f2 :> <<OrderOnly(f3)>>
                 @@ f3 :> <<On(f2), On(f4)>> @@ f4 :> << >>,
        !.cmds = f1 :> "none" @@ f2 :> "blank" @@ f3 :> "commands" @@ f4 :> "none",
        !.is_target = {f1, f2, f3}, !.phony = {f1}]

(* f2 and f3 come from one pattern rule.                                   *)
Together ==
    [Diamond EXCEPT
        !.deps = f1 :> <<On(f2), On(f3)>> @@ f2 :> <<On(f4)>> @@ f3 :> <<On(f4)>> @@ f4 :> << >>,
        !.also_make = [Never EXCEPT ![f2] = {f3}, ![f3] = {f2}]]

(* As Together, but only f2 depends on f4.                                 *)
Siblings ==
    [Together EXCEPT !.deps[f3] = << >>]

(* f1 is made from f2 through the intermediate file f3.                    *)
Chained ==
    [Diamond EXCEPT
        !.deps = f1 :> <<On(f3), On(f4)>> @@ f3 :> <<On(f2)>> @@ f2 :> << >> @@ f4 :> << >>,
        !.intermediate = {f3}]

(* Two entries of one double-colon target, f4 the second goal.             *)
DoubleColon ==
    [Diamond EXCEPT
        !.deps = f1 :> <<On(f3)>> @@ f2 :> <<On(f4)>> @@ f3 :> << >> @@ f4 :> << >>,
        !.double_colon = [Single EXCEPT ![f1] = <<f1, f2>>, ![f2] = <<f1, f2>>],
        !.goals = <<f1, f4>>]

(* As Chained, but f2 has a recipe that need not touch it.                 *)
ChainedTwice ==
    [Chained EXCEPT !.deps[f1] = <<On(f3)>>, !.deps[f2] = <<On(f4)>>]

(* The goals f1 and f2 depend on f3, a double-colon target of two entries. *)
TwoParents ==
    [Diamond EXCEPT
        !.deps = f1 :> <<On(f3)>> @@ f2 :> <<On(f3)>> @@ f3 :> << >> @@ f4 :> << >>,
        !.double_colon = [Single EXCEPT ![f3] = <<f3, f4>>, ![f4] = <<f3, f4>>],
        !.goals = <<f1, f2>>]

(* As DoubleColon, but f4 depends on the double-colon target.              *)
ColonBelow ==
    [DoubleColon EXCEPT
        !.deps = f4 :> <<On(f1)>> @@ f1 :> <<On(f3)>> @@ f2 :> << >> @@ f3 :> << >>,
        !.goals = <<f4>>]

Parallel(m) == {[m EXCEPT !.keep_going = k] : k \in BOOLEAN}
Linear(m) == {[n EXCEPT !.linear = TRUE] : n \in Parallel(m)}
KeepGoing(m) == {[m EXCEPT !.linear = l] : l \in BOOLEAN}
UnlikeSiblings == KeepGoing(Siblings)
FailingColon == KeepGoing(TwoParents)
GivenUpColon == {[n EXCEPT !.keep_going = FALSE] : n \in KeepGoing(DoubleColon)}
TestMakefiles ==
    Parallel(Diamond) \cup Parallel(Circle) \cup Linear(Circle)
        \cup Parallel(Together) \cup Linear(ChainedTwice) \cup KeepGoing(DoubleColon)
        \cup KeepGoing(ColonBelow)
=============================================================================
