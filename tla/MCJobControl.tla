---------------------------- MODULE MCJobControl ----------------------------
(* Small instances of JobControl for TLC: recipes of up to two lines.      *)
EXTENDS JobControl, TLC

CONSTANTS f1, f2, f3

Cmd == [kind |-> "process", noerror |-> FALSE, recurse |-> FALSE]
IgnoredCmd == [Cmd EXCEPT !.noerror = TRUE]
RecursiveCmd == [Cmd EXCEPT !.recurse = TRUE]
Builtin == [Cmd EXCEPT !.kind = "builtin"]
IgnoredBuiltin == [Builtin EXCEPT !.noerror = TRUE]
RecursiveBuiltin == [Builtin EXCEPT !.recurse = TRUE]
Blank == [Cmd EXCEPT !.kind = "blank"]

Plain(ls) == [lines |-> ls, shell |-> FALSE]
Shell(ls) == [lines |-> ls, shell |-> TRUE]

Symmetric == Permutations(Files)

TwoFiles == {f1, f2}
ThreeFiles == {f1, f2, f3}

SerialRecipes == {Plain(<<Cmd, Cmd>>), Plain(<<IgnoredCmd, Blank>>),
                  Plain(<<Builtin, Cmd>>), Plain(<<Blank, Builtin>>)}
ProcessRecipes == {Plain(<<Cmd, Cmd>>), Plain(<<IgnoredCmd, Blank>>)}
ShellRecipes == {Plain(<<Cmd, Cmd>>), Shell(<<Cmd>>)}
OneLiners == {Plain(<<Cmd>>)}
MixedOneLiners == {Plain(<<Cmd>>), Plain(<<Builtin>>)}
BuiltinThenShell == {Plain(<<Builtin>>), Shell(<<Cmd>>)}
ShellOneLiners == {Plain(<<Cmd>>), Shell(<<Cmd>>)}
IgnoredBuiltins == {Plain(<<IgnoredBuiltin, Cmd>>)}
RecursiveRecipes == {Plain(<<Cmd, RecursiveCmd>>), Plain(<<RecursiveCmd, Cmd>>),
                     Plain(<<Blank, RecursiveCmd>>), Plain(<<Blank>>),
                     Plain(<<RecursiveBuiltin, Cmd>>), Shell(<<Cmd>>)}
DryBuiltins == {Plain(<<Builtin>>)}
=============================================================================
