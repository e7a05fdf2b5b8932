---------------------------- MODULE SerialProofs -----------------------------
(***************************************************************************)
(* What make concludes about its targets when it runs one job at a time,   *)
(* for all targets, recipes, modes and other options.  With more jobs the  *)
(* first of these theorems is false (the run WrongChild).                  *)
(***************************************************************************)
EXTENDS JobControlProofs, FiniteSetTheorems

(* new_job returns only when its child is finished.                        *)
OneAtATime == JobSlots = 1 \/ NotParallel

(* A built-in that fails under "-" or -i fails its target all the same     *)
(* (the configuration IgnoredBuiltin).                                     *)
BuiltinsUnforgiven ==
    \A r \in Recipes : \A k \in 1..Len(r.lines) :
        r.lines[k].kind = "builtin" => ~r.lines[k].noerror /\ ~IgnoreErrors

(* Line k of f has not been executed, or is over: under -n a line may be   *)
(* over without having been executed.                                      *)
Untouched(f, k) == command[<<f, k>>] = "new" /\ builtin[<<f, k>>] = "new"
Over(f, k) ==
    /\ command[<<f, k>>] # "live"
    /\ mode # "print" => Harmless(f, k)

(* Everything before line c of f is over and nothing from c on has begun.  *)
UpTo(f, c) ==
    /\ \A j \in 1..(c - 1) : Over(f, j)
    /\ \A j \in c..MaxLines : Untouched(f, j)

(* What StartJobCommand's result or a reaped child makes of f's lines.     *)
Failed(f) ==
    BuiltinsUnforgiven =>
        \E k \in 1..Len(Lines(f)) :
            /\ ~Harmless(f, k)
            /\ Fate(f, k) \notin {"new", "live"}
            /\ \A j \in (k + 1)..MaxLines : Untouched(f, j)
Asked(f) ==
    /\ mode = "question"
    /\ \E k \in 1..Len(Lines(f)) : Lines(f)[k].kind = "process" /\ UpTo(f, k)
Verdict(f, status) ==
    \/ status = 0 /\ \A k \in 1..Len(Lines(f)) : Harmless(f, k)
    \/ status = 1 /\ Asked(f)
    \/ status = 2 /\ Failed(f)
Ended(f, status) ==
    /\ \A j \in 1..MaxLines : command[<<f, j>>] # "live"
    /\ mode # "print" => Verdict(f, status)

(* The line of f that is being executed is the one before command_line.    *)
Executing(f, k) ==
    \/ /\ Lines(f)[k].kind = "process"
       /\ command[<<f, k>>] \in {"live", "won", "lost", "stillborn"}
    \/ /\ Lines(f)[k].kind = "builtin"
       /\ command[<<f, k>>] # "live"
       /\ builtin[<<f, k>>] = "won"
Underway(f) ==
    LET k == command_line[f] - 1
    IN  /\ k \in 1..Len(Lines(f))
        /\ Executing(f, k)
        /\ \A j \in 1..(k - 1) : Over(f, j)
        /\ \A j \in (k + 1)..MaxLines : Untouched(f, j)

Progress(f) ==
    /\ command_state[f] = "not_started" => command_line[f] = 1 /\ UpTo(f, 1)
    /\ command_state[f] = "running" => Underway(f)
    /\ IF command_state[f] = "finished" THEN Ended(f, update_status[f])
                                        ELSE update_status[f] = -1

(* The one child is the argument of new_job; reap_children finds its       *)
(* process, or none while it runs a built-in.                              *)
Attending == pc = "linear" /\ command_state[file] = "running"
Attends(f, k) ==
    IF builtin_cmd_running
    THEN /\ Lines(f)[k].kind = "builtin"
         /\ proc_array = << >>
         /\ dead.seen => ~dead.failed
    ELSE /\ Lines(f)[k].kind = "process"
         /\ IF dead.seen
            THEN /\ proc_array = << >>
                 /\ dead.pid = <<f, k>>
                 /\ command[<<f, k>>] # "live"
                 /\ dead.failed <=> OS!BadExit(<<f, k>>)
            ELSE proc_array = << <<f, k>> >>
AwaitsShell ==
    /\ proc_array = << >> \/ proc_array = << <<file, 0>> >>
    /\ dead.seen /\ dead.pid = <<file, 0>> => proc_array = << >>
    /\ shell_function_completed => ~dead.seen /\ proc_array = << >>

OneChild ==
    /\ waiting_jobs = << >>
    /\ pc \notin {"kick_pass", "reap"}
    /\ children = IF Attending THEN <<file>> ELSE << >>
    /\ shell_function_pid = IF pc = "shell" THEN <<file, 0>> ELSE NoPid
    /\ IF Attending THEN Attends(file, command_line[file] - 1)
       ELSE IF pc = "shell" THEN AwaitsShell
       ELSE proc_array = << >> /\ ~dead.seen

SerialInv == IInv /\ OneChild /\ \A f \in Files : Progress(f)

-----------------------------------------------------------------------------
(* A line whose fate does not change stays what it is.                     *)
SameFate(f, j) ==
    /\ command'[<<f, j>>] = command[<<f, j>>]
    /\ builtin'[<<f, j>>] = builtin[<<f, j>>]

LEMMA SameLine ==
  ASSUME UNCHANGED given, NEW f, NEW j, SameFate(f, j)
  PROVE  /\ Harmless(f, j)' = Harmless(f, j)
         /\ Over(f, j)' = Over(f, j)
         /\ Untouched(f, j)' = Untouched(f, j)
         /\ Executing(f, j)' = Executing(f, j)
         /\ Fate(f, j)' = Fate(f, j)
PROOF
<1>1. /\ Lines(f)' = Lines(f) /\ mode' = mode
      /\ command'[<<f, j>>] = command[<<f, j>>]
      /\ builtin'[<<f, j>>] = builtin[<<f, j>>]
  BY DEF given, Lines, SameFate
<1>2. Fate(f, j)' = Fate(f, j)
  BY <1>1 DEF Fate
<1>3. Harmless(f, j)' = Harmless(f, j)
  BY <1>1, <1>2 DEF Harmless, Ignored
<1> QED BY <1>1, <1>2, <1>3 DEF Over, Untouched, Executing

(* A target of which nothing changes makes no progress.                    *)
LEMMA Frame ==
  ASSUME TypeOK, UNCHANGED given, NEW f \in Files, Progress(f),
         command_state'[f] = command_state[f],
         update_status'[f] = update_status[f],
         command_line'[f] = command_line[f],
         \A j \in 1..MaxLines : SameFate(f, j)
  PROVE  Progress(f)'
PROOF
<1> DEFINE n == Len(Lines(f))
<1>1. n \in Nat /\ n <= MaxLines /\ MaxLines \in Nat
  BY RecipeLength
<1>2. Lines(f)' = Lines(f) /\ mode' = mode
  BY DEF given, Lines
<1>3. \A j \in 1..MaxLines : Over(f, j)' = Over(f, j)
  BY SameLine
<1>4. \A j \in 1..MaxLines : Untouched(f, j)' = Untouched(f, j)
  BY SameLine
<1>5. \A j \in 1..n : Harmless(f, j)' = Harmless(f, j)
  BY <1>1, SameLine
<1>6. \A j \in 1..n : Fate(f, j)' = Fate(f, j)
  BY <1>1, SameLine
<1>7. ASSUME NEW c \in 1..(MaxLines + 1), UpTo(f, c) PROVE UpTo(f, c)'
  <2>1. \A j \in 1..(c - 1) : Over(f, j)'
    BY <1>1, <1>3, <1>7 DEF UpTo
  <2>2. \A j \in c..MaxLines : Untouched(f, j)'
    BY <1>1, <1>4, <1>7 DEF UpTo
  <2> QED BY <2>1, <2>2 DEF UpTo
<1>8. command_state[f] = "not_started" => UpTo(f, 1)'
  BY <1>1, <1>7 DEF Progress
<1>9. ASSUME Underway(f) PROVE Underway(f)'
  <2> DEFINE k == command_line[f] - 1
  <2>1. /\ k \in 1..n
        /\ Executing(f, k)
        /\ \A j \in 1..(k - 1) : Over(f, j)
        /\ \A j \in (k + 1)..MaxLines : Untouched(f, j)
    BY <1>9 DEF Underway
  <2>2. Executing(f, k)'
    <3>1. SameFate(f, k)
      BY <1>1, <2>1
    <3>2. command'[<<f, k>>] = command[<<f, k>>] /\ builtin'[<<f, k>>] = builtin[<<f, k>>]
      BY <3>1 DEF SameFate
    <3>3. k' = k
      OBVIOUS
    <3> QED BY <1>2, <2>1, <3>2, <3>3 DEF Executing
  <2>3. \A j \in 1..(k - 1) : Over(f, j)'
    BY <1>1, <1>3, <2>1
  <2>4. \A j \in (k + 1)..MaxLines : Untouched(f, j)'
    BY <1>1, <1>4, <2>1
  <2> QED BY <1>2, <2>1, <2>2, <2>3, <2>4 DEF Underway
<1>10. ASSUME Failed(f) PROVE Failed(f)'
  <2>1. SUFFICES ASSUME BuiltinsUnforgiven
                 PROVE  \E k \in 1..n :
                           /\ ~Harmless(f, k)'
                           /\ Fate(f, k)' \notin {"new", "live"}
                           /\ \A j \in (k + 1)..MaxLines : Untouched(f, j)'
    BY <1>2 DEF Failed
  <2>2. PICK k \in 1..n : /\ ~Harmless(f, k)
                          /\ Fate(f, k) \notin {"new", "live"}
                          /\ \A j \in (k + 1)..MaxLines : Untouched(f, j)
    BY <1>10, <2>1 DEF Failed
  <2>3. \A j \in (k + 1)..MaxLines : Untouched(f, j)'
    BY <1>1, <1>4, <2>2
  <2>4. ~Harmless(f, k)' /\ Fate(f, k)' \notin {"new", "live"}
    BY <1>5, <1>6, <2>2
  <2> QED BY <2>3, <2>4
<1>11. ASSUME Asked(f) PROVE Asked(f)'
  <2>1. PICK k \in 1..n : Lines(f)[k].kind = "process" /\ UpTo(f, k)
    BY <1>11 DEF Asked
  <2>2. UpTo(f, k)'
    BY <1>1, <1>7, <2>1
  <2> QED BY <1>2, <1>11, <2>1, <2>2 DEF Asked
<1>12. (\A j \in 1..n : Harmless(f, j)) => \A j \in 1..n : Harmless(f, j)'
  BY <1>5
<1>13. Verdict(f, update_status[f]) => Verdict(f, update_status[f])'
  BY <1>2, <1>10, <1>11, <1>12 DEF Verdict
<1>14. (\A j \in 1..MaxLines : command[<<f, j>>] # "live") =>
         (\A j \in 1..MaxLines : command'[<<f, j>>] # "live")
  BY DEF SameFate
<1>15. Ended(f, update_status[f]) => Ended(f, update_status[f])'
  BY <1>2, <1>13, <1>14 DEF Ended
<1> QED BY <1>8, <1>9, <1>15 DEF Progress

-----------------------------------------------------------------------------
(* Starting a command                                                      *)

(* The lines passed over on the way to line k are over, those after it are *)
(* not touched, nor are the other targets'.                                *)
LEMMA PassesOver ==
  ASSUME TypeOK, UNCHANGED given, NEW f \in Files, NEW fate,
         NEW k \in command_line[f]..(Len(Lines(f)) + 1),
         StopsAt(f, k), UpTo(f, command_line[f]), RunBuiltins(f, k, fate),
         \A p \in Pids : p # <<f, k>> => command'[p] = command[p]
  PROVE  /\ \A j \in 1..(k - 1) : Over(f, j)'
         /\ \A j \in (k + 1)..MaxLines : Untouched(f, j)'
         /\ k <= Len(Lines(f)) => builtin'[<<f, k>>] = fate
         /\ \A g \in Files \ {f} : \A j \in 1..MaxLines : SameFate(g, j)
PROOF
<1> DEFINE n == Len(Lines(f))
           c == command_line[f]
<1>1. n \in Nat /\ n <= MaxLines /\ MaxLines \in Nat
  BY RecipeLength
<1>2. c \in 1..(MaxLines + 1) /\ k \in c..(n + 1)
  BY DEF TypeOK
<1>3. Lines(f)' = Lines(f) /\ mode' = mode
  BY DEF given, Lines
<1>4. \A g \in Files : \A j \in 1..MaxLines : <<g, j>> \in Pids
  BY <1>1 DEF Pids
<1>5. \A g \in Files : \A j \in 1..MaxLines :
         builtin'[<<g, j>>] =
            IF g = f /\ j \in c..(k - 1) /\ Lines(f)[j].kind = "builtin" THEN "won"
            ELSE IF <<g, j>> = <<f, k>> THEN fate ELSE builtin[<<g, j>>]
  <2> TAKE g \in Files
  <2> TAKE j \in 1..MaxLines
  <2>1. <<g, j>> \in Pids /\ <<g, j>>[1] = g /\ <<g, j>>[2] = j
    BY <1>4
  <2> QED BY <2>1 DEF RunBuiltins
<1>6. \A g \in Files : \A j \in 1..MaxLines :
         ~(g = f /\ j = k) => command'[<<g, j>>] = command[<<g, j>>]
  BY <1>4
<1> HIDE DEF n, c
<1>7. \A g \in Files \ {f} : \A j \in 1..MaxLines : SameFate(g, j)
  BY <1>5, <1>6 DEF SameFate
<1>8. ASSUME NEW j \in 1..MaxLines, j < c \/ j > k PROVE SameFate(f, j)
  BY <1>1, <1>2, <1>5, <1>6, <1>8 DEF SameFate
<1>9. ASSUME NEW j \in 1..(k - 1) PROVE Over(f, j)'
  <2>1. j \in 1..n /\ j \in 1..MaxLines
    BY <1>1, <1>2
  <2>2. CASE j < c
    <3>1. j \in 1..(c - 1)
      BY <1>2, <2>1, <2>2
    <3>2. Over(f, j)
      BY <3>1 DEF UpTo, c
    <3>3. SameFate(f, j)
      BY <1>8, <2>1, <2>2
    <3> QED BY <3>2, <3>3, SameLine
  <2>3. CASE j \in c..(k - 1)
    <3>1. Skipped(Lines(f)[j])
      BY <2>3 DEF StopsAt, c
    <3>2. Untouched(f, j)
      BY <1>2, <2>1, <2>3 DEF UpTo, c
    <3>3. command'[<<f, j>>] # "live"
      BY <1>2, <1>6, <2>1, <2>3, <3>2 DEF Untouched
    <3>4. mode # "print" => Harmless(f, j)'
      BY <1>3, <3>1 DEF Skipped, Harmless
    <3> QED BY <1>3, <3>3, <3>4 DEF Over
  <2> QED BY <1>2, <2>1, <2>2, <2>3
<1>10. ASSUME NEW j \in (k + 1)..MaxLines PROVE Untouched(f, j)'
  <2>1. j \in 1..MaxLines /\ j \in c..MaxLines /\ j > k
    BY <1>1, <1>2
  <2>2. Untouched(f, j)
    BY <2>1 DEF UpTo, c
  <2> QED BY <1>8, <2>1, <2>2, SameLine
<1>11. k <= n => builtin'[<<f, k>>] = fate
  <2>1. k <= n => k \in 1..MaxLines
    BY <1>1, <1>2
  <2> QED BY <1>1, <1>2, <1>5, <2>1
<1> QED BY <1>7, <1>9, <1>10, <1>11 DEF n

(* StartJobCommand leaves f at the line it has started, or ended as its    *)
(* result says.                                                            *)
LEMMA StartsNext ==
  ASSUME TypeOK, UNCHANGED given, NEW f \in Files,
         NEW result \in {"running", "won", "asked", "lost"},
         UpTo(f, command_line[f]), proc_array = << >>,
         StartJobCommand(f, result)
  PROVE  /\ \A g \in Files \ {f} :
               /\ command_line'[g] = command_line[g]
               /\ \A j \in 1..MaxLines : SameFate(g, j)
         /\ result = "running" =>
               /\ Underway(f)'
               /\ \/ /\ Lines(f)'[command_line'[f] - 1].kind = "builtin"
                     /\ builtin_cmd_running' /\ proc_array' = << >>
                  \/ /\ Lines(f)'[command_line'[f] - 1].kind = "process"
                     /\ ~builtin_cmd_running'
                     /\ proc_array' = << <<f, command_line'[f] - 1>> >>
         /\ result # "running" =>
               /\ \A status : status = StatusOf(result) => Ended(f, status)'
               /\ proc_array' = << >>
PROOF
<1> DEFINE n == Len(Lines(f))
           c == command_line[f]
<1>1. PICK k \in c..(n + 1) :
         StopsAt(f, k) /\ (NoMoreCommands(f, k, result) \/ RunLine(f, k, result))
  BY DEF StartJobCommand
<1>2. n \in Nat /\ n <= MaxLines /\ MaxLines \in Nat /\ c \in 1..(MaxLines + 1)
  BY RecipeLength DEF TypeOK
<1>3. Lines(f)' = Lines(f) /\ mode' = mode
  BY DEF given, Lines
<1>4. \A g \in Files : \A j \in 1..MaxLines : <<g, j>> \in Pids
  BY <1>2 DEF Pids
<1>5. /\ \A g \in Files \ {f} : command_line'[g] = command_line[g]
      /\ NoMoreCommands(f, k, result) => command_line'[f] = k
      /\ RunLine(f, k, result) => command_line'[f] = k + 1
  BY <1>1 DEF NoMoreCommands, RunLine, TypeOK
<1>6. \A j \in c..MaxLines : command[<<f, j>>] = "new"
  BY DEF UpTo, Untouched
<1>7. CASE NoMoreCommands(f, k, result)
  <2>1. /\ k = n + 1 /\ result = "won" /\ UNCHANGED os /\ RunBuiltins(f, k, "new")
    BY <1>1, <1>2, <1>7 DEF NoMoreCommands
  <2>2. /\ \A j \in 1..(k - 1) : Over(f, j)'
        /\ \A g \in Files \ {f} : \A j \in 1..MaxLines : SameFate(g, j)
    BY <1>1, <2>1, PassesOver DEF os
  <2>3. \A j \in 1..MaxLines : command'[<<f, j>>] # "live"
    <3> TAKE j \in 1..MaxLines
    <3>1. CASE j \in 1..(k - 1)
      BY <2>2, <3>1 DEF Over
    <3>2. CASE j \in c..MaxLines
      BY <1>6, <2>1, <3>2 DEF os
    <3> QED BY <1>1, <1>2, <3>1, <3>2
  <2>4. mode # "print" => \A j \in 1..n : Harmless(f, j)'
    <3>1. \A j \in 1..n : Over(f, j)'
      <4>1. k - 1 = n
        BY <1>2, <2>1
      <4> QED BY <2>2, <4>1
    <3> QED BY <1>3, <3>1 DEF Over
  <2>5. ASSUME NEW status, status = StatusOf(result) PROVE Ended(f, status)'
    <3>1. status = 0
      BY <2>1, <2>5 DEF StatusOf
    <3>2. mode' # "print" => Verdict(f, status)'
      BY <1>3, <2>4, <3>1 DEF Verdict
    <3> QED BY <2>3, <3>2 DEF Ended
  <2> QED BY <1>5, <2>1, <2>2, <2>5 DEF os
<1>8. CASE RunLine(f, k, result)
  <2>1. /\ k \in 1..n /\ k \in 1..MaxLines /\ k \in c..MaxLines
        /\ <<f, k>> \in Pids
        /\ builtin_cmd_running' = (Lines(f)[k].kind = "builtin")
        /\ command_line'[f] - 1 = k
    BY <1>1, <1>2, <1>4, <1>5, <1>8 DEF RunLine
  <2>2. ASSUME NEW fate, RunBuiltins(f, k, fate),
               \A p \in Pids : p # <<f, k>> => command'[p] = command[p]
        PROVE  /\ \A j \in 1..(k - 1) : Over(f, j)'
               /\ \A j \in (k + 1)..MaxLines : Untouched(f, j)'
               /\ builtin'[<<f, k>>] = fate
               /\ \A g \in Files \ {f} : \A j \in 1..MaxLines : SameFate(g, j)
    BY <1>1, <2>1, <2>2, PassesOver
  <2>3. ASSUME \A j \in 1..(k - 1) : Over(f, j)',
               \A j \in (k + 1)..MaxLines : Untouched(f, j)',
               Executing(f, k)'
        PROVE  Underway(f)'
    <3>1. (command_line[f] - 1)' = k
      BY <2>1
    <3>2. Underway(f)' <=> /\ k \in 1..n
                           /\ Executing(f, k)'
                           /\ \A j \in 1..(k - 1) : Over(f, j)'
                           /\ \A j \in (k + 1)..MaxLines : Untouched(f, j)'
      <4>1. Executing(f, command_line[f] - 1)' <=> Executing(f, k)'
        BY <3>1 DEF Executing
      <4> QED BY <1>3, <3>1, <4>1 DEF Underway
    <3> QED BY <2>1, <2>3, <3>2
  <2>4. ASSUME \A j \in 1..(k - 1) : Over(f, j)',
               \A j \in (k + 1)..MaxLines : Untouched(f, j)',
               command'[<<f, k>>] # "live"
        PROVE  \A j \in 1..MaxLines : command'[<<f, j>>] # "live"
    <3> TAKE j \in 1..MaxLines
    <3>1. j \in 1..(k - 1) \/ j = k \/ j \in (k + 1)..MaxLines
      BY <2>1
    <3> QED BY <2>4, <3>1 DEF Over, Untouched
  <2>5. CASE BuiltinLine(f, k, result)
    <3>1. Lines(f)[k].kind = "builtin" /\ UNCHANGED <<command, proc_array>>
      BY <2>5 DEF BuiltinLine, os
    <3>2. command'[<<f, k>>] = "new"
      BY <1>6, <2>1, <3>1
    <3>3. CASE result = "running" /\ RunBuiltins(f, k, "won")
      <4>1. /\ \A j \in 1..(k - 1) : Over(f, j)'
            /\ \A j \in (k + 1)..MaxLines : Untouched(f, j)'
            /\ builtin'[<<f, k>>] = "won"
            /\ \A g \in Files \ {f} : \A j \in 1..MaxLines : SameFate(g, j)
        BY <2>2, <3>1, <3>3
      <4>2. Executing(f, k)'
        BY <1>3, <3>1, <3>2, <4>1 DEF Executing
      <4>3. Underway(f)'
        BY <2>3, <4>1, <4>2
      <4> QED BY <1>3, <1>5, <2>1, <3>1, <3>3, <4>1, <4>3
    <3>4. CASE result = "lost" /\ RunBuiltins(f, k, "lost")
      <4>1. /\ \A j \in 1..(k - 1) : Over(f, j)'
            /\ \A j \in (k + 1)..MaxLines : Untouched(f, j)'
            /\ builtin'[<<f, k>>] = "lost"
            /\ \A g \in Files \ {f} : \A j \in 1..MaxLines : SameFate(g, j)
        BY <2>2, <3>1, <3>4
      <4>2. \A j \in 1..MaxLines : command'[<<f, j>>] # "live"
        BY <2>4, <3>2, <4>1
      <4>3. Fate(f, k)' = "lost"
        BY <1>3, <3>1, <4>1 DEF Fate
      <4>4. BuiltinsUnforgiven => ~Harmless(f, k)'
        <5>1. recipe[f] \in Recipes
          BY DEF TypeOK
        <5>2. BuiltinsUnforgiven => ~Ignored(f, k)'
          BY <1>3, <2>1, <3>1, <5>1 DEF BuiltinsUnforgiven, Ignored, Lines
        <5> QED BY <1>3, <3>1, <4>3, <5>2 DEF Harmless
      <4>5. Failed(f)'
        BY <1>3, <2>1, <4>1, <4>3, <4>4 DEF Failed
      <4>6. ASSUME NEW status, status = StatusOf(result) PROVE Ended(f, status)'
        <5>1. status = 2
          BY <3>4, <4>6 DEF StatusOf
        <5> QED BY <4>2, <4>5, <5>1 DEF Ended, Verdict
      <4> QED BY <1>5, <3>1, <3>4, <4>1, <4>6
    <3> QED BY <2>5, <3>3, <3>4 DEF BuiltinLine
  <2>6. CASE ProcessLine(f, k, result)
    <3>1. Lines(f)[k].kind = "process" /\ RunBuiltins(f, k, "new")
      BY <2>6 DEF ProcessLine
    <3>2. CASE mode = "question" /\ result = "asked" /\ UNCHANGED os
      <4>1. /\ \A j \in 1..(k - 1) : Over(f, j)'
            /\ \A j \in (k + 1)..MaxLines : Untouched(f, j)'
            /\ builtin'[<<f, k>>] = "new"
            /\ \A g \in Files \ {f} : \A j \in 1..MaxLines : SameFate(g, j)
        BY <2>2, <3>1, <3>2 DEF os
      <4>2. command'[<<f, k>>] = "new"
        BY <1>6, <2>1, <3>2 DEF os
      <4>3. \A j \in 1..MaxLines : command'[<<f, j>>] # "live"
        BY <2>4, <4>1, <4>2
      <4>4. Untouched(f, k)'
        BY <4>1, <4>2 DEF Untouched
      <4>5. \A j \in k..MaxLines : Untouched(f, j)'
        <5> TAKE j \in k..MaxLines
        <5>1. j = k \/ j \in (k + 1)..MaxLines
          BY <2>1
        <5> QED BY <4>1, <4>4, <5>1
      <4>6. UpTo(f, k)'
        BY <4>1, <4>5 DEF UpTo
      <4>7. Asked(f)'
        BY <1>3, <2>1, <3>1, <3>2, <4>6 DEF Asked
      <4>8. ASSUME NEW status, status = StatusOf(result) PROVE Ended(f, status)'
        <5>1. status = 1
          BY <3>2, <4>8 DEF StatusOf
        <5> QED BY <4>3, <4>7, <5>1 DEF Ended, Verdict
      <4> QED BY <1>5, <3>2, <4>1, <4>8 DEF os
    <3>3. CASE result = "running" /\ OS!ProcessEasyBegun(<<f, k>>)
      <4>1. \A p \in Pids : p # <<f, k>> => command'[p] = command[p]
        BY <2>1, <3>3 DEF OS!ProcessEasyBegun, TypeOK, OS!SubProcTypeOK
      <4>2. /\ \A j \in 1..(k - 1) : Over(f, j)'
            /\ \A j \in (k + 1)..MaxLines : Untouched(f, j)'
            /\ \A g \in Files \ {f} : \A j \in 1..MaxLines : SameFate(g, j)
        BY <2>2, <3>1, <4>1
      <4>3. command'[<<f, k>>] \in {"live", "stillborn"}
        BY <2>1, <3>3 DEF OS!ProcessEasyBegun, TypeOK, OS!SubProcTypeOK
      <4>4. Executing(f, k)'
        BY <1>3, <3>1, <4>3 DEF Executing
      <4>5. Underway(f)'
        BY <2>3, <4>2, <4>4
      <4>6. proc_array' = << <<f, k>> >>
        BY <3>3 DEF OS!ProcessEasyBegun
      <4> QED BY <1>3, <1>5, <2>1, <3>1, <3>3, <4>2, <4>5, <4>6
    <3>4. CASE result = "lost" /\ OS!ProcessEasyRefused(<<f, k>>)
      <4>1. /\ \A p \in Pids : p # <<f, k>> => command'[p] = command[p]
            /\ command'[<<f, k>>] = "refused"
            /\ proc_array' = << >>
        BY <2>1, <3>4 DEF OS!ProcessEasyRefused, TypeOK, OS!SubProcTypeOK
      <4>2. /\ \A j \in 1..(k - 1) : Over(f, j)'
            /\ \A j \in (k + 1)..MaxLines : Untouched(f, j)'
            /\ \A g \in Files \ {f} : \A j \in 1..MaxLines : SameFate(g, j)
        BY <2>2, <3>1, <4>1
      <4>3. \A j \in 1..MaxLines : command'[<<f, j>>] # "live"
        BY <2>4, <4>1, <4>2
      <4>4. Fate(f, k)' = "refused"
        BY <1>3, <3>1, <4>1 DEF Fate
      <4>5. ~Harmless(f, k)'
        BY <1>3, <3>1, <4>4 DEF Harmless
      <4>6. Failed(f)'
        BY <1>3, <2>1, <4>2, <4>4, <4>5 DEF Failed
      <4>7. ASSUME NEW status, status = StatusOf(result) PROVE Ended(f, status)'
        <5>1. status = 2
          BY <3>4, <4>7 DEF StatusOf
        <5> QED BY <4>3, <4>6, <5>1 DEF Ended, Verdict
      <4> QED BY <1>5, <3>4, <4>1, <4>2, <4>7
    <3> QED BY <2>6, <3>2, <3>3, <3>4 DEF ProcessLine
  <2> QED BY <1>8, <2>5, <2>6 DEF RunLine
<1> QED BY <1>1, <1>7, <1>8

-----------------------------------------------------------------------------
(* The steps                                                               *)

LEMMA GivenKept == [Next]_vars => UNCHANGED given
PROOF
BY DEF Next, Make, NewJob, StartWaitingJobs, ExpandLines, ShellCompleted,
       StartJob, FinishedLinearly, NothingToReap, WaitForChild,
       ReapShellFunction, ReapUnknown, ReapChild, NextPass, GoalsDone,
       GiveUp, Exit, CommandExits, vars, given

(* The file new_job is attending to is the only one that is running.       *)
LEMMA OnlyRunning ==
  ASSUME IInv, OneChild, NEW f \in Files, command_state[f] = "running"
  PROVE  Attending /\ f = file
PROOF
<1>1. f \in ToSet(children) \cup ToSet(waiting_jobs)
  BY DEF IInv, Tracked
<1>2. ToSet(<< >>) = {} /\ ToSet(<<file>>) = {file}
  BY DEF ToSet
<1> QED BY <1>1, <1>2 DEF OneChild

(* With one process in the array a wait returns it, dead, or not at all.   *)
LEMMA WaitsForOne ==
  ASSUME TypeOK, NEW q \in Pids, proc_array = <<q>>,
         NEW p \in Pids, OS!ProcessWaitForAny(p)
  PROVE  /\ p = q
         /\ command[q] # "live"
         /\ proc_array' = << >>
         /\ UNCHANGED command
PROOF
<1>1. PICK i \in OS!Reportable :
         /\ p = proc_array[i]
         /\ proc_array' = RemoveAt(proc_array, i)
         /\ UNCHANGED command
  BY DEF OS!ProcessWaitForAny, OS!RemoveAt, RemoveAt
<1>2. i \in 1..Len(proc_array) /\ proc_array \in Seq(Pids) /\ Len(proc_array) = 1
  BY <1>1 DEF OS!Reportable, TypeOK, OS!SubProcTypeOK
<1>3. i = 1 /\ proc_array[1] = q
  BY <1>2
<1>4. proc_array' \in Seq(Pids) /\ Len(proc_array') = 0
  <2>1. /\ RemoveAt(proc_array, i) \in Seq(Pids)
        /\ Len(RemoveAt(proc_array, i)) = Len(proc_array) - 1
    BY <1>2, RemoveAtProperties
  <2> QED BY <1>1, <1>2, <2>1
<1>5. command[q] # "live"
  BY <1>1, <1>3 DEF OS!Reportable
<1> QED BY <1>1, <1>3, <1>4, <1>5, EmptySeq

LEMMA SerialInit == Init => OneChild /\ \A f \in Files : Progress(f)
PROOF
<1> SUFFICES ASSUME Init PROVE OneChild /\ \A f \in Files : Progress(f)
  OBVIOUS
<1>1. OneChild
  <2>1. /\ pc = "pass" /\ children = << >> /\ waiting_jobs = << >>
        /\ shell_function_pid = NoPid /\ dead = NoDead
        /\ proc_array = << >>
    BY DEF Init, OS!SubProcInit
  <2>2. ~dead.seen
    BY <2>1 DEF NoDead
  <2> QED BY <2>1, <2>2 DEF OneChild, Attending
<1>2. ASSUME NEW f \in Files PROVE Progress(f)
  <2>1. \A j \in 1..MaxLines : <<f, j>> \in Pids
    BY RecipesAssumption DEF Pids
  <2>2. \A j \in 1..MaxLines : Untouched(f, j)
    BY <2>1 DEF Init, Untouched, OS!SubProcInit
  <2>3. UpTo(f, 1)
    BY <2>2 DEF UpTo
  <2> QED BY <2>3 DEF Init, Progress
<1> QED BY <1>1, <1>2

(* A step that starts nothing and finishes no target, and during which no  *)
(* command of a recipe ends.                                               *)
LEMMA QuietStep ==
  ASSUME TypeOK, UNCHANGED <<given, target, command_line, builtin>>,
         \A f \in Files : \A j \in 1..MaxLines :
            command'[<<f, j>>] = command[<<f, j>>],
         \A f \in Files : Progress(f)
  PROVE  \A f \in Files : Progress(f)'
PROOF
<1> TAKE f \in Files
<1>1. \A j \in 1..MaxLines : SameFate(f, j)
  BY DEF SameFate
<1>2. /\ UNCHANGED given
      /\ command_state'[f] = command_state[f]
      /\ update_status'[f] = update_status[f]
      /\ command_line'[f] = command_line[f]
  BY DEF target
<1> QED BY <1>1, <1>2, Frame

(* new_job starts its child when no other is there.                        *)
LEMMA StartJobSerial ==
  ASSUME OneAtATime, IInv, OneChild, \A f \in Files : Progress(f), StartJob
  PROVE  OneChild' /\ \A f \in Files : Progress(f)'
PROOF
<1>1. /\ pc = "slots" /\ file \in Files /\ command_state[file] = "not_started"
      /\ TypeOK
  BY DEF StartJob, IInv, TypeOK, InNewJob, Fresh
<1>2. /\ children = << >> /\ waiting_jobs = << >> /\ proc_array = << >>
      /\ ~dead.seen /\ shell_function_pid = NoPid
  BY <1>1 DEF OneChild, Attending
<1>3. job_slots_used = 0
  BY <1>2, EmptySeq DEF IInv, Accounting
<1>4. ~MustWait
  BY <1>2, <1>3, EmptySeq, WaitSlotsAssumption DEF MustWait, OS!Full
<1>5. /\ pc' = "linear" /\ file' = file /\ UNCHANGED <<given, shell, dead>>
      /\ StartWaitingJob(file, waiting_jobs, jobserver_tokens + 1)
  BY DEF StartJob, OneAtATime
<1>6. /\ command_line[file] = 1 /\ UpTo(file, command_line[file])
      /\ update_status[file] = -1
  BY <1>1 DEF Progress
<1>7. ASSUME NEW g \in Files \ {file},
             command_state'[g] = command_state[g],
             update_status'[g] = update_status[g],
             command_line'[g] = command_line[g],
             \A j \in 1..MaxLines : SameFate(g, j)
      PROVE  Progress(g)'
  BY <1>1, <1>5, <1>7, Frame
<1>8. CASE PutOnChildrenChain(file, waiting_jobs, jobserver_tokens + 1)
  <2>1. /\ StartJobCommand(file, "running")
        /\ command_state' = [command_state EXCEPT ![file] = "running"]
        /\ children' = <<file>> \o children
        /\ waiting_jobs' = waiting_jobs
        /\ UNCHANGED update_status
    BY <1>8 DEF PutOnChildrenChain
  <2>2. /\ \A g \in Files \ {file} :
              /\ command_line'[g] = command_line[g]
              /\ \A j \in 1..MaxLines : SameFate(g, j)
        /\ Underway(file)'
        /\ \/ /\ Lines(file)'[command_line'[file] - 1].kind = "builtin"
              /\ builtin_cmd_running' /\ proc_array' = << >>
           \/ /\ Lines(file)'[command_line'[file] - 1].kind = "process"
              /\ ~builtin_cmd_running'
              /\ proc_array' = << <<file, command_line'[file] - 1>> >>
    BY <1>1, <1>2, <1>5, <1>6, <2>1, StartsNext
  <2>3. /\ command_state'[file] = "running"
        /\ \A g \in Files \ {file} : command_state'[g] = command_state[g]
    BY <1>1, <2>1 DEF TypeOK
  <2>4. \A g \in Files \ {file} : Progress(g)'
    BY <1>7, <2>1, <2>2, <2>3
  <2>5. Progress(file)'
    BY <1>5, <1>6, <2>1, <2>2, <2>3 DEF Progress
  <2>6. children' = <<file>>
    BY <1>2, <2>1
  <2>7. Attending'
    BY <1>5, <2>3 DEF Attending
  <2>8. Attends(file, command_line[file] - 1)'
    BY <1>2, <1>5, <2>2 DEF Attends
  <2>9. OneChild'
    <3>1. /\ waiting_jobs' = << >> /\ pc' = "linear"
          /\ shell_function_pid' = NoPid
          /\ children' = <<file'>>
          /\ Attends(file, command_line[file] - 1)'
      BY <1>2, <1>5, <2>1, <2>6, <2>8 DEF shell
    <3>2. pc' = "linear" /\ command_state'[file'] = "running"
      BY <1>5, <2>3
    <3> QED BY <3>1, <3>2 DEF OneChild, Attending
  <2> QED BY <1>5, <2>4, <2>5, <2>9
<1>9. CASE FinishAtOnce(file, waiting_jobs, jobserver_tokens + 1)
  <2>1. PICK result \in {"won", "asked", "lost"} :
           StartJobCommand(file, result) /\ Finish(file, StatusOf(result))
    BY <1>9 DEF FinishAtOnce
  <2>2. waiting_jobs' = waiting_jobs /\ UNCHANGED children
    BY <1>9 DEF FinishAtOnce
  <2>3. /\ \A g \in Files \ {file} :
              /\ command_line'[g] = command_line[g]
              /\ \A j \in 1..MaxLines : SameFate(g, j)
        /\ \A status : status = StatusOf(result) => Ended(file, status)'
        /\ proc_array' = << >>
    BY <1>1, <1>2, <1>5, <1>6, <2>1, StartsNext
  <2>4. /\ command_state'[file] = "finished"
        /\ update_status'[file] = StatusOf(result)
        /\ \A g \in Files \ {file} : /\ command_state'[g] = command_state[g]
                                     /\ update_status'[g] = update_status[g]
    BY <1>1, <2>1 DEF Finish, TypeOK
  <2>5. \A g \in Files \ {file} : Progress(g)'
    BY <1>7, <2>3, <2>4
  <2>6. Ended(file, update_status[file])'
    <3>1. PICK status : status = StatusOf(result)
      OBVIOUS
    <3>2. /\ Ended(file, status)' /\ update_status'[file] = status
          /\ file' = file
      BY <1>5, <2>3, <2>4, <3>1
    <3> QED BY <3>2 DEF Ended, Verdict
  <2>7. Progress(file)'
    BY <1>5, <2>4, <2>6 DEF Progress
  <2>8. ~Attending'
    BY <1>5, <2>4 DEF Attending
  <2>9. OneChild'
    <3>1. pc' = "linear" /\ command_state'[file'] # "running"
      BY <1>5, <2>4
    <3> QED BY <1>2, <1>5, <2>2, <2>3, <3>1 DEF OneChild, Attending, shell
  <2> QED BY <1>5, <2>5, <2>7, <2>9
<1> QED BY <1>4, <1>5, <1>8, <1>9 DEF StartWaitingJob, PutOnWaitingChain

(* The reaped child is the one that is attended to: its line is over, or   *)
(* has failed.                                                             *)
LEMMA ReapedLine ==
  ASSUME TypeOK, OneChild, NEW f \in Files, f = file, Attending, dead.seen,
         Progress(f)
  PROVE  /\ proc_array = << >>
         /\ ~Fails(f) => UpTo(f, command_line[f])
         /\ Fails(f) => /\ Failed(f)
                        /\ \A j \in 1..MaxLines : command[<<f, j>>] # "live"
         /\ ~HasNextCommand(f) /\ ~Fails(f) /\ mode # "print" =>
               \A j \in 1..Len(Lines(f)) : Harmless(f, j)
         /\ ~HasNextCommand(f) /\ ~Fails(f) =>
               \A j \in 1..MaxLines : command[<<f, j>>] # "live"
PROOF
<1> DEFINE n == Len(Lines(f))
           k == command_line[f] - 1
<1>1. n \in Nat /\ n <= MaxLines /\ MaxLines \in Nat
  BY RecipeLength
<1>2. Underway(f)
  BY DEF Attending, Progress
<1>3. /\ k \in 1..n /\ k \in 1..MaxLines /\ command_line[f] = k + 1
      /\ Executing(f, k)
      /\ \A j \in 1..(k - 1) : Over(f, j)
      /\ \A j \in (k + 1)..MaxLines : Untouched(f, j)
  BY <1>1, <1>2 DEF Underway, TypeOK
<1>4. Attends(f, k)
  BY DEF OneChild
<1> HIDE DEF n, k
<1>5. proc_array = << >>
  BY <1>4 DEF Attends
<1>6. command[<<f, k>>] # "live"
  BY <1>3, <1>4 DEF Attends, Executing
<1>7. \A j \in 1..MaxLines : command[<<f, j>>] # "live"
  <2> TAKE j \in 1..MaxLines
  <2>1. j \in 1..(k - 1) \/ j = k \/ j \in (k + 1)..MaxLines
    BY <1>1, <1>3
  <2> QED BY <1>3, <1>6, <2>1 DEF Over, Untouched
<1>8. Fails(f) <=> dead.failed /\ ~Ignored(f, k)
  BY <1>3 DEF Fails, k
<1>9. CASE Fails(f)
  <2>1. /\ Lines(f)[k].kind = "process"
        /\ command[<<f, k>>] \in {"lost", "stillborn"}
        /\ ~Ignored(f, k)
    BY <1>4, <1>8, <1>9 DEF Attends, OS!BadExit
  <2>2. ~Harmless(f, k) /\ Fate(f, k) \notin {"new", "live"}
    BY <2>1 DEF Harmless, Fate
  <2>3. Failed(f)
    BY <1>3, <2>2 DEF Failed, n
  <2> QED BY <1>5, <1>7, <1>9, <2>3
<1>10. CASE ~Fails(f)
  <2>1. Harmless(f, k)
    <3>1. CASE Lines(f)[k].kind = "builtin"
      BY <1>3, <3>1 DEF Executing, Harmless, Fate
    <3>2. CASE Lines(f)[k].kind = "process"
      <4>1. /\ command[<<f, k>>] \in {"won", "lost", "stillborn"}
            /\ dead.failed <=> command[<<f, k>>] \in {"lost", "stillborn"}
        BY <1>3, <1>4, <1>6, <3>2 DEF Executing, Attends, OS!BadExit
      <4>2. Fate(f, k) = command[<<f, k>>]
        BY <3>2 DEF Fate
      <4>3. dead.failed => Ignored(f, k)
        BY <1>8, <1>10
      <4> QED BY <4>1, <4>2, <4>3 DEF Harmless
    <3> QED BY <1>3, <3>1, <3>2 DEF Executing
  <2>2. Over(f, k)
    BY <1>6, <2>1 DEF Over
  <2>3. \A j \in 1..k : Over(f, j)
    <3> TAKE j \in 1..k
    <3>1. j \in 1..(k - 1) \/ j = k
      BY <1>3
    <3> QED BY <1>3, <2>2, <3>1
  <2>4. UpTo(f, command_line[f])
    <3>1. command_line[f] - 1 = k
      BY DEF k
    <3> QED BY <1>3, <2>3, <3>1 DEF UpTo
  <2>5. ~HasNextCommand(f) => k = n
    BY <1>1, <1>3 DEF HasNextCommand, n
  <2>6. ~HasNextCommand(f) /\ mode # "print" => \A j \in 1..n : Harmless(f, j)
    BY <2>3, <2>5 DEF Over
  <2> QED BY <1>5, <1>7, <1>10, <2>4, <2>6 DEF n
<1> QED BY <1>9, <1>10

(* reap_children goes on with the next line or finishes the target.        *)
LEMMA ReapChildSerial ==
  ASSUME IInv, OneChild, \A f \in Files : Progress(f), ReapChild
  PROVE  OneChild' /\ \A f \in Files : Progress(f)'
PROOF
<1>1. PICK i \in 1..Len(children) :
         ReapFailed(i) \/ ReapFinished(i) \/ ReapAndContinue(i)
  BY DEF ReapChild
<1>2. /\ dead.seen /\ TypeOK /\ UNCHANGED <<given, shell>>
      /\ dead' = NoDead /\ ~dead'.seen
  BY DEF ReapChild, IInv, NoDead
<1>3. Attending /\ children = <<file>> /\ i = 1
  <2>1. children # << >>
    BY <1>1
  <2>2. Attending /\ children = <<file>>
    BY <2>1 DEF OneChild
  <2>3. Len(children) = 1
    BY <2>2
  <2> QED BY <1>1, <2>2, <2>3
<1>4. PICK f \in Files : f = file /\ children[i] = f
  BY <1>2, <1>3 DEF Attending, TypeOK, InNewJob
<1>5. /\ proc_array = << >>
      /\ ~Fails(f) => UpTo(f, command_line[f])
      /\ Fails(f) => /\ Failed(f)
                     /\ \A j \in 1..MaxLines : command[<<f, j>>] # "live"
      /\ ~HasNextCommand(f) /\ ~Fails(f) /\ mode # "print" =>
            \A j \in 1..Len(Lines(f)) : Harmless(f, j)
      /\ ~HasNextCommand(f) /\ ~Fails(f) =>
            \A j \in 1..MaxLines : command[<<f, j>>] # "live"
  BY <1>2, <1>3, <1>4, ReapedLine
<1>6. /\ pc = "linear" /\ waiting_jobs = << >>
      /\ shell_function_pid = NoPid /\ command_state[f] = "running"
      /\ update_status[f] = -1
  BY <1>3, <1>4 DEF Attending, OneChild, Progress
<1>7. ASSUME NEW g \in Files \ {f},
             command_state'[g] = command_state[g],
             update_status'[g] = update_status[g],
             command_line'[g] = command_line[g],
             \A j \in 1..MaxLines : SameFate(g, j)
      PROVE  Progress(g)'
  BY <1>2, <1>7, Frame
<1>8. ASSUME NEW status, FreeChild(i, status), Ended(f, status)',
             proc_array' = << >>, pc' \in {"linear", "die"},
             pc' = "linear" => file' = file,
             \A g \in Files \ {f} : /\ command_line'[g] = command_line[g]
                                    /\ \A j \in 1..MaxLines : SameFate(g, j)
      PROVE  OneChild' /\ \A g \in Files : Progress(g)'
  <2>1. /\ command_state'[f] = "finished" /\ update_status'[f] = status
        /\ \A g \in Files \ {f} : /\ command_state'[g] = command_state[g]
                                  /\ update_status'[g] = update_status[g]
    BY <1>2, <1>4, <1>8 DEF FreeChild, Finish, TypeOK
  <2>2. \A g \in Files \ {f} : Progress(g)'
    BY <1>7, <1>8, <2>1
  <2>3. Progress(f)'
    <3>1. Ended(f, update_status[f])'
      BY <1>8, <2>1 DEF Ended, Verdict
    <3> QED BY <2>1, <3>1 DEF Progress
  <2>4. children' = << >> /\ waiting_jobs' = << >>
    <3>1. /\ children \in Seq(Files) /\ i \in 1..Len(children)
          /\ Len(children) = 1
      BY <1>1, <1>2, <1>3 DEF TypeOK
    <3>2. /\ RemoveAt(children, i) \in Seq(Files)
          /\ Len(RemoveAt(children, i)) = Len(children) - 1
      BY <3>1, RemoveAtProperties
    <3> QED BY <1>6, <1>8, <3>1, <3>2, EmptySeq DEF FreeChild
  <2>5. ~(pc' = "linear" /\ command_state'[file'] = "running")
    BY <1>4, <1>8, <2>1
  <2>6. OneChild'
    BY <1>2, <1>6, <1>8, <2>4, <2>5 DEF OneChild, Attending, shell
  <2> QED BY <2>2, <2>3, <2>6
<1>9. ASSUME UNCHANGED <<given, child, os>>
      PROVE  /\ \A g \in Files : /\ command_line'[g] = command_line[g]
                                 /\ \A j \in 1..MaxLines : SameFate(g, j)
             /\ proc_array' = << >>
             /\ Lines(f)' = Lines(f) /\ mode' = mode
  BY <1>5, <1>9 DEF child, os, given, Lines, SameFate
<1>10. CASE ReapFailed(i)
  <2>1. /\ Fails(f) /\ FreeChild(i, 2) /\ UNCHANGED <<child, os>>
        /\ pc' = "die" \/ (pc' = "linear" /\ file' = file)
    BY <1>4, <1>6, <1>10 DEF ReapFailed, AfterReap
  <2>2. Ended(f, 2)'
    <3>1. \A j \in 1..MaxLines : command'[<<f, j>>] # "live"
      BY <1>5, <2>1 DEF os
    <3>2. Failed(f)'
      BY <1>2, <1>5, <2>1
         DEF Failed, Harmless, Fate, Untouched, Ignored, Lines, given, child, os
    <3> QED BY <3>1, <3>2 DEF Ended, Verdict
  <2> QED BY <1>2, <1>8, <1>9, <2>1, <2>2
<1>11. CASE ReapFinished(i)
  <2>1. /\ ~Fails(f) /\ ~HasNextCommand(f) /\ FreeChild(i, 0)
        /\ UNCHANGED <<child, file, os>> /\ pc' = "linear"
    BY <1>4, <1>6, <1>11 DEF ReapFinished, AfterReap
  <2>2. Ended(f, 0)'
    <3>1. \A j \in 1..MaxLines : command'[<<f, j>>] # "live"
      BY <1>5, <2>1 DEF os
    <3>2. mode' # "print" => \A j \in 1..Len(Lines(f)') : Harmless(f, j)'
      BY <1>2, <1>5, <2>1 DEF Harmless, Fate, Ignored, Lines, given, child, os
    <3> QED BY <3>1, <3>2 DEF Ended, Verdict
  <2> QED BY <1>2, <1>8, <1>9, <2>1, <2>2
<1>12. CASE ReapAndContinue(i)
  <2>1. PICK result \in {"running", "won", "asked", "lost"} :
           /\ StartJobCommand(f, result)
           /\ \/ result = "running" /\ UNCHANGED <<target, chains, pc>>
              \/ /\ result # "running"
                 /\ FreeChild(i, StatusOf(result))
                 /\ pc' = "linear"
    BY <1>4, <1>6, <1>12 DEF ReapAndContinue, AfterReap
  <2>2. file' = file /\ ~Fails(f)
    BY <1>4, <1>12 DEF ReapAndContinue
  <2>3. /\ \A g \in Files \ {f} :
              /\ command_line'[g] = command_line[g]
              /\ \A j \in 1..MaxLines : SameFate(g, j)
        /\ result = "running" =>
              /\ Underway(f)'
              /\ \/ /\ Lines(f)'[command_line'[f] - 1].kind = "builtin"
                    /\ builtin_cmd_running' /\ proc_array' = << >>
                 \/ /\ Lines(f)'[command_line'[f] - 1].kind = "process"
                    /\ ~builtin_cmd_running'
                    /\ proc_array' = << <<f, command_line'[f] - 1>> >>
        /\ result # "running" =>
              /\ \A status : status = StatusOf(result) => Ended(f, status)'
              /\ proc_array' = << >>
    BY <1>2, <1>5, <2>1, <2>2, StartsNext
  <2>4. CASE result = "running"
    <3>1. UNCHANGED <<target, chains, pc>>
      BY <2>1, <2>4
    <3>2. \A g \in Files \ {f} : Progress(g)'
      BY <1>7, <2>3, <3>1 DEF target
    <3>3. Progress(f)'
      BY <1>6, <2>3, <2>4, <3>1 DEF Progress, target
    <3>4. /\ Attends(file, command_line[file] - 1)'
          /\ pc' = "linear" /\ command_state'[file'] = "running"
      BY <1>2, <1>4, <1>6, <2>2, <2>3, <2>4, <3>1 DEF Attends, target
    <3>5. OneChild'
      BY <1>2, <1>3, <1>6, <2>2, <3>1, <3>4
         DEF OneChild, Attending, chains, shell
    <3> QED BY <3>2, <3>3, <3>5
  <2>5. CASE result # "running"
    <3>1. PICK status : status = StatusOf(result)
      OBVIOUS
    <3>2. Ended(f, status)' /\ FreeChild(i, status)
      BY <2>1, <2>3, <2>5, <3>1
    <3> QED BY <1>8, <2>1, <2>2, <2>3, <2>5, <3>2
  <2> QED BY <2>4, <2>5
<1> QED BY <1>1, <1>10, <1>11, <1>12

(* A wait finds the process of the line, or of $(shell), dead.             *)
LEMMA WaitForChildSerial ==
  ASSUME IInv, OneChild, \A f \in Files : Progress(f), WaitForChild
  PROVE  OneChild' /\ \A f \in Files : Progress(f)'
PROOF
<1>1. /\ TypeOK /\ ~dead.seen /\ Blocked
      /\ UNCHANGED <<given, target, chains, child, shell, pc, file>>
  BY DEF WaitForChild, IInv
<1>2. CASE /\ builtin_cmd_running \/ proc_array = << >>
           /\ dead' = [NoDead EXCEPT !.seen = TRUE] /\ UNCHANGED os
  <2>1. dead'.seen /\ ~dead'.failed /\ dead'.pid = NoPid
    BY <1>2 DEF NoDead
  <2>2. \A f \in Files : Progress(f)'
    BY <1>1, <1>2, QuietStep DEF child, os
  <2>3. CASE Attending
    <3>1. pc = "linear" /\ file \in Files
      BY <1>1, <2>3 DEF Attending, TypeOK, InNewJob
    <3>2. Attends(file, command_line[file] - 1)
      BY <2>3 DEF OneChild
    <3>3. builtin_cmd_running
      BY <1>1, <1>2, <3>2 DEF Attends
    <3>4. Attends(file, command_line[file] - 1)'
      BY <1>1, <1>2, <2>1, <3>2, <3>3 DEF Attends, child, given, os, Lines
    <3> QED BY <1>1, <2>2, <2>3, <3>1, <3>4
            DEF OneChild, Attending, chains, shell, target
  <2>4. CASE ~Attending
    <3>1. pc = "shell" /\ ~shell_function_completed
      <4>1. pc # "reap"
        BY DEF OneChild
      <4>2. ~(pc = "slots" /\ SlotsFull)
        BY <2>4, EmptySeq DEF OneChild, SlotsFull, IInv, Accounting
      <4>3. ~(pc = "die" /\ job_slots_used > 0)
        BY <2>4, EmptySeq DEF OneChild, IInv, Accounting
      <4> QED BY <1>1, <2>4, <4>1, <4>2, <4>3 DEF Blocked, Attending
    <3>2. file \in Files /\ file # NoFile
      BY <1>1, <3>1, FilesAssumption DEF TypeOK, InNewJob
    <3>3. dead'.pid # <<file, 0>>
      BY <2>1, <3>2 DEF NoPid
    <3>4. AwaitsShell'
      BY <1>1, <1>2, <2>4, <3>1, <3>3 DEF OneChild, AwaitsShell, os, shell
    <3> QED BY <1>1, <2>2, <2>4, <3>1, <3>4
            DEF OneChild, Attending, chains, shell, target
  <2> QED BY <2>3, <2>4
<1>3. ASSUME ~builtin_cmd_running, proc_array # << >>,
             NEW p \in Pids, OS!ProcessWaitForAny(p),
             dead' = [pid |-> p, failed |-> OS!BadExit(p), seen |-> TRUE]
      PROVE  OneChild' /\ \A f \in Files : Progress(f)'
  <2>1. dead'.seen /\ dead'.pid = p /\ (dead'.failed <=> OS!BadExit(p))
    BY <1>3 DEF OS!BadExit
  <2>2. CASE Attending
    <3>1. pc = "linear" /\ file \in Files
      BY <1>1, <2>2 DEF Attending, TypeOK, InNewJob
    <3>2. PICK k \in 1..Len(Lines(file)) : k = command_line[file] - 1
      BY <2>2, <3>1 DEF Attending, Progress, Underway
    <3>3. Attends(file, k)
      BY <2>2, <3>2 DEF OneChild
    <3>4. Lines(file)[k].kind = "process" /\ proc_array = << <<file, k>> >>
      BY <1>1, <1>3, <3>3 DEF Attends
    <3>5. <<file, k>> \in Pids
      BY <1>1, <3>1, RecipeLength
    <3>6. /\ p = <<file, k>> /\ command[<<file, k>>] # "live"
          /\ proc_array' = << >> /\ UNCHANGED command
      BY <1>1, <1>3, <3>4, <3>5, WaitsForOne
    <3>7. \A f \in Files : Progress(f)'
      BY <1>1, <3>6, QuietStep DEF child
    <3>8. Attends(file, command_line[file] - 1)'
      <4>1. (command_line[file] - 1)' = k /\ file' = file /\ Lines(file)' = Lines(file)
        BY <1>1, <3>2 DEF child, given, Lines
      <4>2. /\ ~builtin_cmd_running' /\ dead'.pid = <<file, k>> /\ dead'.seen
            /\ dead'.failed <=> OS!BadExit(<<file, k>>)'
        BY <1>1, <1>3, <2>1, <3>6 DEF child, OS!BadExit
      <4> QED BY <3>4, <3>6, <4>1, <4>2 DEF Attends, OS!BadExit
    <3> QED BY <1>1, <2>2, <3>1, <3>7, <3>8
            DEF OneChild, Attending, chains, shell, target
  <2>3. CASE ~Attending
    <3>1. pc = "shell" /\ proc_array = << <<file, 0>> >> /\ ~shell_function_completed
      BY <1>3, <2>3 DEF OneChild, AwaitsShell
    <3>2. <<file, 0>> \in Pids
      BY <1>1, <3>1, RecipesAssumption DEF TypeOK, InNewJob, Pids
    <3>3. proc_array' = << >> /\ UNCHANGED command
      BY <1>1, <1>3, <3>1, <3>2, WaitsForOne
    <3>4. \A f \in Files : Progress(f)'
      BY <1>1, <3>3, QuietStep DEF child
    <3>5. AwaitsShell'
      BY <1>1, <3>1, <3>3 DEF AwaitsShell, shell
    <3> QED BY <1>1, <2>3, <3>1, <3>4, <3>5
            DEF OneChild, Attending, chains, shell, target
  <2> QED BY <2>2, <2>3
<1> QED BY <1>2, <1>3 DEF WaitForChild

(* A process ends at any time; it is that of the line attended to.         *)
LEMMA CommandExitsSerial ==
  ASSUME IInv, OneChild, \A f \in Files : Progress(f), CommandExits
  PROVE  OneChild' /\ \A f \in Files : Progress(f)'
PROOF
<1>1. PICK p \in Pids : OS!ProcessExit(p)
  BY DEF CommandExits
<1>2. /\ UNCHANGED <<given, target, chains, child, shell, dead, pc, file>>
      /\ UNCHANGED proc_array /\ TypeOK
  BY <1>1 DEF CommandExits, OS!ProcessExit, IInv
<1>3. /\ command[p] = "live" /\ command'[p] \in {"won", "lost"}
      /\ \A q \in Pids \ {p} : command'[q] = command[q]
  BY <1>1, <1>2 DEF OS!ProcessExit, TypeOK, OS!SubProcTypeOK
<1>4. MaxLines \in Nat
  BY RecipesAssumption
<1>5. ASSUME NEW f \in Files PROVE Progress(f)'
  <2>1. CASE \A j \in 1..MaxLines : p # <<f, j>>
    <3>1. \A j \in 1..MaxLines : <<f, j>> \in Pids
      BY <1>4 DEF Pids
    <3>2. \A j \in 1..MaxLines : SameFate(f, j)
      BY <1>2, <1>3, <2>1, <3>1 DEF SameFate, child
    <3> QED BY <1>2, <3>2, Frame DEF target, child
  <2>2. ASSUME NEW k \in 1..MaxLines, p = <<f, k>> PROVE Progress(f)'
    <3>1. ~Untouched(f, k) /\ ~Over(f, k)
      BY <1>3, <2>2 DEF Untouched, Over
    <3>2. command_state[f] = "running"
      <4>1. command_state[f] \in States
        BY <1>2 DEF TypeOK
      <4>2. UpTo(f, 1) => Untouched(f, k)
        BY DEF UpTo
      <4>3. ~Ended(f, update_status[f])
        BY <1>3, <2>2 DEF Ended
      <4> QED BY <3>1, <4>1, <4>2, <4>3 DEF Progress, States
    <3>3. Underway(f)
      BY <3>2 DEF Progress
    <3>4. k = command_line[f] - 1 /\ k \in 1..Len(Lines(f))
      <4>1. command_line[f] - 1 \in Int
        BY <1>2 DEF TypeOK
      <4> QED BY <3>1, <3>3, <4>1 DEF Underway
    <3>5. \A j \in 1..MaxLines : j # k => SameFate(f, j)
      <4>1. \A j \in 1..MaxLines : <<f, j>> \in Pids
        BY <1>4 DEF Pids
      <4> QED BY <1>2, <1>3, <2>2, <4>1 DEF SameFate, child
    <3>6. Lines(f)' = Lines(f) /\ builtin'[<<f, k>>] = builtin[<<f, k>>]
      BY <1>2 DEF given, child, Lines
    <3>7. Executing(f, k)'
      BY <1>3, <2>2, <3>3, <3>4, <3>6 DEF Underway, Executing
    <3>8. Len(Lines(f)) \in Nat /\ Len(Lines(f)) <= MaxLines
      BY <1>2, RecipeLength
    <3>9. \A j \in 1..(k - 1) : Over(f, j)'
      <4> TAKE j \in 1..(k - 1)
      <4>1. SameFate(f, j) /\ Over(f, j)
        BY <3>3, <3>4, <3>5, <3>8, <1>4 DEF Underway
      <4> QED BY <1>2, <4>1, SameLine
    <3>10. \A j \in (k + 1)..MaxLines : Untouched(f, j)'
      <4> TAKE j \in (k + 1)..MaxLines
      <4>1. SameFate(f, j) /\ Untouched(f, j)
        BY <3>3, <3>4, <3>5, <3>8, <1>4 DEF Underway
      <4> QED BY <1>2, <4>1, SameLine
    <3>11. Underway(f)'
      <4>1. (command_line[f] - 1)' = k
        BY <1>2, <3>4 DEF child
      <4> QED BY <3>4, <3>6, <3>7, <3>9, <3>10, <4>1 DEF Underway, Executing
    <3> QED BY <1>2, <3>2, <3>11 DEF Progress, target
  <2> QED BY <2>1, <2>2
<1>6. OneChild'
  <2>1. CASE Attending
    <3>1. pc = "linear" /\ file \in Files
      BY <1>2, <2>1 DEF Attending, TypeOK, InNewJob
    <3>2. PICK k \in 1..Len(Lines(file)) : k = command_line[file] - 1
      BY <2>1, <3>1 DEF Attending, Progress, Underway
    <3>3. Attends(file, k)
      BY <2>1, <3>2 DEF OneChild
    <3>4. <<file, k>> \in Pids
      BY <1>2, <3>1, RecipeLength
    <3>5. ~builtin_cmd_running /\ dead.seen =>
             command'[<<file, k>>] = command[<<file, k>>]
      BY <1>3, <3>3, <3>4 DEF Attends
    <3>6. Attends(file, command_line[file] - 1)'
      <4>1. (command_line[file] - 1)' = k /\ file' = file /\ Lines(file)' = Lines(file)
        BY <1>2, <3>2 DEF child, given, Lines
      <4> QED BY <1>2, <3>3, <3>5, <4>1 DEF Attends, OS!BadExit, child
    <3> QED BY <1>2, <2>1, <3>1, <3>6
            DEF OneChild, Attending, chains, shell, target
  <2>2. CASE ~Attending
    BY <1>2, <2>2 DEF OneChild, Attending, AwaitsShell, chains, shell, target
  <2> QED BY <2>1, <2>2
<1> QED BY <1>5, <1>6

(* The steps that only move the thread.                                    *)
LEMMA OtherStepsSerial ==
  ASSUME IInv, OneChild, \A f \in Files : Progress(f),
         \/ UNCHANGED vars
         \/ \E f \in Files : NewJob(f)
         \/ StartWaitingJobs \/ ExpandLines \/ ShellCompleted
         \/ FinishedLinearly \/ NothingToReap \/ ReapShellFunction
         \/ ReapUnknown \/ NextPass \/ GoalsDone \/ GiveUp \/ Exit
  PROVE  OneChild' /\ \A f \in Files : Progress(f)'
PROOF
<1>1. TypeOK
  BY DEF IInv
<1>2. ASSUME UNCHANGED <<given, target, child, os>>
      PROVE  \A f \in Files : Progress(f)'
  BY <1>1, <1>2, QuietStep DEF child, os
<1>3. ASSUME UNCHANGED <<given, target, chains, child, shell, dead, os>>,
             ~Attending, ~Attending', pc # "shell", pc' # "shell",
             pc' \notin {"kick_pass", "reap"}
      PROVE  OneChild' /\ \A f \in Files : Progress(f)'
  BY <1>2, <1>3 DEF OneChild, chains, shell, os
<1>4. CASE UNCHANGED vars
  <2>1. (\A f \in Files : Progress(f)')
    BY <1>2, <1>4 DEF vars
  <2>2. CASE Attending
    BY <1>4, <2>1, <2>2
       DEF vars, OneChild, Attending, Attends, Lines, given, target, chains,
           child, shell, os, OS!BadExit
  <2>3. CASE ~Attending
    BY <1>4, <2>1, <2>3
       DEF vars, OneChild, Attending, AwaitsShell, given, target, chains,
           child, shell, os
  <2> QED BY <2>2, <2>3
<1>5. ASSUME NEW f \in Files, NewJob(f)
      PROVE  OneChild' /\ \A g \in Files : Progress(g)'
  BY <1>3, <1>5 DEF NewJob, Attending
<1>6. CASE StartWaitingJobs
  <2>1. waiting_jobs = << >> /\ pc = "kick"
    BY <1>6 DEF StartWaitingJobs, OneChild
  <2>2. pc' = "expand" /\ UNCHANGED <<given, target, chains, child, shell, dead, os>>
    BY <1>6, <2>1 DEF StartWaitingJobs
  <2> QED BY <1>3, <2>1, <2>2 DEF Attending
<1>7. CASE ExpandLines
  <2>1. /\ pc = "expand" /\ ~Attending /\ file \in Files
        /\ proc_array = << >> /\ ~dead.seen /\ shell_function_pid = NoPid
        /\ UNCHANGED <<given, target, chains, child, dead, file>>
    BY <1>1, <1>7 DEF ExpandLines, OneChild, Attending, TypeOK, InNewJob
  <2>2. CASE pc' = "slots" /\ UNCHANGED <<shell, os>>
    BY <1>3, <2>1, <2>2 DEF Attending
  <2>3. CASE OS!OpenPipe(<<file, 0>>) \/ OS!ProcessEasyRefused(<<file, 0>>)
    <3>1. <<file, 0>> \in Pids /\ MaxLines \in Nat
      BY <2>1, RecipesAssumption DEF Pids
    <3>2. \A f \in Files : \A j \in 1..MaxLines :
             <<f, j>> \in Pids /\ <<f, j>> # <<file, 0>>
      BY <3>1 DEF Pids
    <3>3. \A f \in Files : \A j \in 1..MaxLines :
             command'[<<f, j>>] = command[<<f, j>>]
      BY <1>1, <2>3, <3>2
         DEF OS!OpenPipe, OS!ProcessEasyRefused, TypeOK, OS!SubProcTypeOK
    <3>4. \A f \in Files : Progress(f)'
      BY <1>1, <2>1, <3>3, QuietStep DEF child
    <3>5. CASE pc' = "slots"
      <4>1. OS!ProcessEasyRefused(<<file, 0>>) /\ UNCHANGED shell_function_pid
        <5>1. recipe[file].shell \/ ~recipe[file].shell
          OBVIOUS
        <5>2. ASSUME ~recipe[file].shell
              PROVE  UNCHANGED <<shell, os>>
          BY <1>7, <5>2 DEF ExpandLines
        <5>3. ~UNCHANGED os \/ OS!ProcessEasyRefused(<<file, 0>>)
          <6>1. ASSUME OS!OpenPipe(<<file, 0>>), UNCHANGED os PROVE FALSE
            <7>1. Len(proc_array) = 0 /\ Len(Append(proc_array, <<file, 0>>)) = 1
              BY <2>1
            <7>2. ~OS!Full
              BY <7>1, WaitSlotsAssumption DEF OS!Full
            <7> QED BY <6>1, <7>1, <7>2 DEF OS!OpenPipe, os
          <6> QED BY <2>3, <6>1
        <5> QED BY <1>7, <3>5, <5>2, <5>3 DEF ExpandLines, shell, os
      <4>2. proc_array' = << >>
        BY <2>1, <4>1 DEF OS!ProcessEasyRefused
      <4> QED BY <2>1, <3>4, <3>5, <4>1, <4>2
              DEF OneChild, Attending, chains, target
    <3>6. CASE pc' = "shell"
      <4>1. /\ OS!OpenPipe(<<file, 0>>) /\ shell_function_pid' = <<file, 0>>
            /\ shell_function_completed' = FALSE
        BY <1>7, <3>6 DEF ExpandLines
      <4>2. proc_array' = << <<file, 0>> >>
        <5>1. ~OS!Full
          BY <2>1, EmptySeq, WaitSlotsAssumption DEF OS!Full
        <5> QED BY <2>1, <4>1, <5>1 DEF OS!OpenPipe
      <4>3. AwaitsShell'
        BY <2>1, <4>1, <4>2 DEF AwaitsShell
      <4> QED BY <2>1, <3>4, <3>6, <4>1, <4>3
              DEF OneChild, Attending, chains, target
    <3> QED BY <1>7, <3>5, <3>6 DEF ExpandLines
  <2> QED BY <1>7, <2>2, <2>3 DEF ExpandLines
<1>8. CASE ShellCompleted
  <2>1. /\ pc = "shell" /\ ~Attending /\ shell_function_completed
        /\ pc' = "slots" /\ shell_function_pid' = NoPid
        /\ UNCHANGED <<given, target, chains, child, dead, file, os>>
    BY <1>8 DEF ShellCompleted, Attending
  <2>2. proc_array = << >> /\ ~dead.seen
    BY <2>1 DEF OneChild, AwaitsShell
  <2> QED BY <1>2, <2>1, <2>2 DEF OneChild, Attending, chains, os
<1>9. CASE FinishedLinearly
  BY <1>3, <1>9 DEF FinishedLinearly, Attending
<1>10. CASE NothingToReap
  BY <1>10 DEF NothingToReap, OneChild
<1>11. CASE ReapShellFunction
  <2>1. /\ dead.seen /\ ~builtin_cmd_running /\ dead.pid = shell_function_pid
        /\ shell_function_completed' = TRUE /\ dead' = NoDead /\ ~dead'.seen
        /\ UNCHANGED <<given, target, chains, child, shell_function_pid, file, os>>
    BY <1>11 DEF ReapShellFunction, IsShellFunction, NoDead
  <2>2. ~Attending
    <3>1. SUFFICES ASSUME Attending PROVE FALSE
      OBVIOUS
    <3>2. file \in Files /\ pc = "linear"
      BY <1>1, <3>1 DEF Attending, TypeOK, InNewJob
    <3>3. dead.pid = <<file, command_line[file] - 1>> /\ dead.pid = NoPid
      BY <2>1, <3>1, <3>2 DEF OneChild, Attends
    <3> QED BY <3>2, <3>3, FilesAssumption DEF NoPid
  <2>3. pc = "shell" /\ pc' = "shell" /\ dead.pid = <<file, 0>>
    BY <1>11, <2>1, <2>2 DEF OneChild, ReapShellFunction, AfterReap
  <2>4. proc_array = << >>
    BY <2>1, <2>2, <2>3 DEF OneChild, AwaitsShell
  <2>5. AwaitsShell'
    BY <2>1, <2>4 DEF AwaitsShell, os
  <2> QED BY <1>2, <2>1, <2>2, <2>3, <2>5
          DEF OneChild, Attending, chains, target
<1>12. CASE ReapUnknown
  <2>1. /\ dead.seen /\ children = << >> /\ dead' = NoDead /\ ~dead'.seen
        /\ UNCHANGED <<given, target, chains, child, shell, pc, file, os>>
    BY <1>12 DEF ReapUnknown, NoDead
  <2>2. ~Attending /\ pc = "shell"
    BY <2>1 DEF OneChild
  <2>3. AwaitsShell'
    BY <2>1, <2>2 DEF OneChild, AwaitsShell, shell, os
  <2> QED BY <1>2, <2>1, <2>2, <2>3
          DEF OneChild, Attending, chains, target, shell
<1>13. CASE NextPass
  <2>1. PICK f \in Files : command_state[f] = "running" /\ pc = "pass"
    BY <1>13 DEF NextPass
  <2> QED BY <2>1, OnlyRunning DEF Attending
<1>14. CASE GoalsDone
  BY <1>3, <1>14 DEF GoalsDone, Attending
<1>15. CASE GiveUp
  BY <1>3, <1>15 DEF GiveUp, Attending
<1>16. CASE Exit
  BY <1>3, <1>16 DEF Exit, Attending
<1> QED
  BY <1>4, <1>5, <1>6, <1>7, <1>8, <1>9, <1>10, <1>11, <1>12, <1>13, <1>14,
     <1>15, <1>16

LEMMA SerialStep ==
  ASSUME OneAtATime, SerialInv, [Next]_vars
  PROVE  SerialInv'
PROOF
<1>1. IInv /\ OneChild /\ \A f \in Files : Progress(f)
  BY DEF SerialInv
<1>2. IInv'
  BY <1>1, InvStep
<1>3. OneChild' /\ \A f \in Files : Progress(f)'
  BY <1>1, StartJobSerial, ReapChildSerial, WaitForChildSerial,
     CommandExitsSerial, OtherStepsSerial DEF Next, Make
<1> QED BY <1>2, <1>3 DEF SerialInv

(* The inductive invariant of a make that runs one job at a time.          *)
THEOREM SerialInvariance ==
  ASSUME OneAtATime
  PROVE  Spec => []SerialInv
PROOF
<1>1. Init => SerialInv
  BY InvInit, SerialInit DEF SerialInv
<1>2. SerialInv /\ [Next]_vars => SerialInv'
  BY SerialStep
<1> QED BY <1>1, <1>2, PTL DEF Spec

(* A target succeeds only if each line of its recipe ran and was harmless, *)
(* and fails only if one was not, after which nothing more of it ran.  The *)
(* premise on built-ins is needed (the configuration IgnoredBuiltin).      *)
THEOREM HonestVerdictHolds ==
  ASSUME OneAtATime, BuiltinsUnforgiven
  PROVE  Spec => [](mode = "run" => HonestVerdict)
PROOF
<1>1. ASSUME SerialInv, mode = "run", NEW f \in Files,
             command_state[f] = "finished"
      PROVE  \/ /\ update_status[f] = 0
                /\ \A k \in 1..Len(Lines(f)) : Harmless(f, k)
             \/ /\ update_status[f] = 2
                /\ \E k \in 1..Len(Lines(f)) :
                      /\ ~Harmless(f, k)
                      /\ Fate(f, k) \notin {"new", "live"}
                      /\ \A j \in (k + 1)..Len(Lines(f)) :
                            Lines(f)[j].kind = "blank" \/ Fate(f, j) = "new"
  <2>1. Verdict(f, update_status[f])
    BY <1>1 DEF SerialInv, Progress, Ended
  <2>2. ~Asked(f)
    BY <1>1 DEF Asked
  <2>3. CASE update_status[f] = 2 /\ Failed(f)
    <3>1. PICK k \in 1..Len(Lines(f)) :
             /\ ~Harmless(f, k)
             /\ Fate(f, k) \notin {"new", "live"}
             /\ \A j \in (k + 1)..MaxLines : Untouched(f, j)
      BY <2>3 DEF Failed
    <3>2. Len(Lines(f)) \in Nat /\ Len(Lines(f)) <= MaxLines /\ MaxLines \in Nat
      BY <1>1, RecipeLength DEF SerialInv, IInv
    <3>3. \A j \in (k + 1)..Len(Lines(f)) : j \in (k + 1)..MaxLines
      BY <3>2
    <3>4. \A j \in (k + 1)..Len(Lines(f)) : Fate(f, j) = "new"
      BY <3>1, <3>3 DEF Untouched, Fate
    <3> QED BY <2>3, <3>1, <3>4
  <2> QED BY <2>1, <2>2, <2>3 DEF Verdict
<1>2. SerialInv => (mode = "run" => HonestVerdict)
  BY <1>1 DEF HonestVerdict
<1> QED BY <1>2, SerialInvariance, PTL

(* A command still executing is the current line of a running target.      *)
THEOREM AttendedHolds ==
  ASSUME OneAtATime
  PROVE  Spec => []Attended
PROOF
<1>1. ASSUME SerialInv, NEW f \in Files, NEW k \in 1..MaxLines,
             command[<<f, k>>] = "live"
      PROVE  command_state[f] = "running" /\ k = command_line[f] - 1
  <2>1. Progress(f) /\ TypeOK
    BY <1>1 DEF SerialInv, IInv
  <2>2. ~Untouched(f, k) /\ ~Over(f, k)
    BY <1>1 DEF Untouched, Over
  <2>3. command_state[f] = "running"
    <3>1. command_state[f] \in States
      BY <2>1 DEF TypeOK
    <3>2. UpTo(f, 1) => Untouched(f, k)
      BY DEF UpTo
    <3>3. ~Ended(f, update_status[f])
      BY <1>1 DEF Ended
    <3> QED BY <2>1, <2>2, <3>1, <3>2, <3>3 DEF Progress, States
  <2>4. Underway(f) /\ command_line[f] - 1 \in Int
    BY <2>1, <2>3 DEF Progress, TypeOK
  <2>5. k = command_line[f] - 1
    BY <2>2, <2>4 DEF Underway
  <2> QED BY <2>3, <2>5
<1>2. SerialInv => Attended
  BY <1>1 DEF Attended
<1> QED BY <1>2, SerialInvariance, PTL

(* make does not exit over a running command.                              *)
THEOREM NoneLeftRunningHolds ==
  ASSUME OneAtATime
  PROVE  Spec => []NoneLeftRunning
PROOF
<1>1. ASSUME SerialInv, Attended, pc = "exit"
      PROVE  \A f \in Files, k \in 1..MaxLines : command[<<f, k>>] # "live"
  <2>1. \A f \in Files : command_state[f] # "running"
    BY <1>1, OnlyRunning DEF SerialInv, Attending
  <2> QED BY <1>1, <2>1 DEF Attended
<1>2. SerialInv /\ Attended => NoneLeftRunning
  BY <1>1 DEF NoneLeftRunning
<1> QED BY <1>2, SerialInvariance, AttendedHolds, PTL

(* The answer of -q is what is left to do, and nothing of that was done.   *)
THEOREM HonestAnswerHolds ==
  ASSUME OneAtATime
  PROVE  Spec => []HonestAnswer
PROOF
<1>1. ASSUME SerialInv, mode = "question", NEW f \in Files,
             update_status[f] \in {0, 1}
      PROVE  /\ update_status[f] = 0 <=>
                   {k \in 1..Len(Lines(f)) : ~Harmless(f, k)} = {}
             /\ \A k \in {j \in 1..Len(Lines(f)) : ~Harmless(f, j)} :
                   Fate(f, k) = "new"
  <2>1. Progress(f) /\ TypeOK
    BY <1>1 DEF SerialInv, IInv
  <2>2. Verdict(f, update_status[f])
    BY <1>1, <2>1 DEF Progress, Ended
  <2>3. CASE update_status[f] = 0
    BY <2>2, <2>3 DEF Verdict
  <2>4. CASE update_status[f] = 1
    <3>1. PICK k \in 1..Len(Lines(f)) :
             Lines(f)[k].kind = "process" /\ UpTo(f, k)
      BY <2>2, <2>4 DEF Verdict, Asked
    <3>2. Len(Lines(f)) \in Nat /\ Len(Lines(f)) <= MaxLines /\ MaxLines \in Nat
      BY <2>1, RecipeLength
    <3>3. \A j \in k..Len(Lines(f)) : Fate(f, j) = "new"
      BY <3>1, <3>2 DEF UpTo, Untouched, Fate
    <3>4. ~Harmless(f, k)
      BY <3>1, <3>2, <3>3 DEF Harmless
    <3>5. \A j \in 1..(k - 1) : Harmless(f, j)
      BY <1>1, <3>1 DEF UpTo, Over
    <3>6. \A j \in 1..Len(Lines(f)) : j \in 1..(k - 1) \/ j \in k..Len(Lines(f))
      BY <3>2
    <3> QED BY <2>4, <3>3, <3>4, <3>5, <3>6
  <2> QED BY <1>1, <2>3, <2>4
<1>2. SerialInv => HonestAnswer
  BY <1>1 DEF HonestAnswer
<1> QED BY <1>2, SerialInvariance, PTL

-----------------------------------------------------------------------------
(* The refinement of RecipeRun                                             *)

(* A line has the fate of its kind and no other: built-ins are never       *)
(* launched as processes, nor the other way round.                         *)
OwnKind ==
    \A f \in Files : \A k \in 1..Len(Lines(f)) :
        /\ Lines(f)[k].kind # "builtin" => builtin[<<f, k>>] = "new"
        /\ Lines(f)[k].kind # "process" => command[<<f, k>>] = "new"

LEMMA StartJobCommandKind ==
  ASSUME TypeOK, OwnKind, UNCHANGED given, NEW f \in Files, NEW result,
         StartJobCommand(f, result)
  PROVE  OwnKind'
PROOF
<1>1. PICK k \in command_line[f]..(Len(Lines(f)) + 1) :
         NoMoreCommands(f, k, result) \/ RunLine(f, k, result)
  BY DEF StartJobCommand
<1>2. \A g \in Files : Lines(g)' = Lines(g)
  BY DEF given, Lines
<1>3. Len(Lines(f)) \in Nat /\ k \in Int
  BY RecipeLength DEF TypeOK
<1>4. ASSUME NEW fate, RunBuiltins(f, k, fate),
             \/ k > Len(Lines(f)) \/ fate = "new"
             \/ Lines(f)[k].kind = "builtin",
             NEW g \in Files, NEW j \in 1..Len(Lines(g)),
             Lines(g)[j].kind # "builtin"
      PROVE  builtin'[<<g, j>>] = "new"
  <2>1. <<g, j>> \in Pids /\ <<g, j>>[1] = g /\ <<g, j>>[2] = j
    BY RecipeLength
  <2>2. builtin'[<<g, j>>] = fate \/ builtin'[<<g, j>>] = builtin[<<g, j>>]
    BY <1>4, <2>1 DEF RunBuiltins
  <2>3. builtin[<<g, j>>] = "new"
    BY <1>4 DEF OwnKind
  <2>4. CASE g = f /\ j = k
    <3>1. k \in 1..Len(Lines(f)) /\ Lines(f)[k].kind # "builtin"
      BY <1>4, <2>4
    <3>2. fate = "new"
      BY <1>3, <1>4, <3>1
    <3> QED BY <2>2, <2>3, <3>2
  <2>5. CASE ~(g = f /\ j = k)
    BY <1>4, <2>1, <2>3, <2>5 DEF RunBuiltins
  <2> QED BY <2>4, <2>5
<1>5. ASSUME UNCHANGED command \/ /\ k \in 1..Len(Lines(f))
                                  /\ Lines(f)[k].kind = "process"
                                  /\ \A p \in Pids : p # <<f, k>> =>
                                        command'[p] = command[p],
             NEW g \in Files, NEW j \in 1..Len(Lines(g)),
             Lines(g)[j].kind # "process"
      PROVE  command'[<<g, j>>] = "new"
  <2>1. <<g, j>> \in Pids /\ command[<<g, j>>] = "new"
    BY <1>5, RecipeLength DEF OwnKind, Pids
  <2> QED BY <1>5, <2>1
<1>6. CASE NoMoreCommands(f, k, result)
  <2>1. k > Len(Lines(f)) /\ RunBuiltins(f, k, "new") /\ UNCHANGED command
    BY <1>6 DEF NoMoreCommands, os
  <2> QED BY <1>2, <1>4, <1>5, <2>1 DEF OwnKind
<1>7. CASE RunLine(f, k, result)
  <2>1. k \in 1..Len(Lines(f))
    BY <1>1, <1>3, <1>7 DEF RunLine, TypeOK
  <2>2. CASE BuiltinLine(f, k, result)
    <3>1. PICK fate \in {"won", "lost"} : RunBuiltins(f, k, fate)
      BY <2>2 DEF BuiltinLine
    <3>2. Lines(f)[k].kind = "builtin" /\ UNCHANGED command
      BY <2>2 DEF BuiltinLine, os
    <3> QED BY <1>2, <1>4, <1>5, <3>1, <3>2 DEF OwnKind
  <2>3. CASE ProcessLine(f, k, result)
    <3>1. Lines(f)[k].kind = "process" /\ RunBuiltins(f, k, "new")
      BY <2>3 DEF ProcessLine
    <3>2. \A p \in Pids : p # <<f, k>> => command'[p] = command[p]
      BY <2>1, <2>3 DEF ProcessLine, OS!ProcessEasyBegun,
                        OS!ProcessEasyRefused, TypeOK, OS!SubProcTypeOK, os
    <3>3. \A g \in Files : \A j \in 1..Len(Lines(g)) :
             Lines(g)[j].kind # "builtin" => builtin'[<<g, j>>] = "new"
      BY <1>4, <3>1
    <3>4. \A g \in Files : \A j \in 1..Len(Lines(g)) :
             Lines(g)[j].kind # "process" => command'[<<g, j>>] = "new"
      BY <1>5, <2>1, <3>1, <3>2
    <3> QED BY <1>2, <3>3, <3>4 DEF OwnKind
  <2> QED BY <1>7, <2>2, <2>3 DEF RunLine
<1> QED BY <1>1, <1>6, <1>7

LEMMA KindStep ==
  ASSUME TypeOK, OwnKind, [Next]_vars
  PROVE  OwnKind'
PROOF
<1>1. UNCHANGED given /\ \A f \in Files : Lines(f)' = Lines(f)
  BY GivenKept DEF given, Lines
<1>2. CASE UNCHANGED <<builtin, command>>
  BY <1>1, <1>2 DEF OwnKind
<1>3. ASSUME NEW f \in Files, NEW others, NEW tokens,
             StartWaitingJob(f, others, tokens)
      PROVE  OwnKind'
  BY <1>1, <1>2, <1>3, StartJobCommandKind
     DEF StartWaitingJob, PutOnWaitingChain, PutOnChildrenChain, FinishAtOnce,
         child, os
<1>4. CASE StartWaitingJobs
  <2>1. CASE waiting_jobs = << >>
    BY <1>2, <1>4, <2>1 DEF StartWaitingJobs, child, os
  <2>2. CASE waiting_jobs # << >>
    <3>1. Head(waiting_jobs) \in Files
      BY <2>2, HeadTailProperties DEF TypeOK
    <3> QED BY <1>3, <1>4, <2>2, <3>1 DEF StartWaitingJobs
  <2> QED BY <2>1, <2>2
<1>5. CASE StartJob
  BY <1>3, <1>5 DEF StartJob, TypeOK, InNewJob
<1>6. CASE ReapChild
  <2>1. PICK i \in 1..Len(children) :
           ReapFailed(i) \/ ReapFinished(i) \/ ReapAndContinue(i)
    BY <1>6 DEF ReapChild
  <2>2. children[i] \in Files
    BY ElementOfSeq DEF TypeOK
  <2> QED BY <1>1, <1>2, <2>1, <2>2, StartJobCommandKind
          DEF ReapFailed, ReapFinished, ReapAndContinue, child, os
<1>7. ASSUME UNCHANGED builtin,
             \A f \in Files : \A k \in 1..Len(Lines(f)) :
                command[<<f, k>>] = "new" => command'[<<f, k>>] = "new"
      PROVE  OwnKind'
  BY <1>1, <1>7 DEF OwnKind
<1>8. \A f \in Files : \A k \in 1..Len(Lines(f)) : <<f, k>> \in Pids /\ <<f, k>>[2] # 0
  <2> TAKE f \in Files
  <2> TAKE k \in 1..Len(Lines(f))
  <2>1. <<f, k>> \in Pids
    BY RecipeLength
  <2>2. k # 0
    OBVIOUS
  <2> QED BY <2>1, <2>2
<1>9. CASE ExpandLines
  <2>1. UNCHANGED builtin /\ \A p \in Pids : p[2] # 0 => command'[p] = command[p]
    BY <1>9 DEF ExpandLines, OS!OpenPipe, OS!ProcessEasyRefused, child, os,
                TypeOK, OS!SubProcTypeOK
  <2> QED BY <1>7, <1>8, <2>1
<1>10. CASE CommandExits
  <2>1. PICK p \in Pids : OS!ProcessExit(p)
    BY <1>10 DEF CommandExits
  <2>2. /\ UNCHANGED builtin
        /\ \A q \in Pids : command[q] = "new" => command'[q] = "new"
    BY <1>10, <2>1
       DEF CommandExits, OS!ProcessExit, child, TypeOK, OS!SubProcTypeOK
  <2> QED BY <1>7, <1>8, <2>2
<1>11. CASE WaitForChild
  BY <1>2, <1>11 DEF WaitForChild, OS!ProcessWaitForAny, child, os
<1> QED
  BY <1>2, <1>4, <1>5, <1>6, <1>9, <1>10, <1>11
  DEF Next, Make, NewJob, ShellCompleted, FinishedLinearly, NothingToReap,
      ReapShellFunction, ReapUnknown, NextPass, GoalsDone, GiveUp, Exit, vars,
      child, os

(* What the abstract specification sees of a line.                         *)
RecipeFate ==
    [p \in Files \X (1..MaxLines) |->
        IF builtin[p] # "new" THEN builtin[p] ELSE command[p]]

LEMMA SeenFate ==
  ASSUME TypeOK, OwnKind, NEW f \in Files, NEW k \in 1..Len(Lines(f))
  PROVE  /\ RecipeFate[<<f, k>>] = Fate(f, k)
         /\ Recipe!Harmless(f, k) = Harmless(f, k)
PROOF
<1>1. <<f, k>> \in Files \X (1..MaxLines)
  BY RecipeLength
<1>2. RecipeFate[<<f, k>>] = IF builtin[<<f, k>>] # "new"
                             THEN builtin[<<f, k>>] ELSE command[<<f, k>>]
  BY <1>1 DEF RecipeFate
<1>3. /\ Lines(f)[k].kind # "builtin" => builtin[<<f, k>>] = "new"
      /\ Lines(f)[k].kind # "process" => command[<<f, k>>] = "new"
  BY DEF OwnKind
<1>4. RecipeFate[<<f, k>>] = Fate(f, k)
  BY <1>2, <1>3 DEF Fate
<1>5. Recipe!Harmless(f, k) <=>
         \/ Lines(f)[k].kind = "blank"
         \/ RecipeFate[<<f, k>>] = "won"
         \/ RecipeFate[<<f, k>>] \in {"lost", "stillborn"} /\ Ignored(f, k)
  BY DEF Recipe!Harmless, Recipe!Forgiven, RecipeFate, Lines, Ignored
<1>6. Recipe!Harmless(f, k) \in BOOLEAN /\ Harmless(f, k) \in BOOLEAN
  BY DEF Recipe!Harmless, Harmless
<1> QED BY <1>4, <1>5, <1>6 DEF Harmless

(* And what it sees of it after a step.                                    *)
LEMMA SeenFateNext ==
  ASSUME TypeOK', OwnKind', NEW f \in Files, NEW k \in 1..Len(Lines(f)')
  PROVE  /\ RecipeFate'[<<f, k>>] = Fate(f, k)'
         /\ Recipe!Harmless(f, k)' = Harmless(f, k)'
         /\ Recipe!Ended(f, k)' <=>
               RecipeFate'[<<f, k>>] \in {"won", "lost", "stillborn", "refused"}
PROOF
<1>1. <<f, k>> \in Files \X (1..MaxLines)
  <2>1. recipe'[f] \in Recipes
    BY DEF TypeOK
  <2>2. /\ recipe'[f].lines \in Seq(Line) /\ Len(recipe'[f].lines) <= MaxLines
        /\ MaxLines \in Nat
    BY <2>1, RecipesAssumption
  <2>3. Len(Lines(f)') \in Nat /\ Len(Lines(f)') <= MaxLines
    BY <2>2, LenProperties DEF Lines
  <2> QED BY <2>2, <2>3
<1>2. RecipeFate'[<<f, k>>] = IF builtin'[<<f, k>>] # "new"
                              THEN builtin'[<<f, k>>] ELSE command'[<<f, k>>]
  BY <1>1 DEF RecipeFate
<1>3. /\ Lines(f)'[k].kind # "builtin" => builtin'[<<f, k>>] = "new"
      /\ Lines(f)'[k].kind # "process" => command'[<<f, k>>] = "new"
  BY DEF OwnKind
<1>4. RecipeFate'[<<f, k>>] = Fate(f, k)'
  BY <1>2, <1>3 DEF Fate
<1>5. Recipe!Harmless(f, k)' <=>
         \/ Lines(f)'[k].kind = "blank"
         \/ RecipeFate'[<<f, k>>] = "won"
         \/ RecipeFate'[<<f, k>>] \in {"lost", "stillborn"} /\ Ignored(f, k)'
  BY DEF Recipe!Harmless, Recipe!Forgiven, RecipeFate, Lines, Ignored
<1>6. Recipe!Harmless(f, k)' \in BOOLEAN /\ Harmless(f, k)' \in BOOLEAN
  BY DEF Recipe!Harmless, Harmless
<1>7. Recipe!Ended(f, k)' <=>
         RecipeFate'[<<f, k>>] \in {"won", "lost", "stillborn", "refused"}
  BY DEF Recipe!Ended, RecipeFate
<1> QED BY <1>4, <1>5, <1>6, <1>7 DEF Harmless

(* StartJobCommand begins the next line that is not blank, or finds none.  *)
BeginsLine(f, k, fate, result) ==
    /\ Lines(f)[k].kind # "blank"
    /\ RecipeFate[<<f, k>>] = "new"
    /\ \A j \in 1..(k - 1) : Harmless(f, j)
    /\ RecipeFate' = [RecipeFate EXCEPT ![<<f, k>>] = fate]
    /\ \/ result = "running" /\ fate \in {"live", "stillborn", "won"}
       \/ result = "lost" /\ fate = "refused"
       \/ result = "lost" /\ fate = "lost" /\ Lines(f)[k].kind = "builtin"

LEMMA StartsLine ==
  ASSUME TypeOK, mode = "run", NEW f \in Files,
         NEW result \in {"running", "won", "asked", "lost"},
         UpTo(f, command_line[f]), StartJobCommand(f, result)
  PROVE  \/ result = "won" /\ RecipeFate' = RecipeFate
         \/ \E k \in 1..Len(Lines(f)) :
               \E fate \in {"live", "won", "lost", "stillborn", "refused"} :
                  BeginsLine(f, k, fate, result)
PROOF
<1> DEFINE n == Len(Lines(f))
           c == command_line[f]
<1>1. PICK k \in c..(n + 1) :
         StopsAt(f, k) /\ (NoMoreCommands(f, k, result) \/ RunLine(f, k, result))
  BY DEF StartJobCommand
<1>2. n \in Nat /\ n <= MaxLines /\ MaxLines \in Nat /\ c \in 1..(MaxLines + 1)
  BY RecipeLength DEF TypeOK
<1>3. \A g \in Files : \A j \in 1..MaxLines :
         /\ <<g, j>> \in Pids /\ <<g, j>>[1] = g /\ <<g, j>>[2] = j
         /\ <<g, j>> \in Files \X (1..MaxLines)
  BY <1>2 DEF Pids
<1>4. \A j \in c..(k - 1) : Lines(f)[j].kind = "blank"
  BY <1>1 DEF StopsAt, Skipped
<1>5. \A j \in c..MaxLines : Untouched(f, j)
  BY DEF UpTo
<1>6. ASSUME NEW fate, RunBuiltins(f, k, fate), NEW g \in Files,
             NEW j \in 1..MaxLines
      PROVE  builtin'[<<g, j>>] = IF g = f /\ j = k THEN fate
                                                  ELSE builtin[<<g, j>>]
  <2>1. builtin'[<<g, j>>] =
           IF g = f /\ j \in c..(k - 1) /\ Lines(f)[j].kind = "builtin" THEN "won"
           ELSE IF <<g, j>> = <<f, k>> THEN fate ELSE builtin[<<g, j>>]
    BY <1>3, <1>6 DEF RunBuiltins
  <2> QED BY <1>4, <2>1
<1> HIDE DEF n, c
<1>7. CASE NoMoreCommands(f, k, result)
  <2>1. /\ k = n + 1 /\ result = "won" /\ RunBuiltins(f, k, "new")
        /\ UNCHANGED command
    BY <1>1, <1>2, <1>7 DEF NoMoreCommands, os, n
  <2>2. \A g \in Files : \A j \in 1..MaxLines :
           builtin'[<<g, j>>] = builtin[<<g, j>>]
    <3> TAKE g \in Files
    <3> TAKE j \in 1..MaxLines
    <3>1. builtin'[<<g, j>>] = IF g = f /\ j = k THEN "new"
                                               ELSE builtin[<<g, j>>]
      BY <1>6, <2>1
    <3>2. g = f /\ j = k => builtin[<<g, j>>] = "new"
      BY <1>1, <1>2, <1>5 DEF Untouched
    <3> QED BY <3>1, <3>2
  <2>3. RecipeFate' = RecipeFate
    BY <2>1, <2>2 DEF RecipeFate
  <2> QED BY <2>1, <2>3
<1>8. CASE RunLine(f, k, result)
  <2>1. /\ k \in 1..n /\ k \in 1..MaxLines /\ k \in c..MaxLines
        /\ BuiltinLine(f, k, result) \/ ProcessLine(f, k, result)
    BY <1>1, <1>2, <1>8 DEF RunLine, n
  <2>2. RecipeFate[<<f, k>>] = "new" /\ builtin[<<f, k>>] = "new"
    BY <1>3, <1>5, <2>1 DEF Untouched, RecipeFate
  <2>3. \A j \in 1..(k - 1) : Harmless(f, j)
    <3> TAKE j \in 1..(k - 1)
    <3>1. CASE j < c
      <4>1. j \in 1..(c - 1)
        BY <1>2, <2>1, <3>1
      <4> QED BY <4>1 DEF UpTo, Over, c
    <3>2. CASE j \in c..(k - 1)
      BY <1>4, <3>2 DEF Harmless
    <3> QED BY <1>2, <2>1, <3>1, <3>2
  <2>4. ASSUME NEW fate,
               \A g \in Files : \A j \in 1..MaxLines :
                  IF g = f /\ j = k
                  THEN (IF builtin'[<<g, j>>] # "new" THEN builtin'[<<g, j>>]
                                                     ELSE command'[<<g, j>>]) = fate
                  ELSE SameFate(g, j)
        PROVE  RecipeFate' = [RecipeFate EXCEPT ![<<f, k>>] = fate]
    <3>1. ASSUME NEW p \in Files \X (1..MaxLines)
          PROVE  RecipeFate'[p] = IF p = <<f, k>> THEN fate ELSE RecipeFate[p]
      <4>1. PICK g \in Files, j \in 1..MaxLines : p = <<g, j>>
        BY <3>1
      <4>2. RecipeFate'[p] = IF builtin'[p] # "new" THEN builtin'[p]
                                                   ELSE command'[p]
        BY <3>1 DEF RecipeFate
      <4>3. RecipeFate[p] = IF builtin[p] # "new" THEN builtin[p] ELSE command[p]
        BY <3>1 DEF RecipeFate
      <4>4. CASE g = f /\ j = k
        BY <2>4, <4>1, <4>2, <4>4
      <4>5. CASE ~(g = f /\ j = k)
        <5>1. builtin'[p] = builtin[p] /\ command'[p] = command[p]
          BY <2>4, <4>1, <4>5 DEF SameFate
        <5> QED BY <4>1, <4>2, <4>3, <4>5, <5>1
      <4> QED BY <4>4, <4>5
    <3> QED BY <3>1 DEF RecipeFate
  <2>5. CASE BuiltinLine(f, k, result)
    <3>1. PICK fate \in {"won", "lost"} :
             /\ RunBuiltins(f, k, fate)
             /\ result = IF fate = "won" THEN "running" ELSE "lost"
      BY <2>5 DEF BuiltinLine
    <3>2. Lines(f)[k].kind = "builtin" /\ UNCHANGED command
      BY <2>5 DEF BuiltinLine, os
    <3>3. RecipeFate' = [RecipeFate EXCEPT ![<<f, k>>] = fate]
      <4>1. ASSUME NEW g \in Files, NEW j \in 1..MaxLines
            PROVE  IF g = f /\ j = k
                   THEN (IF builtin'[<<g, j>>] # "new" THEN builtin'[<<g, j>>]
                                                      ELSE command'[<<g, j>>]) = fate
                   ELSE SameFate(g, j)
        <5>1. builtin'[<<g, j>>] = IF g = f /\ j = k THEN fate
                                                     ELSE builtin[<<g, j>>]
          BY <1>6, <3>1
        <5>2. command' = command
          BY <3>2
        <5> QED BY <5>1, <5>2 DEF SameFate
      <4> QED BY <2>4, <4>1, Zenon
    <3>4. BeginsLine(f, k, fate, result)
      BY <2>2, <2>3, <3>1, <3>2, <3>3 DEF BeginsLine
    <3> QED BY <2>1, <3>4 DEF n
  <2>6. CASE ProcessLine(f, k, result)
    <3>1. /\ Lines(f)[k].kind = "process" /\ RunBuiltins(f, k, "new")
          /\ \/ result = "running" /\ OS!ProcessEasyBegun(<<f, k>>)
             \/ result = "lost" /\ OS!ProcessEasyRefused(<<f, k>>)
      BY <2>6 DEF ProcessLine
    <3>2. PICK fate \in {"live", "stillborn", "refused"} :
             /\ command' = [command EXCEPT ![<<f, k>>] = fate]
             /\ result = IF fate = "refused" THEN "lost" ELSE "running"
      BY <3>1 DEF OS!ProcessEasyBegun, OS!ProcessEasyRefused
    <3>3. \A g \in Files : \A j \in 1..MaxLines :
             command'[<<g, j>>] = IF g = f /\ j = k THEN fate
                                                    ELSE command[<<g, j>>]
      BY <1>3, <3>2 DEF TypeOK, OS!SubProcTypeOK
    <3>4. RecipeFate' = [RecipeFate EXCEPT ![<<f, k>>] = fate]
      <4>1. ASSUME NEW g \in Files, NEW j \in 1..MaxLines
            PROVE  IF g = f /\ j = k
                   THEN (IF builtin'[<<g, j>>] # "new" THEN builtin'[<<g, j>>]
                                                      ELSE command'[<<g, j>>]) = fate
                   ELSE SameFate(g, j)
        <5>1. builtin'[<<g, j>>] = IF g = f /\ j = k THEN "new"
                                                     ELSE builtin[<<g, j>>]
          BY <1>6, <3>1
        <5>2. command'[<<g, j>>] = IF g = f /\ j = k THEN fate
                                                     ELSE command[<<g, j>>]
          BY <3>3
        <5> QED BY <5>1, <5>2 DEF SameFate
      <4> QED BY <2>4, <4>1, Zenon
    <3>5. BeginsLine(f, k, fate, result)
      BY <2>2, <2>3, <3>1, <3>2, <3>4 DEF BeginsLine
    <3> QED BY <2>1, <3>5 DEF n
  <2> QED BY <2>1, <2>5, <2>6
<1> QED BY <1>1, <1>7, <1>8

-----------------------------------------------------------------------------
RecipeInv ==
    SerialInv /\ OwnKind /\ Attended /\ (mode = "run" => HonestVerdict)

(* Nothing the abstract specification sees changes.                        *)
LEMMA Unseen ==
  ASSUME UNCHANGED <<given, target, builtin>>,
         \A f \in Files : \A k \in 1..MaxLines :
            command'[<<f, k>>] = command[<<f, k>>]
  PROVE  UNCHANGED Recipe!vars
PROOF
<1>1. RecipeFate' = RecipeFate
  <2>1. \A p \in Files \X (1..MaxLines) :
           builtin'[p] = builtin[p] /\ command'[p] = command[p]
    OBVIOUS
  <2> QED BY <2>1 DEF RecipeFate
<1> QED BY <1>1 DEF Recipe!vars, RecipeFate, given, target

(* While no command is executing there is a job slot.                      *)
LEMMA SlotFree ==
  ASSUME TypeOK, \A f \in Files : \A k \in 1..MaxLines : command[<<f, k>>] # "live"
  PROVE  JobSlots # 0 => Cardinality(Recipe!Executing) < JobSlots
PROOF
<1>1. Recipe!Executing = {}
  <2>1. \A p \in Files \X (1..MaxLines) :
           builtin[p] # "live" /\ command[p] # "live"
    <3> TAKE p \in Files \X (1..MaxLines)
    <3>1. p \in Pids
      BY RecipesAssumption DEF Pids
    <3>2. builtin[p] # "live"
      BY <3>1 DEF TypeOK
    <3> QED BY <3>2
  <2> QED BY <2>1 DEF Recipe!Executing
<1>2. Cardinality(Recipe!Executing) = 0
  BY <1>1, FS_EmptySet
<1> QED BY <1>2, OptionsAssumption

(* A target finishes without a command being begun as its lines say.       *)
LEMMA FinishesAsSeen ==
  ASSUME RecipeInv, RecipeInv', UNCHANGED given, mode = "run",
         NEW f \in Files, NEW status, Finish(f, status),
         command_state[f] # "finished", RecipeFate' = RecipeFate,
         status = 2 => command_state[f] = "running"
  PROVE  Recipe!Succeed(f) \/ Recipe!Fail(f)
PROOF
<1>1. /\ TypeOK /\ OwnKind /\ TypeOK' /\ OwnKind'
  BY DEF RecipeInv, SerialInv, IInv
<1>2. /\ Lines(f)' = Lines(f) /\ recipe' = recipe /\ mode' = "run"
  BY DEF given, Lines
<1>3. /\ command_state' = [command_state EXCEPT ![f] = "finished"]
      /\ update_status' = [update_status EXCEPT ![f] = status]
      /\ command_state'[f] = "finished" /\ update_status'[f] = status
  BY <1>1 DEF Finish, TypeOK
<1>4. \A k \in 1..Len(Lines(f)) :
         /\ Fate(f, k)' = RecipeFate[<<f, k>>]
         /\ Harmless(f, k)' = Recipe!Harmless(f, k)
  <2> TAKE k \in 1..Len(Lines(f))
  <2>1. /\ RecipeFate'[<<f, k>>] = Fate(f, k)'
        /\ Recipe!Harmless(f, k)' = Harmless(f, k)'
    BY <1>1, <1>2, SeenFateNext
  <2>2. Recipe!Harmless(f, k)' = Recipe!Harmless(f, k)
    BY <1>2 DEF Recipe!Harmless, Recipe!Forgiven, RecipeFate
  <2> QED BY <2>1, <2>2
<1>5. \/ /\ status = 0
         /\ \A k \in 1..Len(Lines(f)) : Harmless(f, k)'
      \/ /\ status = 2
         /\ \E k \in 1..Len(Lines(f)) :
               ~Harmless(f, k)' /\ Fate(f, k)' \notin {"new", "live"}
  BY <1>2, <1>3 DEF RecipeInv, HonestVerdict
<1>6. Recipe!Numbers(f) = 1..Len(Lines(f))
  BY DEF Recipe!Numbers, Lines
<1>7. UNCHANGED <<recipe, RecipeFate>>
  BY <1>2
<1>8. CASE status = 0
  <2>1. \A k \in 1..Len(Lines(f)) : Recipe!Harmless(f, k)
    <3>1. \A k \in 1..Len(Lines(f)) : Harmless(f, k)'
      BY <1>5, <1>8
    <3> QED BY <1>4, <3>1, Zenon
  <2> QED BY <1>3, <1>6, <1>7, <1>8, <2>1 DEF Recipe!Succeed, RecipeFate
<1>9. CASE status = 2
  <2>1. PICK k \in 1..Len(Lines(f)) :
           /\ ~Recipe!Harmless(f, k)
           /\ RecipeFate[<<f, k>>] \notin {"new", "live"}
    BY <1>4, <1>5, <1>9
  <2>2. RecipeFate[<<f, k>>] \in OS!Fates \cup {"won", "lost"}
    <3>1. <<f, k>> \in Pids /\ <<f, k>> \in Files \X (1..MaxLines)
      BY <1>1, RecipeLength
    <3> QED BY <1>1, <3>1 DEF RecipeFate, TypeOK, OS!SubProcTypeOK, OS!Fates
  <2>3. Recipe!Ended(f, k)
    BY <2>1, <2>2 DEF Recipe!Ended, RecipeFate, OS!Fates
  <2> QED BY <1>3, <1>6, <1>7, <1>9, <2>1, <2>3 DEF Recipe!Fail, RecipeFate
<1> QED BY <1>5, <1>8, <1>9

(* A command that is begun is begun as the abstract specification has it.  *)
LEMMA BeginsAsSeen ==
  ASSUME BuiltinsUnforgiven, RecipeInv, RecipeInv', UNCHANGED given,
         NEW f \in Files, NEW k \in 1..Len(Lines(f)), NEW result,
         NEW fate \in {"live", "won", "lost", "stillborn", "refused"},
         BeginsLine(f, k, fate, result), command_state[f] # "finished",
         \A g \in Files : \A j \in 1..MaxLines : command[<<g, j>>] # "live",
         \/ /\ result = "running"
            /\ command_state' = [command_state EXCEPT ![f] = "running"]
            /\ UNCHANGED update_status
         \/ result = "lost" /\ Finish(f, 2)
  PROVE  Recipe!Begin(f, k, fate)
PROOF
<1>1. /\ TypeOK /\ OwnKind /\ TypeOK' /\ OwnKind'
  BY DEF RecipeInv, SerialInv, IInv
<1>2. /\ Lines(f)' = Lines(f) /\ recipe' = recipe
      /\ k \in 1..Len(Lines(f)')
  BY DEF given, Lines
<1>3. Len(Lines(f)) \in Nat /\ <<f, k>> \in Files \X (1..MaxLines)
  BY <1>1, RecipeLength
<1>4. RecipeFate' = [RecipeFate EXCEPT ![<<f, k>>] = fate]
  BY DEF BeginsLine
<1>5. RecipeFate'[<<f, k>>] = fate
  BY <1>3, <1>4 DEF RecipeFate
<1>6. \A j \in 1..(k - 1) : Recipe!Harmless(f, j)
  <2> TAKE j \in 1..(k - 1)
  <2>1. j \in 1..Len(Lines(f))
    BY <1>3
  <2>2. Recipe!Harmless(f, j) = Harmless(f, j)
    BY <1>1, <2>1, SeenFate
  <2>3. Harmless(f, j)
    BY DEF BeginsLine
  <2> QED BY <2>2, <2>3, Zenon
<1>7. /\ RecipeFate[<<f, k>>] = "new" /\ recipe[f].lines[k].kind # "blank"
  BY DEF BeginsLine, Lines
<1>8. JobSlots # 0 => Cardinality(Recipe!Executing) < JobSlots
  BY <1>1, SlotFree
<1>9. Recipe!Cardinality(Recipe!Executing) = Cardinality(Recipe!Executing)
  BY DEF Recipe!Cardinality, Cardinality
<1>10. \/ /\ command_state' = [command_state EXCEPT ![f] = "running"]
         /\ UNCHANGED update_status
      \/ /\ Recipe!Ended(f, k)' /\ ~Recipe!Harmless(f, k)'
         /\ command_state' = [command_state EXCEPT ![f] = "finished"]
         /\ update_status' = [update_status EXCEPT ![f] = 2]
  <2>1. SUFFICES ASSUME result = "lost", Finish(f, 2)
                 PROVE  Recipe!Ended(f, k)' /\ ~Recipe!Harmless(f, k)'
    BY DEF Finish
  <2>2. fate \in {"lost", "refused"}
    BY <2>1 DEF BeginsLine
  <2>3. Recipe!Ended(f, k)'
    BY <1>1, <1>2, <1>5, <2>2, SeenFateNext
  <2>4. fate = "lost" => ~Ignored(f, k)
    <3>1. recipe[f] \in Recipes
      BY <1>1 DEF TypeOK
    <3> QED BY <3>1 DEF BeginsLine, BuiltinsUnforgiven, Ignored, Lines
  <2>5. ~Recipe!Harmless(f, k)'
    <3>1. Recipe!Harmless(f, k)' <=>
             \/ Lines(f)[k].kind = "blank"
             \/ fate = "won"
             \/ fate \in {"lost", "stillborn"} /\ Ignored(f, k)
      BY <1>2, <1>5
         DEF Recipe!Harmless, Recipe!Forgiven, RecipeFate, Lines, Ignored
    <3> QED BY <2>2, <2>4, <3>1 DEF BeginsLine
  <2> QED BY <2>3, <2>5
<1> QED
  BY <1>2, <1>4, <1>6, <1>7, <1>8, <1>9, <1>10 DEF Recipe!Begin, RecipeFate

LEMMA StartJobSeen ==
  ASSUME OneAtATime, BuiltinsUnforgiven, RecipeInv, RecipeInv', mode = "run",
         StartJob
  PROVE  Recipe!Next
PROOF
<1>1. /\ pc = "slots" /\ file \in Files /\ command_state[file] = "not_started"
      /\ TypeOK /\ UNCHANGED given
      /\ StartWaitingJob(file, waiting_jobs, jobserver_tokens + 1)
  BY DEF StartJob, RecipeInv, SerialInv, IInv, TypeOK, InNewJob, Fresh
<1>2. UpTo(file, command_line[file])
  BY <1>1 DEF RecipeInv, SerialInv, Progress
<1>3. \A g \in Files : \A j \in 1..MaxLines : command[<<g, j>>] # "live"
  <2>1. \A g \in Files : command_state[g] # "running"
    BY <1>1, OnlyRunning DEF RecipeInv, SerialInv, Attending
  <2> QED BY <2>1 DEF RecipeInv, Attended
<1>4. ASSUME NEW k \in 1..Len(Lines(file)),
             NEW fate \in {"live", "won", "lost", "stillborn", "refused"},
             Recipe!Begin(file, k, fate)
      PROVE  Recipe!Next
  <2>1. k \in Recipe!Numbers(file)
    BY <1>4 DEF Recipe!Numbers, Lines
  <2> QED BY <1>1, <1>4, <2>1 DEF Recipe!Next
<1>5. CASE PutOnWaitingChain(file, waiting_jobs, jobserver_tokens + 1)
  <2>1. waiting_jobs' # << >>
    BY <1>1, <1>5 DEF PutOnWaitingChain, TypeOK
  <2> QED BY <2>1 DEF RecipeInv, SerialInv, OneChild
<1>6. CASE PutOnChildrenChain(file, waiting_jobs, jobserver_tokens + 1)
  <2>1. /\ StartJobCommand(file, "running")
        /\ command_state' = [command_state EXCEPT ![file] = "running"]
        /\ UNCHANGED update_status
    BY <1>6 DEF PutOnChildrenChain
  <2>2. PICK k \in 1..Len(Lines(file)),
             fate \in {"live", "won", "lost", "stillborn", "refused"} :
           BeginsLine(file, k, fate, "running")
    BY <1>1, <1>2, <2>1, StartsLine
  <2>3. Recipe!Begin(file, k, fate)
    BY <1>1, <1>3, <2>1, <2>2, BeginsAsSeen
  <2> QED BY <1>4, <2>3
<1>7. CASE FinishAtOnce(file, waiting_jobs, jobserver_tokens + 1)
  <2>1. PICK result \in {"won", "asked", "lost"} :
           StartJobCommand(file, result) /\ Finish(file, StatusOf(result))
    BY <1>7 DEF FinishAtOnce
  <2>2. CASE result = "won" /\ RecipeFate' = RecipeFate
    <3>1. Finish(file, 0)
      BY <2>1, <2>2 DEF StatusOf
    <3>2. Recipe!Succeed(file) \/ Recipe!Fail(file)
      BY <1>1, <2>2, <3>1, FinishesAsSeen
    <3> QED BY <1>1, <3>2 DEF Recipe!Next
  <2>3. ASSUME NEW k \in 1..Len(Lines(file)),
               NEW fate \in {"live", "won", "lost", "stillborn", "refused"},
               BeginsLine(file, k, fate, result)
        PROVE  Recipe!Next
    <3>1. result = "lost"
      BY <2>1, <2>3 DEF BeginsLine
    <3>2. Finish(file, 2)
      BY <2>1, <3>1 DEF StatusOf
    <3>3. Recipe!Begin(file, k, fate)
      BY <1>1, <1>3, <2>3, <3>1, <3>2, BeginsAsSeen
    <3> QED BY <1>4, <3>3
  <2> QED BY <1>1, <1>2, <2>1, <2>2, <2>3, StartsLine
<1> QED BY <1>1, <1>5, <1>6, <1>7 DEF StartWaitingJob

LEMMA ReapChildSeen ==
  ASSUME BuiltinsUnforgiven, RecipeInv, RecipeInv', mode = "run", ReapChild
  PROVE  Recipe!Next
PROOF
<1>1. PICK i \in 1..Len(children) :
         ReapFailed(i) \/ ReapFinished(i) \/ ReapAndContinue(i)
  BY DEF ReapChild
<1>2. /\ dead.seen /\ TypeOK /\ UNCHANGED given
      /\ IInv /\ OneChild /\ \A f \in Files : Progress(f)
  BY DEF ReapChild, RecipeInv, SerialInv, IInv
<1>3. Attending /\ children = <<file>> /\ i = 1
  <2>1. children # << >>
    BY <1>1
  <2>2. Attending /\ children = <<file>>
    BY <1>2, <2>1 DEF OneChild
  <2>3. Len(children) = 1
    BY <2>2
  <2> QED BY <1>1, <2>2, <2>3
<1>4. PICK f \in Files : f = file /\ children[i] = f
  BY <1>2, <1>3 DEF Attending, TypeOK, InNewJob
<1>5. command_state[f] = "running" /\ pc = "linear"
  BY <1>3, <1>4 DEF Attending
<1>6. ~Fails(f) => UpTo(f, command_line[f])
  BY <1>2, <1>3, <1>4, ReapedLine
<1>7. \A g \in Files : \A j \in 1..MaxLines : command[<<g, j>>] # "live"
  <2>1. ASSUME NEW g \in Files, NEW j \in 1..MaxLines, command[<<g, j>>] = "live"
        PROVE  FALSE
    <3>1. command_state[g] = "running" /\ j = command_line[g] - 1
      BY <2>1 DEF RecipeInv, Attended
    <3>2. g = f
      BY <1>2, <1>4, <3>1, OnlyRunning
    <3>3. Underway(f)
      BY <1>2, <1>5 DEF Progress
    <3>4. Executing(f, j)
      BY <3>1, <3>2, <3>3 DEF Underway
    <3>5. Attends(f, j)
      BY <1>2, <1>3, <1>4, <3>1, <3>2 DEF OneChild
    <3> QED BY <1>2, <2>1, <3>2, <3>4, <3>5 DEF Executing, Attends
  <2> QED BY <2>1
<1>8. ASSUME NEW status, FreeChild(i, status), RecipeFate' = RecipeFate
      PROVE  Recipe!Next
  <2>1. Finish(f, status)
    BY <1>4, <1>8 DEF FreeChild
  <2>2. Recipe!Succeed(f) \/ Recipe!Fail(f)
    BY <1>2, <1>5, <1>8, <2>1, FinishesAsSeen
  <2> QED BY <2>2 DEF Recipe!Next
<1>9. UNCHANGED <<child, os>> => RecipeFate' = RecipeFate
  BY DEF child, os, RecipeFate
<1>10. CASE ReapFailed(i)
  BY <1>8, <1>9, <1>10 DEF ReapFailed
<1>11. CASE ReapFinished(i)
  BY <1>8, <1>9, <1>11 DEF ReapFinished
<1>12. CASE ReapAndContinue(i)
  <2>1. PICK result \in {"running", "won", "asked", "lost"} :
           /\ StartJobCommand(f, result)
           /\ \/ result = "running" /\ UNCHANGED target
              \/ result # "running" /\ FreeChild(i, StatusOf(result))
    BY <1>4, <1>12 DEF ReapAndContinue
  <2>2. UpTo(f, command_line[f])
    BY <1>4, <1>6, <1>12 DEF ReapAndContinue
  <2>3. CASE result = "won" /\ RecipeFate' = RecipeFate
    <3>1. FreeChild(i, StatusOf(result))
      BY <2>1, <2>3
    <3> QED BY <1>8, <2>3, <3>1
  <2>4. ASSUME NEW k \in 1..Len(Lines(f)),
               NEW fate \in {"live", "won", "lost", "stillborn", "refused"},
               BeginsLine(f, k, fate, result)
        PROVE  Recipe!Next
    <3>1. \/ /\ result = "running"
             /\ command_state' = [command_state EXCEPT ![f] = "running"]
             /\ UNCHANGED update_status
          \/ result = "lost" /\ Finish(f, 2)
      <4>1. CASE result = "running"
        BY <1>2, <1>5, <2>1, <4>1 DEF target, TypeOK
      <4>2. CASE result = "lost"
        BY <1>4, <2>1, <4>2 DEF FreeChild, StatusOf
      <4> QED BY <2>4, <4>1, <4>2 DEF BeginsLine
    <3>2. Recipe!Begin(f, k, fate)
      BY <1>2, <1>5, <1>7, <2>4, <3>1, BeginsAsSeen
    <3>3. k \in Recipe!Numbers(f)
      BY <2>4 DEF Recipe!Numbers, Lines
    <3> QED BY <3>2, <3>3 DEF Recipe!Next
  <2> QED BY <1>2, <2>1, <2>2, <2>3, <2>4, StartsLine
<1> QED BY <1>1, <1>10, <1>11, <1>12

LEMMA CommandExitsSeen ==
  ASSUME RecipeInv, CommandExits
  PROVE  Recipe!Next \/ UNCHANGED Recipe!vars
PROOF
<1>1. PICK p \in Pids : OS!ProcessExit(p)
  BY DEF CommandExits
<1>2. /\ UNCHANGED <<given, target, builtin>>
      /\ TypeOK /\ IInv /\ OneChild /\ OwnKind
  BY DEF CommandExits, child, RecipeInv, SerialInv, IInv
<1>3. PICK fate \in {"won", "lost"} : command' = [command EXCEPT ![p] = fate]
  BY <1>1 DEF OS!ProcessExit
<1>4. command[p] = "live"
  BY <1>1 DEF OS!ProcessExit
<1>5. PICK f \in Files, k \in 0..MaxLines : p = <<f, k>>
  BY DEF Pids
<1>6. \A g \in Files : \A j \in 1..MaxLines :
         <<g, j>> \in Pids /\ <<g, j>> \in Files \X (1..MaxLines)
  BY RecipesAssumption DEF Pids
<1>7. CASE k = 0
  <2>1. \A g \in Files : \A j \in 1..MaxLines :
           command'[<<g, j>>] = command[<<g, j>>]
    <3> TAKE g \in Files
    <3> TAKE j \in 1..MaxLines
    <3>1. <<g, j>> \in Pids /\ <<g, j>> # p
      BY <1>5, <1>6, <1>7
    <3> QED BY <1>2, <1>3, <3>1 DEF TypeOK, OS!SubProcTypeOK
  <2> QED BY <1>2, <2>1, Unseen
<1>8. CASE k \in 1..MaxLines
  <2>1. command_state[f] = "running" /\ k = command_line[f] - 1
    BY <1>4, <1>5, <1>8 DEF RecipeInv, Attended
  <2>2. Underway(f)
    BY <2>1 DEF RecipeInv, SerialInv, Progress
  <2>3. k \in 1..Len(Lines(f)) /\ Executing(f, k)
    BY <2>1, <2>2 DEF Underway
  <2>4. builtin[p] = "new" /\ Lines(f)[k].kind = "process"
    BY <1>2, <1>4, <1>5, <2>3 DEF Executing, OwnKind
  <2>5. RecipeFate[<<f, k>>] = "live"
    BY <1>4, <1>5, <1>6, <1>8, <2>4 DEF RecipeFate
  <2>6. RecipeFate' = [RecipeFate EXCEPT ![<<f, k>>] = fate]
    <3>1. \A q \in Files \X (1..MaxLines) :
             RecipeFate'[q] = IF q = p THEN fate ELSE RecipeFate[q]
      <4> TAKE q \in Files \X (1..MaxLines)
      <4>1. q \in Pids /\ builtin'[q] = builtin[q]
        BY <1>2, <1>6
      <4>2. command'[q] = IF q = p THEN fate ELSE command[q]
        BY <1>2, <1>3, <4>1 DEF TypeOK, OS!SubProcTypeOK
      <4>3. RecipeFate'[q] = IF builtin'[q] # "new" THEN builtin'[q]
                                                    ELSE command'[q]
        BY DEF RecipeFate
      <4>4. RecipeFate[q] = IF builtin[q] # "new" THEN builtin[q] ELSE command[q]
        BY DEF RecipeFate
      <4> QED BY <2>4, <4>1, <4>2, <4>3, <4>4
    <3> QED BY <1>5, <3>1 DEF RecipeFate
  <2>7. Recipe!End(f, k, fate)
    BY <1>2, <2>5, <2>6 DEF Recipe!End, RecipeFate, given, target
  <2>8. k \in Recipe!Numbers(f)
    BY <2>3 DEF Recipe!Numbers, Lines
  <2> QED BY <2>7, <2>8 DEF Recipe!Next
<1> QED BY <1>7, <1>8, RecipesAssumption

LEMMA RecipeStep ==
  ASSUME OneAtATime, BuiltinsUnforgiven, RecipeInv, RecipeInv', mode = "run",
         [Next]_vars
  PROVE  [Recipe!Next]_(Recipe!vars)
PROOF
<1>1. ASSUME UNCHANGED <<given, target, builtin, command>>
      PROVE  UNCHANGED Recipe!vars
  BY <1>1, Unseen
<1>2. CASE StartWaitingJobs
  <2>1. waiting_jobs = << >>
    BY DEF RecipeInv, SerialInv, OneChild
  <2> QED BY <1>1, <1>2, <2>1 DEF StartWaitingJobs, child, os
<1>3. CASE ExpandLines
  <2>1. /\ UNCHANGED <<given, target, builtin>>
        /\ \A p \in Pids : p[2] # 0 => command'[p] = command[p]
    BY <1>3 DEF ExpandLines, OS!OpenPipe, OS!ProcessEasyRefused, child, os,
                RecipeInv, SerialInv, IInv, TypeOK, OS!SubProcTypeOK
  <2>2. \A f \in Files : \A k \in 1..MaxLines : <<f, k>> \in Pids /\ <<f, k>>[2] # 0
    BY RecipesAssumption DEF Pids
  <2> QED BY <2>1, <2>2, Unseen
<1>4. CASE StartJob
  BY <1>4, StartJobSeen
<1>5. CASE ReapChild
  BY <1>5, ReapChildSeen
<1>6. CASE CommandExits
  BY <1>6, CommandExitsSeen
<1>7. CASE WaitForChild
  BY <1>1, <1>7 DEF WaitForChild, OS!ProcessWaitForAny, child, os
<1> QED
  BY <1>1, <1>2, <1>3, <1>4, <1>5, <1>6, <1>7
  DEF Next, Make, NewJob, ShellCompleted, FinishedLinearly, NothingToReap,
      ReapShellFunction, ReapUnknown, NextPass, GoalsDone, GiveUp, Exit, vars,
      child, os

(* A make that runs one job at a time carries recipes out as the manual    *)
(* says: line after line, each when the one before is over and harmless,   *)
(* and the target ends as its lines did.                                   *)
THEOREM RunsRecipesHolds ==
  ASSUME OneAtATime, BuiltinsUnforgiven, Modes \subseteq {"run"}
  PROVE  Spec => RunsRecipes
PROOF
<1>1. Init => Recipe!Init
  <2> SUFFICES ASSUME Init PROVE Recipe!Init
    OBVIOUS
  <2>1. \A p \in Files \X (1..MaxLines) :
           p \in Pids /\ builtin[p] = "new" /\ command[p] = "new"
    BY RecipesAssumption DEF Init, OS!SubProcInit, Pids
  <2>2. RecipeFate = [p \in Files \X (1..MaxLines) |-> "new"]
    BY <2>1 DEF RecipeFate
  <2> QED BY <2>2 DEF Init, Recipe!Init, RecipeFate
<1>2. Init => OwnKind
  <2> SUFFICES ASSUME Init PROVE OwnKind
    OBVIOUS
  <2>1. \A f \in Files : \A k \in 1..Len(Lines(f)) : <<f, k>> \in Pids
    BY TypeInit, RecipeLength
  <2> QED BY <2>1 DEF Init, OwnKind, OS!SubProcInit
<1>3. TypeOK /\ OwnKind /\ [Next]_vars => OwnKind'
  BY KindStep
<1>4. Spec => [](TypeOK /\ OwnKind)
  BY <1>2, <1>3, TypeCorrect, PTL DEF Spec
<1>5. TypeOK => mode = "run"
  BY DEF TypeOK
<1>6. Spec => [](RecipeInv /\ mode = "run")
  <2>1. SerialInv /\ TypeOK /\ OwnKind /\ Attended
        /\ (mode = "run" => HonestVerdict) => RecipeInv /\ mode = "run"
    BY <1>5 DEF RecipeInv
  <2> QED BY <1>4, <2>1, SerialInvariance, AttendedHolds, HonestVerdictHolds, PTL
<1>7. RecipeInv /\ RecipeInv' /\ mode = "run" /\ [Next]_vars =>
         [Recipe!Next]_(Recipe!vars)
  BY RecipeStep
<1> QED BY <1>1, <1>6, <1>7, PTL DEF Spec, Recipe!Spec, RunsRecipes

(* No more jobs run at once than -j allows, for none is put off.           *)
THEOREM SlotBoundSerial ==
  ASSUME OneAtATime
  PROVE  Spec => []SlotBound
PROOF
<1>1. SerialInv => waiting_jobs = << >>
  BY DEF SerialInv, OneChild
<1> QED BY <1>1, SerialInvariance, SlotBoundHolds, PTL
=============================================================================
