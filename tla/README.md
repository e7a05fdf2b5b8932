# Verification of min-toolchain

min-toolchain is a build environment for Windows: GNU make 3.8x, changed in
many places, and about thirty Unix tools ported next to it (gcc, bison, gawk,
textutils, a command interpreter ...). This directory holds TLA+ modules of its
core, with the TLC configurations that check them and the theorems that TLAPS
proves about them: make's job control and the process layer below it, its
dependency engine, what Ctrl+C does to it, the hash table all its data is in,
and the compressor ncompress.

## Inventory

### The tools

| tools | what they do | state and hard behaviour |
|---|---|---|
| make | runs the recipes of a makefile | children, chains, wait slots, tokens; processes that end in any order (below) |
| cmd | command interpreter | interactive; batch contexts and redirection around system calls |
| ncompress | LZW compressor (`compress42.c`) | one thread; codes of growing width packed in groups, a table that is cleared; two programs that must agree bit by bit (below) |
| bzip2, gzip | compressors | one thread; bit streams, code tables, window boundaries |
| less | pager | one thread; a cache of file blocks with an LRU list (`ch.c`) |
| findutils (xargs) | command lines of bounded length | one thread; limits, exit codes of children |
| textutils (sort) | text tools | one thread; merge of temporary files |
| patch, m4, gsar | text transformation | one thread; hunk placement, diversions, buffer ends |
| bc, bison, flex, gawk, gcc, grep, groff, id-utils, indent, jwhois, plotmtv, recode, rman, sed, sh-utils, fileutils, fsplit | compilers, interpreters, filters, file tools | one thread, sequential; third-party code used as it is |

make is the only program here in which several actors meet: its own thread,
the processes it starts, and the thread in which Windows delivers Ctrl+C. It is
also the one this repository changed most: built-in commands (`job_cmd.c`), the
`psn` counter of a child, `builtin_cmd_running`. So it comes first.

### The parts of make

| part | state | operations | meets |
|---|---|---|---|
| job control (`job.c`) | `children`, `waiting_jobs`, `job_slots_used`, `jobserver_tokens`; per child `command_line`, `psn`, `noerror`; `builtin_cmd_running` | `new_job`, `start_waiting_jobs`, `start_job_command`, `reap_children`, `free_child` | the subprocess layer, `notice_finished_file` |
| subprocess layer (`w32/subproc/sub_proc.c`) | `proc_array`, `fake_exits_pending` | `process_easy`, `process_register`, `process_wait_for_any` | the processes |
| `$(shell)` (`function.c`) | `shell_function_pid`, `shell_function_completed` | `func_shell`, `windows32_openpipe` | waits through `reap_children` |
| dependency engine (`remake.c`) | `command_state`, `update_status`, `updated`, `considered` of each file | `update_goal_chain`, `update_file`, `check_dep`, `notice_finished_file` | calls `new_job`; finished by `reap_children` |
| built-in commands (`job_cmd.c`) | none | 40-odd commands run inside make | called by `start_job_command` |
| exit (`main.c`) | `dying` | `die` | waits through `reap_children` |
| fatal signals (`commands.c`) | `handling_fatal_signal` | `fatal_error_signal` in a thread of its own | suspends the main thread, then `reap_children` |
| hash tables (`hash.c`) | `ht_vec`, `ht_fill`, `ht_empty_slots`, `ht_size` | `hash_insert`, `hash_delete`, `hash_find_item`, `hash_rehash` ... | hold files, variables, directories, cached strings, functions |
| reading makefiles, variables, rules (`read.c`, `variable.c`, `expand.c`, `implicit.c`, `rule.c`) | tables | text processing | gives job control an expanded recipe |
| directories, archives, vpath | caches of the file system | lookups | the dependency engine |

### What is hard, and what makes each part correct

`PROJECT.json` lists every hazard at its line. In short:

* *Order.* Children end in any order, but `reap_children` looks for the dead
  one by its place on the chain. Correct: a target's verdict is that of its own
  commands (`HonestVerdict`, `OldestFirst`).
* *Interleaving.* `new_job` and `func_shell` wait inside a pass and reap other
  jobs there: these go on to their next line, finish, or make die. Correct: no
  job is lost or started twice (`Tracked`), the counts agree with the chains
  (`Accounting`), `$(shell)` returns (`ShellReturns`).
* *Stale state.* `builtin_cmd_running` describes the last line started, of
  whichever child. Correct: no process is taken for dead because of it
  (`Attended`, `NoneLeftRunning`).
* *Limits.* `-j`, `-l` and the 64 wait slots. Correct: at most `-j` jobs
  (`SlotBound`), and what is put off is started (`DeferredRun`, `AllDone`).
* *Partial failure.* A launch may be refused, or fail after the process was
  registered (a "fake exit"). Correct: each is reported once, for the right
  process (`FakeExitsCounted`, `WaitsForAny`).
* *Passes.* The graph is walked again and again, a file once in each pass,
  while jobs end in the middle of a pass. Correct: a recipe starts when its
  prerequisites are made (`Ready`), once (`StartedOnce`), what failed fails
  everything above it (`FailureReachesTheGoal`), nothing is left out
  (`NothingForgotten`), and the passes end (`Ends`).
* *Ctrl+C.* The handler stops the main thread between any two statements and
  goes on with its data. Correct: the counts agree with the chain up to the
  statement in hand (`IInv`), every counted command is waited for
  (`NoneAbandoned`), the handler ends (`HandlerEnds`).
* *Deleted slots.* The hash table marks them, takes them again and is rebuilt
  when empty ones run short. Correct: callers see a dictionary
  (`IsDictionary`), searches end (`SearchEnds`).
* *Two sides in step.* compress and decompress change width, pad and clear at
  the same codes. Correct: what decompress puts out is the text (`Restored`), and
  it ends (`RoundTrip`).
* *Options.* `-n` and `-q` run only recursive lines (`DryRun`), `-q` tells the
  truth (`HonestAnswer`), `-` and `-i` forgive failures (`IgnoredErrors`).

## The modules

`WaitAny` is what the subprocess layer promises, "kind of like waitpid()":
every process handed over is awaited, and reported once, after its end.

`SubProc` is that layer. `proc_array` and `fake_exits_pending` are the C
variables. `command` is the operating system's knowledge of every command and
is not in the code: *new*, *live*, *won* and *lost* (exit code zero or not),
*stillborn* (`process_begin` failed, so `exit_code` was set and a fake exit
counted), *refused* (`INVALID_HANDLE_VALUE`). `ProcessEasyRefused` and
`ProcessEasyBegun` are the ways through `process_easy`; `OpenPipe` is what
`windows32_openpipe` does, `process_register` doing nothing when the array is
full; `ProcessWaitForAny` is `process_wait_for_any` with its scan for a fake
exit. `SubProcSpec` runs the layer with the most general client.

`RecipeRun` is what the manual promises of recipes: lines one after the other,
a harmful line ends the target, no more commands at once than slots.

`JobControl` is `job.c` and what surrounds it. It uses `SubProc` through
`OS == INSTANCE SubProc WITH Proc <- Pids`; a command is a pair of a target and
a line number, line 0 being a `$(shell)` call. make's thread has a position
`pc`; a step is what the thread does between two points where it can block or
loop:

| `pc` | place in the code |
|---|---|
| `pass` | the traversal of `update_goal_chain` |
| `kick`, `kick_pass` | the loop of `start_waiting_jobs`, called from `new_job` and at the start of a pass |
| `expand`, `shell` | expanding the lines in `new_job`; the wait loop of `func_shell` |
| `slots`, `linear` | the two wait loops of `new_job` |
| `reap` | `reap_children (1, 0)` at the start of a pass |
| `die`, `exit` | the wait loop of `die`; the end |

`WaitForChild` is the wait in `reap_children`; what it found is in `dead` until
one of `ReapShellFunction`, `ReapUnknown` and `ReapChild` deals with it.
`ReapChild` has the code's three ways: the command failed, the recipe is at its
end, or its next line is started. `StartJobCommand` folds the recursion through
the label `next_command` into one step that runs over the skipped lines.

What is abstracted: the text of a command (it is a process, a built-in or
blank; `-`, `+` and `@` are flags of the line); the load average (any answer
`load_too_high` can give, when `-l` was given); the graph of targets (a pass
calls `new_job` for targets in any order). `psn` counts only to 1: the code
only compares it with 0. `dontcare` is a set of targets. `free_child`'s call of
`fatal` shows as a token count of -1. Reading the pipe of a `$(shell)` process
needs no step: the process may close its end at any time before it exits.

`Remake` is `remake.c`: `update_goal_chain`, `update_file`, `update_file_1`,
`check_dep`, `remake_file`, `notice_finished_file`, `set_command_state` and
`execute_file_commands`. These procedures call each other to the depth of the
graph and down to `new_job`, which reaps other jobs; so make's thread is a
stack of frames, one for each procedure it is in, with the local variables that
live across a call (`d`, `dep_status`, `must_make`, `running` ...) and the place
reached in `at`. A step runs to the next call or return: `pc` is *call* while
the innermost procedure runs on, *return* when the one it called has just left
`ret`. Between a call and its return the caller's locals are as old as the
code's are. Job control is reduced to its effect: `StartJob` or
`JobOverAtOnce` (nothing to run, or a refused launch), and `Reap` of any job, in
the loops of `new_job` and at the start of a pass. Where `JobControl` picks the
wrong child, `Remake` does not: its results hold for an honest job control.
`visited` is the set of the files whose `considered` bit equals the global one.
`recipe` is history. Left out is what does not feed back here: `d->changed`
(only `$?` and the choice between two messages depend on it: where a target
without commands is not changed, both branches after line 687 end alike).

`FatalSignal` is `fatal_error_signal` in its own thread. `block_sigs` is empty
in this build, so the steps are single statements: of `reap_children`, which
both threads run, and of the way of a job from `new_job` through
`start_waiting_job` to the chain. `at` says which statement a thread is at, `c`
and `failed` are its locals. `SuspendThread` suspends the main thread, which
never runs again; `HandlerLoop` is `while (job_slots_used > 0) reap_children`.
Before the first wait `main_thread` is not set, nothing is suspended and both
threads race on everything; nothing definite can be said then, and in the model
Ctrl+C comes only after it. No `$(shell)` and no built-in is under way
in it. A job is put on the chain where the statement does it, and the child
that is reaped is the one the code picks.

`Dictionary` is what the callers of `hash.c` count on. `HashTable` is
`hash_init`, `hash_find_slot`, `hash_find_item`, `hash_insert`, `hash_delete`,
`hash_delete_items`, `hash_free_items` and `hash_rehash` (one step per slot of
the old table). The two hash functions are any functions, chosen in `Init`; the
table keeps two names apart when `Folded` does, the comparison function.
`hash_find_slot` is a `CHOOSE` of the first probe at which its loop returns.
`hash_insert_at` and `hash_delete_at` are folded into the insertion and the
deletion of an item: in `dir.c`, `file.c`, `read.c`, `strcache.c` and
`variable.c` every slot given to `hash_insert_at` was found for the same key
with no insertion between. `HashNames` adds the two assumptions the results
need.

`Lzw` is `compress ()` and `decompress ()` of `compress42.c`, one after the
other over one file. The file and the two buffers' positions are kept in bits
(`file` is the set of the positions of 1 bits), as `output` ORs a code in without
masking it and `input` cuts one out. The local variables are the fields of `enc`
and `dec`. `htab` and `codetab` are a function from (prefix, byte) to codes: the
probing of `compress` is left out. `StartChunk` is the head of the loop, with the
change of width, the checkpoint and the flush of a full buffer; the compression
ratio is left open: at a checkpoint with the table full, CLEAR may come or not.
Reads return `IBUFSIZ` bytes until the end of a file, as regular files do. A
text is one of `Openings` and then any bytes of `Letters`.

`MCSubProc`, `MCJobControl`, `MCRemake`, `MCFatalSignal`, `MCHashTable`,
`MCCaseFold` and `MCLzw` give the constants small values. The proofs are in
`SubProcProofs`, `JobControlProofs`, `SerialProofs`, `RemakeProofs`,
`FatalSignalProofs`, `HashTableProofs` and `LzwProofs`; `ChainLemmas` has what
several of them need about sequences and sets of numbers.

The operators marked *seeded defect* are variants of a definition with one
plausible mistake. No specification uses them; each shows that a property
notices the mistake when it takes the place of the definition.

## The runs

| run | instance | what it shows |
|---|---|---|
| SubProc | 4 commands, 4 wait slots | `SubProcSpec` implements `WaitAny` with its liveness; the fake exits counted are the ones unreported |
| Serial | 2 targets, recipes of 2 lines from processes, built-ins, blanks, `-`; `-j1`, one wait slot | each recipe runs as `RecipeRun` says, verdicts are right, a command that runs is attended to, make ends |
| Parallel | 3 targets, `-j2`, recipes of two lines or with a `$(shell)` call, failures fatal except for one target | the inductive invariant, the slot limit, jobs are awaited, `$(shell)` returns, make ends |
| Load | 3 targets, no `-j` limit, `-l`, 2 wait slots, `-k` | accounts survive deferral; what is put off is started; every target is dealt with |
| DryRun | 2 targets, recursive and plain lines, recursive built-ins, `$(shell)`, `-n` or `-q` | only recursive lines are executed; `-q`'s answer |
| Remake | six graphs of 4 files, see Bounds | targets are started in order, once; failures reach the goals; nothing is forgotten; what was not remade is up to date; the passes end |
| FatalSignal | 2 jobs of up to 3 lines | Ctrl+C at any statement: the counts agree, nobody counted is abandoned, the handler ends wherever it can |
| HashTable | 4 items of 3 names, tables of 4 and 8 slots | a hash table is a dictionary, through deletions and rebuilding |
| Lzw | bytes of 4 bits, texts of up to 69 bytes | what was compressed is decompressed to the same; the buffers are long enough |
| WrongChild | 2 targets, `-j2` | *violated:* an exit code is recorded for the wrong target |
| PrunedFailure | 2 goals above a double-colon target, `-k` | *violated:* a target is made although a prerequisite failed |
| CtrlC | 2 jobs | *violated:* the handler of Ctrl+C loops for ever |

These three violations are disagreements between the code and a comment or the
manual; `PROJECT.json` quotes them under "findings".

### Further instances

These configurations are kept to show further disagreements. TLC finds each
property violated.

| cfg, module | property | what happens | what the code or manual says |
|---|---|---|---|
| Orphan, MCJobControl | `NoneLeftRunning` | while `builtin_cmd_running` is set `reap_children` takes the oldest child, a live process, for dead (job.c:620); make exits over it | "it waits for them to finish before actually exiting" (make.texi:3993-3995) |
| OrphanShell, MCJobControl | `NoShellLeftRunning` | `die` waits only for slots (main.c:3288), and `$(shell)` takes none | the same |
| ShellHang, MCJobControl | `ShellReturns` | `builtin_cmd_running` of an earlier line is still set when `func_shell` waits (job.c:674), which never ends | "Loop until child_handler or reap_children() sets shell_function_completed" (function.c:2069-2070) |
| IgnoredBuiltin, MCJobControl | `IgnoredErrors` | a built-in that fails under `-` or `-i` fails its target (job.c:1756) | "`make` treats an error return just like success" (make.texi:4072-4073) |
| DryBuiltin, MCJobControl | `DryRun` | a built-in is executed before `just_print_flag` is looked at (job.c:1192) | "it only echoes commands, it won't execute them" (make.texi:3774) |
| LoadSlots, MCJobControl | `SlotBound` | a deferred job is started later without a look at `-j` (job.c:1988) | "the number of commands to execute at once" (make.texi:3950-3951) |
| ColonHang, MCRemake | `Ends` | without `-k`, when the first entry of a double-colon target fails at once, `update_file` leaves the others, which stay *not_started* (remake.c:292-296) while `update_goal_chain` waits for all of them | "Normally `make` gives up immediately in this circumstance" (make.texi:4086) |
| Siblings, MCRemake | `FailureReachesTheGoal` | targets made together (`also_make`) end with one status (remake.c:881-885): when a prerequisite of one of them failed and the other is made, success is recorded for both | "it implies that the current target cannot be correctly remade, and neither can any other that depends on it" (make.texi:4078-4079) |
| CaseFold, MCCaseFold | `Counted` | names that differ in case are equal to the comparison (`strcmpi`, hash.h:109-111) and hash differently: `hash_rehash` may overwrite one item by another | "hash and comparison macros for case-sensitive string keys" (hash.h:82) |
| NineBits, MCLzw | `RoundTrip` | with `-b 9` the first width is the last; `compress` sets `extcode` as if it could grow (compress42.c:1360), gives out entry 512 and writes it in 9 bits (compress42.c:1388-1403), while `decompress` widens its codes | "Bits must be between 9 and 16." (compress.1:131-132) |

Seen while modelling, without a configuration:

* `process_register` drops a `$(shell)` process when all wait slots are taken,
  and `func_shell` then waits for ever. `RoomForShell` says when that cannot
  happen.
* `check_dep` marks an intermediate file *deps_running* (remake.c:1001-1006)
  and only `update_file_1` of that file takes the mark back. If the file above
  turns out not to need it, `update_file` of the file above finds a running
  prerequisite in every pass.
* A refused first launch lets the other targets of a recipe (`also_make`) try
  again, though "if it didn't work, it wouldn't work again for them"
  (remake.c:877-880).
* A table of fewer than 16 slots is never rebuilt before it is full (hash.c:56).
* With `-C`, `compress` still begins at entry 257 and writes CLEAR, while
  `decompress` begins at 256 (compress42.c): the file is "corrupt input". The
  readme recommends `-C` for files that compress 2.0 must read.
* With a buffer of 512 bytes the `memcpy` at compress42.c:1447 would overlap.

### Bounds

Two targets suffice for every pair of jobs to interleave in every way, and two
lines for a line that has a predecessor and one that has a successor. Load has
three targets because a deferred job needs one that runs and one that overtakes
it, Parallel because with two slots only a third job can be one too many.
DryRun has a built-in before a `$(shell)` call, the state of ShellHang, so its
safety properties are checked there too. `MAXIMUM_WAIT_OBJECTS` is 64 in
Windows; 1 to 4 here, so that the array is full in some runs (Load, Serial) and
roomy in others. No counter grows without
bound in these instances. `MaxLines` bounds the recipes.

Remake's six graphs have the shapes on which the code takes different ways: a
prerequisite shared by two targets (pruning), a circular one with a missing file
and a phony goal, two targets of one recipe, a chain through an intermediate
file, a double-colon target as a goal and below one. The first three are
checked with `-k` and without; the chain too, at `-j1`; the double-colon ones
with `-k` (without it, see ColonHang), at `-j1` and at more; the circle at both. Each job may end at any wait, well or badly,
and touch its file or not, and the files are of any age up to `MaxMtime`: older,
newer or missing, at all relative orders of a file and its prerequisite.

FatalSignal needs two jobs for one to be on the chain while the other is
started or reaped, and three lines for a command that has both a predecessor
and a successor.

HashTable keeps a quarter of the slots empty (`LoadDivisor` 4; 16 in the code)
so that a table of 4 is rebuilt; `Sizes` stops at 8, which three names never
fill. Hashes 0 and 2 collide in the first probe, the increment, both or
neither. Two items share a name, for replacement.

Lzw has codes of 5 to 6 or 7 bits (9 to 16 in the code) and buffers of a few
bytes, so a text of 69 bytes goes through every change of width, the full
table, CLEAR at every checkpoint or at none, several flushes and short reads.
The openings stop shortly before each of these, and every ending is tried after
them. Its `TypeOK` bounds the buffers. The assumptions keep the relations between
8 bits, 256 literals, widths of 9 to 16 and the buffers that the code relies on:
the first width has twice as many codes as there are literals
(`WidthAssumption`); the codes of a width fill whole groups, and the rest of the
last byte is too short for a code (`PackingAssumption`); what a chunk leaves free
of `outbuf` takes two codes and the rest of a group, 160 of the 256 bits in the
code (`BufferAssumption`). `PowersAssumption` is arithmetic, that 2^n doubles.

### Fairness

`WF_vars(Make)`: make has one thread and the system runs it; where a step of
the thread has alternatives (a launch that fails, a load that is too high) no
fairness is assumed between them. So a job may be put off as long as another
one runs, and still starts, because `start_waiting_job` asks about the load
only when `job_slots_used > 0`. `WF_vars(CommandExits)`: some command that runs
ends in the end. A command that never ends would make make wait, rightly.

`Remake` and `Lzw` are single threads, so `WF_vars(Next)`; a job of `Remake` ends
when the thread waits for it, as the process layer promises that it does.
`FatalSignal` has `WF_vars(Handler)`, the handler's thread is not suspended by
anything, and `WF_vars(ProcessExit(p))` for each process: Ctrl+C goes to every
process of the console, and one that ignored it would make the handler wait.
The main thread gets no fairness.

Runs say `CHECK_DEADLOCK FALSE` because the programs end; `Termination`,
`AllDone`, `Ends`, `HandlerEnds` and `RoundTrip` show where.

## What is proved

Every invariant that a run checks is also a theorem, and so are the action
properties and the safety part of each refinement; some of them under
premises, which are named below with the reason why they are needed.

### The process layer (`SubProcProofs`)

For any commands and any number of wait slots (`SlotsAssumption`):

* `TypeCorrect` and `FakeExitsAreCounted` are parts of `Invariance`, whose
  invariant adds that what is in `proc_array` was launched and is there once.
  Without that `fake_exits_pending` could count one launch twice.
* `SearchEnds`: the loop of `process_wait_for_any` that looks for a fake exit
  tests nothing but `exit_code`s; there always is one to be found.
* `Refinement`: the safety part of `WaitsForAny`. Its premise is that
  `windows32_openpipe` is never called with all slots taken, as
  `process_register` would then drop the process (see above);
  `SlotsSuffice` gives a case in which it holds, `RoomForShell` below another.

### Job control (`JobControlProofs`)

For all sets of targets, recipes, options and any number of wait slots
(assumptions: `FilesAssumption`, `RecipesAssumption`, `OptionsAssumption`,
`WaitSlotsAssumption`):

* `TypeCorrect`: `Spec => []TypeOK`, the type of the process table included.
* `Invariance`: `Spec => []IInv`.
* `AccountingHolds`, `TrackedHolds`: the two parts of `IInv` that matter:
  `job_slots_used` is the length of `children`, the tokens are the children on
  both chains, and the running targets are exactly those on a chain, once.
  These hold although the code picks the wrong child: it frees one child, and
  one slot and token, per reaped process.
* `DryRunHolds`: `DryRun`, when every built-in command is on a line marked as
  recursive (DryBuiltin shows the premise is needed). `StepDry`: under
  `-n` and `-q` no step changes what has become of an unmarked process line.
* `OldestFirstHolds`: a child that is freed is the oldest. This is the root of
  the WrongChild finding: among several children the code cannot do otherwise.
* `SlotBoundHolds`: no more jobs than `-j` run at once as long as
  `waiting_jobs` is empty. LoadSlots shows what happens when it is not.
* `NoneLeftRunningParallel`: `NoneLeftRunning` for any number of jobs, when no
  recipe has a built-in command (`NoBuiltins`). Orphan shows that the premise is
  needed.
* `RoomForShell`, `SlotBoundParallel`: with fewer job slots than wait slots, no
  load limit and no built-ins, `process_register` finds a slot for every
  `$(shell)`, no job is put off, and `SlotBound` holds without the premise above.

`IInv` adds to `TypeOK`, `Accounting` and `Tracked` two facts. `Fresh`: the
target that `new_job` is busy with is not started, in spite of what is reaped
while it waits; without it `StartJob` could push a child that is on a chain
already. `Numbered`: every child on the chain has `psn` 1; it makes the search
of `reap_children` stop at the last child only. The proof has one lemma for
each way a chain changes (`StartWaitingJobChains`, `FreeChildChains`), both
resting on lemmas about sequences without repetition (`ChainLemmas`); all other
steps leave the chains alone (`ChainsUnchanged`).

`ParallelInv` is the invariant behind the last three. The wrong child may be
freed, so nothing relates a process to *its* child; what holds is a count
(`Balance`): the registered processes and the one just reported are as many as
the children, and one more while that of a `$(shell)` is among them. With it,
every line that executes is registered (`Registered`), so no child left means no
line left. The count needs that at most one process of a `$(shell)` is due and
`func_shell` knows its pid (`OneShell`, `Shelled`), and that a wait that reports
nothing happens only when there is no child (`Answer`); a built-in "running"
makes `reap_children` free a child without a report, and breaks it.

### One job at a time (`SerialProofs`)

With `-j1` or `.NOTPARALLEL` (`OneAtATime`), for any targets, recipes, modes and
other options:

* `RunsRecipesHolds`: job control implements `RecipeRun`, the manual's promise:
  lines one after the other, each when the one before is over and harmless, and
  the target ends as its lines did. `HonestVerdictHolds`, `AttendedHolds`,
  `NoneLeftRunningHolds` and `HonestAnswerHolds` are what it rests on, and say
  more about the exit, `-q` and what is left running.
* `SlotBoundSerial`: `SlotBound` without a premise, as nothing is put off.

With several jobs `HonestVerdict` and `Attended` are false, as the wrong child
is freed (WrongChild), and `NoneLeftRunning` is once there are built-ins
(Orphan), which is why the premise is there. `RunsRecipesHolds` and
`HonestVerdictHolds` also exclude built-ins under `-` or `-i`
(`BuiltinsUnforgiven`; IgnoredBuiltin shows that the code does not forgive
them), and the former takes make without `-n` and `-q`.

`SerialInv` adds to `IInv` that the only child is the one `new_job` waits for, and
that only its process, or that of a `$(shell)`, is in the process table
(`OneChild`); and it says of each target how far it is
(`Progress`): all lines before the current one are over and harmless, none after
it has begun, and when the target is finished its status is what the last line
that ran was. `Attends` links the two: with `builtin_cmd_running` set the table is
empty, otherwise it holds the current line of the child. That is what a second
child breaks.

### The dependency engine (`RemakeProofs`)

* `TypeCorrect` and `TypeInvariance` hold for every makefile: types, the shape
  of the stack (who can have called whom, and that a frame below the top has
  really called something), entries within their double-colon chain, and that a
  finished target has a status. That there is a newest file (`Bounded`) is needed
  for the time a new one gets.

The other theorems are about *plain* makefiles (`Plain`): single-colon rules of
one target each, no intermediate files. Everything else is free: the files and
how many there are, the graph with circles, order-only prerequisites, phony
targets, missing recipes, `-k`, `-j`, several goals, and how the jobs end in
between.

* `ReadyHolds`: a recipe is started only when all prerequisites are made.
* `StartedOnceHolds`: and at most once.
* `FailureReachesTheGoalHolds`: a failure is found in everything above it and in
  the exit status, and neither is made up.
* `UpToDateHolds`: what was not remade is as new as its prerequisites are, which
  may have been made after it was looked at.
* `NothingForgottenHolds`: with `-k`, or without a failure, everything the goals
  need has been dealt with at the end.

Each excluded kind has a reason. With double-colon targets `Ready` is false
(PrunedFailure). Targets made together end with one status though their
prerequisites may differ (Siblings), and an intermediate file may be left
*deps_running* ("Seen while modelling"): what a file's state says of its
prerequisites is true of neither kind.

`PlainInv`, the inductive invariant, has these parts:

* The path. `Linked` says of two neighbours on the stack which arguments the one
  was called with. `Apart`: no file is considered below itself; this is what the
  `updating` marks are for, so `Marked` and `OnPath` say that exactly the files on
  the path bear one, however the walk is left. It is why dropping a circular
  prerequisite cannot drop one that has been made.
* The files. `FileSound` relates `updated`, `command_state`, `update_status`,
  `recipe` and the jobs of each file, and says what a state tells about the
  prerequisites: all made if the file is running or made, all dealt with under
  `-k`, none newer if its recipe was not run.
* The frames. `WalkSound` is the loop invariant of `update_file_1`: if nothing it
  asked for is running and nothing failed fatally, the prerequisites asked for
  so far are updated, made if `dep_status` is 0, and none missing or newer if
  `must_make` is not set. The times a frame holds are as old as its call; they
  stay right because a file is not touched again once it is updated.
* The answers. `AnswerSound` says what a return value tells about the file that
  was asked for. It is here that pruning matters: `update_file` answers 0 for a
  file already considered, and that must not be taken for made.
* The passes. In the first pass, what counts as considered has been begun or is
  on the stack (`FirstPass`); in later ones every file that is met was dealt with
  in the first (`LaterPass`), because from each target that waits the
  prerequisites have been walked, up to a failure that ended the walk
  (`WalkedFrom`). So a file that `update_file` prunes is never *not_started*, and
  the answer 0 means that it is running or made.
* The goals. `GoalsSound`: a goal that was crossed off is updated, and `status`
  knows if it failed.

`NothingForgottenHolds` needs one more, `BegunReached`: what make takes up is
reached from the goals along the prerequisites that are left. It is inductive
because the edge that is dropped leads back to the path make is on, and that
path does not use it (`ReachedWithout`). If the goals succeeded, the made files
are closed under prerequisites, so everything that was taken up is made.

`MakefilesAssumption` says what a makefile is, among others that the entries of
a double-colon target share one chain, as `enter_file` links them.

### Ctrl+C (`FatalSignalProofs`)

For any number of jobs and lines (`JobsAssumption`, `LinesAssumption`):

* `Invariance`: `Spec => []IInv`, and `AlwaysConsistent`, the part of it that the
  comment in `reap_children` asks for: chain, slots and tokens differ by what
  the statement in hand of each thread accounts for, and never by more.
* `AlwaysAwaited`: the processes waited for are the slots taken, but for the
  child a thread is dealing with. This says precisely where the handler can
  hang: a stopped main thread counts one here for ever.
* `NeverAbandoned`: of the running processes at most one is not waited for, and
  when the handler leaves make, at most the command that was being launched
  runs.

`IInv` is inductive by itself: `Consistent` counts with `One(t, places)`, which
is 1 while a thread is between the two statements in question. The proof treats
`ReapChildren` of each thread apart, as the handler leaves the loop when its
last slot is free and the main thread does not.

### Hash tables (`HashTableProofs`)

For all items, names, hash values and sizes, from `NamesAssumption`,
`SizeAssumption`, `ComparisonAssumption` (the comparison tells names apart: true of variables and
functions, not of files and cached strings) and `ProbesAssumption` (an odd
increment reaches every slot of a table whose size is a power of two, what
`hash.c` says at lines 31-36):

* `Invariance`: the inductive invariant, in use and during a rebuild;
  `TypeCorrect`, `SearchesEnd`, `CountersRight`, `NamesOnce` and `ItemsReached`
  are its parts that matter. The argument: a search passes only occupied and deleted slots, so
  an item is found if no empty slot is before it (`Reachable`), an insertion
  never empties a slot, and a deletion leaves a mark. The counters are needed
  for `SearchesEnd`: `ht_empty_slots` is exact, and the table is rebuilt before
  it is 0; during a rebuild `ht_fill` bounds what is still to be put in.
* `Refinement`: `Spec => D!Spec`. The items still in the old table belong to the
  dictionary, so that moving one is a stutter.

### ncompress (`LzwProofs`)

For any texts, any buffers and any widths that satisfy the four assumptions
above (so for the program's own 256, 9 to 16, 8 and `OBUFSIZ`), and any choice of
where CLEAR comes:

* `TextRestored`: `Spec => []Restored`. decompress calls no file of compress
  corrupt, and when it is done it has put out the text.
* `TypeCorrect`: `Spec => []TypeOK`. The 32 bytes that a chunk leaves free in
  `outbuf` are enough, `inbuf` is, and no entry gets a code of more than
  `maxbits` bits.

The premise `Modes` excludes `-C` and `-b 9`, with which `Restored` is false (see
"Seen while modelling" and NineBits).

The two programs have nothing in common but the file, whose bits do not say
where a code begins. So `IInv` says: there is a log of the codes that were
written, each with its width, the place of its group, its number since the last
CLEAR and how much of the text it completes, such that

* the log is a possible one (`Log`): each entry is where the one before ends or, if
  the width has changed or CLEAR was written, where the group ends (`Shaped`,
  `After`); its code fits its width (`Sized`), for `output` does not mask it, and
  is in the table by then (`Known`); and the string it stands for is the piece of the text it
  completes (`Told`, `Denotes`);
* the file has these codes' bits and no others before the place where the next
  one goes (`Placed`);
* while compress runs its variables are what the log says (`Synced`): the next
  free code and the width (`Counting`), the place, group by group, whatever
  was flushed (`Aligned`), each pair in the table (`Table`), and the string of the
  pending code (`Pending`). `Between` and `InChunkBounds` are the loop invariants
  that say how far a chunk may go: it ends before the width does and before
  `outbuf` does;
* decompress has read a first part of the log (`Tracks`), its variables are what
  that part says (`InStep`, `Entries`), and it has put out the text up to there
  (`Decoded`). Its table is one entry behind the log's, so the width changes at
  the same code although the two conditions in the code differ; `Grouped` and
  `AtGroup` say where `inbuf` begins.

The string of a code is not stored anywhere, and two programs find it in two
ways: compress extends a code it has by a byte, decompress follows prefixes.
`Denotes` says what both come to: the string of an entry is the piece of text that
completed the entry before, and one byte more. `SameString` is that two pieces
denoted by one code are equal; `Expanded` is that the chain of prefixes
spells it, by the least code for which it would not, as the
prefix of an entry is smaller. `StringRead` has the case of a code that is not in
the table yet, where the piece overlaps itself. For every action there is a
lemma that it keeps the invariant (`FillKeeps` to `NextCodeKeeps`).

### Model-checked only

* Everything under fairness (`Termination`, `AllDone`, `DeferredRun`,
  `ShellReturns`, `Ends`, `HandlerEnds`, `RoundTrip`, the liveness of
  `WaitsForAny`): beyond the prover.
* `Ready`, `StartedOnce`, `FailureReachesTheGoal`, `UpToDate` and
  `NothingForgotten` for the intermediate files, double-colon targets and targets
  made together of the run Remake.

## What is not modelled

* Job control: remote jobs (stubs in this build) and the jobserver
  (`MAKE_JOBSERVER` is not defined for Windows); touch mode; `good_stdin`
  (written, never used in this build); running out of memory in
  `process_init_fd`; deletion of targets.
* Dependency engine: `-t`, `-n` and `-q` in the traversal, always-make, remaking
  makefiles, renaming by VPATH, implicit rules (their result is given). The
  composition of `Remake` with `JobControl`: the product of the two is too
  large, and `JobControl` takes the targets in any order, which includes every
  order `Remake` takes them in.
* Ctrl+C before the first wait, during a `$(shell)` or a built-in command;
  SIGTERM's `kill`.
* Hash tables: `hash_map`, `hash_dump` and the statistics, which change no
  table; `hash_load` is a loop of `hash_insert`, `hash_free` ends a table.
* ncompress: names, modes and times of files, options, corrupt input, pipes that
  return less than was asked for.
* Reading makefiles, variables and rules is text processing of one thread;
  directories, archives and vpath are calls of the file system.
* The other tools. Most are third-party programs, compilers, interpreters and
  filters, each one sequential and defined by the text it puts out; gcc alone
  is half a million lines. There is little in them that a model of small bounds
  would say and a test would not.

## Next steps

1. `Remake` beyond plain makefiles: `StartedOnce` and `Ready` with `also_make`
   under the premise that siblings have the same prerequisites.
2. Weaker premises: `NoBuiltins` only for the recipes that run beside others.
3. Further algorithms: the block cache of less (`ch.c`), the limits of xargs,
   the merge of sort.
