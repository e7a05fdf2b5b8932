---------------------------- MODULE RemakeProofs ----------------------------
(***************************************************************************)
(* Theorems about Remake: the types, for every makefile; and that plain    *)
(* makefiles are carried out as they should be.                            *)
(***************************************************************************)
EXTENDS Remake, ChainLemmas

-----------------------------------------------------------------------------
(* Types                                                                   *)

GoalsFrames ==
    [proc : {"update_goal_chain"}, g : Nat, n : Nat \ {0}, undone : BOOLEAN]
UpdateFileFrames ==
    [proc : {"update_file"}, file : Files, n : Nat, d : Nat, status : 0..2]
UpdateFile1Frames ==
    [proc : {"update_file_1"}, file : Files,
     at : {"entry", "deps", "intermediates", "decide", "make", "made"},
     i : Nat \ {0}, mtime : Nat, must_make : BOOLEAN, status : 0..2,
     running : BOOLEAN]
CheckDepFrames ==
    [proc : {"check_dep"}, file : Files, at : {"entry", "updated", "deps"},
     i : Nat \ {0}, mtime : Nat, must_make : BOOLEAN, status : 0..2]
NewJobFrames == [proc : {"new_job"}, file : Files, started : BOOLEAN]
Frames == GoalsFrames \cup UpdateFileFrames \cup UpdateFile1Frames
              \cup CheckDepFrames \cup NewJobFrames

(* The places of the procedures in the chains of double-colon entries.     *)
Placed(F) ==
    /\ F.proc = "update_goal_chain" /\ F.g \in 1..Len(goals) =>
          F.n <= Len(Entries(goals[F.g]))
    /\ F.proc = "update_file" =>
          /\ F.n <= Len(Entries(F.file))
          /\ F.d > 0 => F.n > 0

(* A procedure that has called another.                                    *)
Calls(F) ==
    /\ F.proc = "update_goal_chain" => F.g \in 1..Len(goals)
    /\ F.proc = "update_file" => F.n > 0

StackOK ==
    /\ stack \in Seq(Frames)
    /\ stack = << >> <=> pc \in {"done", "die"}
    /\ \A k \in 1..Len(stack) :
          /\ Placed(stack[k])
          /\ stack[k].proc = "update_goal_chain" <=> k = Len(stack)
          /\ k > 1 \/ pc = "return" => Calls(stack[k])

(* There is a newest file.                                                 *)
Bounded == \E b \in Nat : \A f \in Files : last_mtime[f] <= b
Noticed == \A f \in Files : command_state[f] = "finished" => update_status[f] # -1

TypeInv == TypeOK /\ StackOK /\ Bounded /\ Noticed

-----------------------------------------------------------------------------
LEMMA FrameTypes ==
  ASSUME NEW F \in Frames
  PROVE  /\ F.proc = "update_goal_chain" => F \in GoalsFrames
         /\ F.proc = "update_file" => F \in UpdateFileFrames
         /\ F.proc = "update_file_1" => F \in UpdateFile1Frames
         /\ F.proc = "check_dep" => F \in CheckDepFrames
         /\ F.proc = "new_job" => F \in NewJobFrames
PROOF
<1>1. /\ \A G \in GoalsFrames : G.proc = "update_goal_chain"
      /\ \A G \in UpdateFileFrames : G.proc = "update_file"
      /\ \A G \in UpdateFile1Frames : G.proc = "update_file_1"
      /\ \A G \in CheckDepFrames : G.proc = "check_dep"
      /\ \A G \in NewJobFrames : G.proc = "new_job"
  BY DEF GoalsFrames, UpdateFileFrames, UpdateFile1Frames, CheckDepFrames,
         NewJobFrames
<1> QED BY <1>1 DEF Frames

LEMMA RuleTypes ==
  ASSUME makefile \in Makefiles
  PROVE  /\ makefile.deps \in [Files -> Seq(Dep)]
         /\ makefile.double_colon \in [Files -> Seq(Files)]
         /\ makefile.goals \in Seq(Files)
         /\ makefile.phony \subseteq Files /\ makefile.intermediate \subseteq Files
         /\ makefile.also_make \in [Files -> SUBSET Files]
PROOF
BY MakefilesAssumption

(* The entries of a double-colon target, or the one target itself.         *)
LEMMA EntriesProperties ==
  ASSUME makefile \in Makefiles, NEW f \in Files
  PROVE  /\ Entries(f) \in Seq(Files)
         /\ Len(Entries(f)) \in Nat \ {0}
         /\ \A n \in 1..Len(Entries(f)) :
               /\ Entries(f)[n] \in Files
               /\ Entries(Entries(f)[n]) = Entries(f)
         /\ FirstEntry(f) \in Files
         /\ ToSet(Entries(f)) \subseteq Files
         /\ ToSet(Entries(f)) # {}
PROOF
<1>1. makefile.double_colon[f] \in Seq(Files)
  BY RuleTypes
<1>2. Entries(f) \in Seq(Files) /\ Entries(f) # << >>
  BY <1>1 DEF Entries
<1>3. Len(Entries(f)) \in Nat \ {0}
  BY <1>2, EmptySeq
<1>4. \A n \in 1..Len(Entries(f)) : Entries(f)[n] \in Files
  BY <1>2, ElementOfSeq
<1>5. FirstEntry(f) \in Files
  BY <1>2, HeadTailProperties DEF FirstEntry
<1>6. ASSUME NEW n \in 1..Len(Entries(f))
      PROVE  Entries(Entries(f)[n]) = Entries(f)
  <2>1. CASE makefile.double_colon[f] = << >>
    <3>1. Entries(f) = <<f>> /\ n = 1
      BY <1>6, <2>1 DEF Entries
    <3> QED BY <3>1
  <2>2. CASE makefile.double_colon[f] # << >>
    <3>1. Entries(f) = makefile.double_colon[f]
      BY <2>2 DEF Entries
    <3>2. Entries(f)[n] \in ToSet(makefile.double_colon[f])
      BY <1>1, <1>6, <3>1, LenProperties DEF ToSet
    <3>3. makefile.double_colon[Entries(f)[n]] = makefile.double_colon[f]
      BY <3>2, MakefilesAssumption
    <3> QED BY <2>2, <3>1, <3>3 DEF Entries
  <2> QED BY <2>1, <2>2
<1>7. ToSet(Entries(f)) = {Entries(f)[n] : n \in 1..Len(Entries(f))}
  BY <1>2, LenProperties DEF ToSet
<1> QED BY <1>2, <1>3, <1>4, <1>5, <1>6, <1>7

-----------------------------------------------------------------------------
(* The thread calls, goes on and returns.                                  *)

LEMMA TopOfStack ==
  ASSUME StackOK, stack # << >>
  PROVE  /\ Top = stack[1] /\ Top \in Frames /\ Len(stack) \in Nat \ {0}
         /\ Tail(stack) \in Seq(Frames) /\ Len(Tail(stack)) = Len(stack) - 1
         /\ \A k \in 1..(Len(stack) - 1) : Tail(stack)[k] = stack[k + 1]
         /\ Placed(Top)
         /\ pc = "return" => Calls(Top)
         /\ Top.proc = "update_goal_chain" <=> Len(stack) = 1
PROOF
<1>1. stack \in Seq(Frames) /\ Len(stack) \in Nat \ {0}
  BY EmptySeq DEF StackOK
<1>2. /\ Top = stack[1] /\ Top \in Frames
      /\ Tail(stack) \in Seq(Frames) /\ Len(Tail(stack)) = Len(stack) - 1
      /\ \A k \in 1..(Len(stack) - 1) : Tail(stack)[k] = stack[k + 1]
  BY <1>1, HeadTailProperties DEF Top
<1>3. 1 \in 1..Len(stack)
  BY <1>1
<1> QED BY <1>1, <1>2, <1>3 DEF StackOK

LEMMA GotoStack ==
  ASSUME StackOK, stack # << >>, NEW F, Goto(F)
  PROVE  /\ Len(stack') = Len(stack)
         /\ stack'[1] = F
         /\ \A k \in 2..Len(stack) : stack'[k] = stack[k]
         /\ F \in Frames => stack' \in Seq(Frames)
         /\ stack' # << >>
PROOF
<1>1. /\ Len(stack) \in Nat \ {0}
      /\ Tail(stack) \in Seq(Frames) /\ Len(Tail(stack)) = Len(stack) - 1
      /\ \A k \in 1..(Len(stack) - 1) : Tail(stack)[k] = stack[k + 1]
  BY TopOfStack
<1>2. stack' = <<F>> \o Tail(stack)
  BY DEF Goto
<1>3. <<F>> \in Seq(Frames \cup {F}) /\ Tail(stack) \in Seq(Frames \cup {F})
  BY <1>1, SeqMonotonic
<1>4. /\ Len(stack') = 1 + Len(Tail(stack))
      /\ \A k \in 1..(1 + Len(Tail(stack))) :
            stack'[k] = IF k <= 1 THEN <<F>>[k] ELSE Tail(stack)[k - 1]
  BY <1>2, <1>3, ConcatProperties, Len(<<F>>) = 1
<1>5. Len(stack') = Len(stack) /\ stack'[1] = F
  BY <1>1, <1>4
<1>6. ASSUME NEW k \in 2..Len(stack) PROVE stack'[k] = stack[k]
  <2>1. k \in 1..(1 + Len(Tail(stack))) /\ ~(k <= 1) /\ k - 1 \in 1..(Len(stack) - 1)
    BY <1>1
  <2> QED BY <1>1, <1>4, <2>1
<1>7. F \in Frames => stack' \in Seq(Frames)
  BY <1>1, <1>2, ConcatProperties
<1> QED BY <1>1, <1>5, <1>6, <1>7

LEMMA CallStack ==
  ASSUME StackOK, stack # << >>, NEW F, NEW G, Call(F, G)
  PROVE  /\ Len(stack') = Len(stack) + 1
         /\ stack'[1] = G
         /\ stack'[2] = F
         /\ \A k \in 3..(Len(stack) + 1) : stack'[k] = stack[k - 1]
         /\ F \in Frames /\ G \in Frames => stack' \in Seq(Frames)
         /\ stack' # << >>
PROOF
<1>1. /\ Len(stack) \in Nat \ {0}
      /\ Tail(stack) \in Seq(Frames) /\ Len(Tail(stack)) = Len(stack) - 1
      /\ \A k \in 1..(Len(stack) - 1) : Tail(stack)[k] = stack[k + 1]
  BY TopOfStack
<1>2. stack' = <<G, F>> \o Tail(stack)
  BY DEF Call
<1>3. <<G, F>> \in Seq(Frames \cup {F, G}) /\ Tail(stack) \in Seq(Frames \cup {F, G})
  BY <1>1, SeqMonotonic
<1>4. /\ Len(stack') = 2 + Len(Tail(stack))
      /\ \A k \in 1..(2 + Len(Tail(stack))) :
            stack'[k] = IF k <= 2 THEN <<G, F>>[k] ELSE Tail(stack)[k - 2]
  BY <1>2, <1>3, ConcatProperties, Len(<<G, F>>) = 2
<1>5. Len(stack') = Len(stack) + 1 /\ stack'[1] = G /\ stack'[2] = F
  BY <1>1, <1>4
<1>6. ASSUME NEW k \in 3..(Len(stack) + 1) PROVE stack'[k] = stack[k - 1]
  <2>1. k \in 1..(2 + Len(Tail(stack))) /\ ~(k <= 2) /\ k - 2 \in 1..(Len(stack) - 1)
    BY <1>1
  <2> QED BY <1>1, <1>4, <2>1
<1>7. F \in Frames /\ G \in Frames => stack' \in Seq(Frames)
  BY <1>1, <1>2, ConcatProperties
<1> QED BY <1>1, <1>5, <1>6, <1>7

LEMMA ReturnStack ==
  ASSUME StackOK, stack # << >>, NEW s, NEW must_make, Return(s, must_make)
  PROVE  /\ Len(stack') = Len(stack) - 1
         /\ \A k \in 1..(Len(stack) - 1) : stack'[k] = stack[k + 1]
         /\ stack' \in Seq(Frames)
PROOF
BY TopOfStack DEF Return

LEMMA GoesOn ==
  ASSUME StackOK, stack # << >>, UNCHANGED makefile, UNCHANGED goals \/ Len(stack) = 1,
         NEW F \in Frames, F.proc = Top.proc, Placed(F)', Goto(F)
  PROVE  StackOK'
PROOF
<1>1. /\ Len(stack) \in Nat \ {0} /\ Top = stack[1]
  BY TopOfStack
<1>2. /\ Len(stack') = Len(stack) /\ stack'[1] = F
      /\ \A k \in 2..Len(stack) : stack'[k] = stack[k]
      /\ stack' \in Seq(Frames) /\ stack' # << >>
  BY GotoStack
<1>3. pc' = "call"
  BY DEF Goto
<1>4. ASSUME NEW k \in 1..Len(stack')
      PROVE  /\ Placed(stack[k])'
             /\ stack'[k].proc = "update_goal_chain" <=> k = Len(stack')
             /\ k > 1 \/ pc' = "return" => Calls(stack[k])'
  <2>1. CASE k = 1
    <3>1. stack'[k] = F /\ stack[1].proc = F.proc /\ 1 \in 1..Len(stack)
      BY <1>1, <1>2, <2>1
    <3> QED BY <1>2, <1>3, <2>1, <3>1 DEF StackOK, Placed
  <2>2. CASE k # 1
    <3>1. k \in 2..Len(stack) /\ stack'[k] = stack[k] /\ UNCHANGED <<makefile, goals>>
      BY <1>1, <1>2, <1>4, <2>2
    <3>2. /\ Placed(stack[k]) /\ Calls(stack[k])
          /\ stack[k].proc = "update_goal_chain" <=> k = Len(stack)
      BY <3>1 DEF StackOK
    <3> QED BY <1>2, <3>1, <3>2 DEF Placed, Calls, Entries
  <2> QED BY <2>1, <2>2
<1> QED BY <1>2, <1>3, <1>4 DEF StackOK

LEMMA CallsOn ==
  ASSUME StackOK, stack # << >>, UNCHANGED <<makefile, goals>>,
         NEW F \in Frames, F.proc = Top.proc, Placed(F), Calls(F),
         NEW G \in Frames, G.proc # "update_goal_chain", Placed(G), Call(F, G)
  PROVE  StackOK'
PROOF
<1>1. /\ Len(stack) \in Nat \ {0} /\ Top = stack[1]
  BY TopOfStack
<1>2. /\ Len(stack') = Len(stack) + 1 /\ stack'[1] = G /\ stack'[2] = F
      /\ \A k \in 3..(Len(stack) + 1) : stack'[k] = stack[k - 1]
      /\ stack' \in Seq(Frames) /\ stack' # << >>
  BY CallStack
<1>3. pc' = "call"
  BY DEF Call
<1>4. ASSUME NEW k \in 1..Len(stack')
      PROVE  /\ Placed(stack[k])'
             /\ stack'[k].proc = "update_goal_chain" <=> k = Len(stack')
             /\ k > 1 \/ pc' = "return" => Calls(stack[k])'
  <2>1. CASE k = 1
    BY <1>1, <1>2, <1>3, <2>1 DEF Placed, Entries
  <2>2. CASE k = 2
    <3>1. stack'[k] = F /\ stack[1].proc = F.proc /\ 1 \in 1..Len(stack)
      BY <1>1, <1>2, <2>2
    <3>2. F.proc = "update_goal_chain" <=> 1 = Len(stack)
      BY <3>1 DEF StackOK
    <3>3. UNCHANGED <<makefile, goals>> /\ Placed(F) /\ Calls(F)
      OBVIOUS
    <3>4. Placed(F)' /\ Calls(F)'
      BY <3>3 DEF Placed, Calls, Entries
    <3>5. Placed(stack[k])' /\ Calls(stack[k])'
      BY <3>1, <3>4 DEF Placed, Calls, Entries
    <3>6. stack'[k].proc = "update_goal_chain" <=> k = Len(stack')
      <4>1. Len(stack) \in Int /\ Len(stack') = Len(stack) + 1 /\ k = 2
        BY <1>1, <1>2, <2>2
      <4>2. stack'[k] = F
        BY <3>1
      <4>3. \A m \in Int : 2 = m + 1 <=> 1 = m
        OBVIOUS
      <4>4. 2 = Len(stack) + 1 <=> 1 = Len(stack)
        BY <4>1, <4>3, Zenon
      <4>5. k = Len(stack') <=> 1 = Len(stack)
        BY <4>1, <4>4, Zenon
      <4> QED BY <3>2, <4>2, <4>5
    <3> QED BY <3>5, <3>6
  <2>3. CASE k > 2
    <3>1. k - 1 \in 2..Len(stack) /\ stack'[k] = stack[k - 1]
      BY <1>1, <1>2, <1>4, <2>3
    <3>2. /\ Placed(stack[k - 1]) /\ Calls(stack[k - 1])
          /\ stack[k - 1].proc = "update_goal_chain" <=> k - 1 = Len(stack)
      BY <3>1 DEF StackOK
    <3> QED BY <1>1, <1>2, <3>1, <3>2 DEF Placed, Calls, Entries
  <2> QED BY <1>2, <2>1, <2>2, <2>3
<1> QED BY <1>2, <1>3, <1>4 DEF StackOK

LEMMA ReturnsTo ==
  ASSUME StackOK, stack # << >>, UNCHANGED <<makefile, goals>>,
         Top.proc # "update_goal_chain", NEW s, NEW must_make, Return(s, must_make)
  PROVE  StackOK'
PROOF
<1>1. /\ Len(stack) \in Nat \ {0} /\ Len(stack) # 1 /\ Top = stack[1]
  BY TopOfStack
<1>2. /\ Len(stack') = Len(stack) - 1
      /\ \A k \in 1..(Len(stack) - 1) : stack'[k] = stack[k + 1]
      /\ stack' \in Seq(Frames)
  BY ReturnStack
<1>3. stack' # << >>
  <2>1. Len(stack') # 0
    BY <1>1, <1>2
  <2> QED BY <2>1, EmptySeq
<1>4. pc' = "return"
  BY DEF Return
<1>5. ASSUME NEW k \in 1..Len(stack')
      PROVE  /\ Placed(stack[k])'
             /\ stack'[k].proc = "update_goal_chain" <=> k = Len(stack')
             /\ Calls(stack[k])'
  <2>1. k + 1 \in 2..Len(stack) /\ stack'[k] = stack[k + 1]
    BY <1>1, <1>2, <1>5
  <2>2. /\ Placed(stack[k + 1]) /\ Calls(stack[k + 1])
        /\ stack[k + 1].proc = "update_goal_chain" <=> k + 1 = Len(stack)
    BY <2>1 DEF StackOK
  <2> QED BY <1>1, <1>2, <2>1, <2>2 DEF Placed, Calls, Entries
<1> QED BY <1>2, <1>3, <1>4, <1>5 DEF StackOK

LEMMA StaysPut ==
  ASSUME StackOK, UNCHANGED <<makefile, goals, stack, pc>>
  PROVE  StackOK'
PROOF
BY DEF StackOK, Placed, Calls, Entries

LEMMA Stops ==
  ASSUME stack' = << >>, pc' \in {"done", "die"}
  PROVE  StackOK'
PROOF
BY EmptySeq DEF StackOK

-----------------------------------------------------------------------------
(* notice_finished_file and set_command_state keep the types.              *)
FilesOK ==
    /\ command_state \in [Files -> Busy \cup {"not_started", "finished"}]
    /\ update_status \in [Files -> -1..2]
    /\ updated \in SUBSET Files
    /\ last_mtime \in [Files -> Nat]
    /\ Bounded /\ Noticed

LEMMA SetCommandStateType ==
  ASSUME FilesOK, NEW f \in Files, NEW state \in Busy \cup {"not_started"},
         SetCommandState(f, state), UNCHANGED <<update_status, updated, last_mtime>>
  PROVE  FilesOK'
PROOF
BY DEF FilesOK, SetCommandState, Bounded, Noticed, Busy

LEMMA NoticeType ==
  ASSUME FilesOK, makefile \in Makefiles, NEW f \in Files, NEW s \in -1..2,
         NEW ran \in BOOLEAN, NEW touched \in BOOLEAN, Notice(f, s, ran, touched)
  PROVE  FilesOK'
PROOF
<1> DEFINE siblings == IF ran /\ s # -1 THEN makefile.also_make[f] ELSE {}
           result == IF s = -1 THEN 0 ELSE s
           mtime(g) == CASE g \in makefile.phony -> last_mtime[g]
                         [] g \notin makefile.phony /\ touched -> Now
                         [] OTHER -> Disk(g)
           alone == [g \in Files |-> IF ran /\ g \in {f} \cup siblings
                                     THEN mtime(g) ELSE last_mtime[g]]
           all == ToSet(Entries(f))
<1>1. siblings \subseteq Files
  BY RuleTypes
<1>2. result \in 0..2
  OBVIOUS
<1>3. /\ command_state' = [g \in Files |->
            IF g = f \/ g \in siblings THEN "finished" ELSE command_state[g]]
      /\ update_status' = [g \in Files |->
            IF g = f \/ g \in siblings THEN result ELSE update_status[g]]
      /\ updated' = updated \cup {f} \cup siblings
      /\ last_mtime' =
            IF makefile.double_colon[f] # << >> /\ all \subseteq updated \cup {f}
            THEN [g \in Files |-> IF g \in all THEN Max({alone[h] : h \in all})
                                               ELSE alone[g]]
            ELSE alone
  BY Zenon DEF Notice
<1> HIDE DEF siblings, result
<1>4. PICK b \in Nat : \A g \in Files : last_mtime[g] <= b
  BY DEF FilesOK, Bounded
<1>5. Now \in 1..(b + 1)
  <2>1. {last_mtime[g] : g \in Files} \in SUBSET Nat
    BY DEF FilesOK
  <2>2. {last_mtime[g] : g \in Files} # {}
    OBVIOUS
  <2>3. Max({last_mtime[g] : g \in Files}) \in {last_mtime[g] : g \in Files}
    BY <1>4, <2>1, <2>2, Greatest
  <2> QED BY <1>4, <2>1, <2>3 DEF Now
<1>6. ASSUME NEW g \in Files PROVE Disk(g) \in 0..b
  <2>1. ToSet(Entries(g)) \subseteq Files /\ ToSet(Entries(g)) # {}
    BY EntriesProperties
  <2>2. {last_mtime[h] : h \in ToSet(Entries(g))} \in SUBSET Nat
    BY <2>1 DEF FilesOK
  <2>3. {last_mtime[h] : h \in ToSet(Entries(g))} # {}
    BY <2>1
  <2>4. Max({last_mtime[h] : h \in ToSet(Entries(g))})
           \in {last_mtime[h] : h \in ToSet(Entries(g))}
    BY <1>4, <2>1, <2>2, <2>3, Greatest
  <2> QED BY <1>4, <2>1, <2>2, <2>4 DEF Disk
<1>7. \A g \in Files : mtime(g) \in 0..(b + 1)
  <2> TAKE g \in Files
  <2>1. last_mtime[g] \in 0..b
    BY <1>4 DEF FilesOK
  <2> QED BY <1>4, <1>5, <1>6, <2>1
<1> HIDE DEF mtime
<1>8. alone \in [Files -> 0..(b + 1)]
  BY <1>4, <1>7 DEF FilesOK
<1> HIDE DEF alone
<1>9. Max({alone[h] : h \in all}) \in 0..(b + 1)
  <2> DEFINE S == {alone[h] : h \in all}
  <2>1. all \subseteq Files /\ all # {}
    BY EntriesProperties
  <2>2. S \subseteq 0..(b + 1) /\ S # {}
    BY <1>8, <2>1
  <2>3. S \in SUBSET Nat /\ b + 1 \in Nat /\ \A x \in S : x <= b + 1
    BY <1>4, <2>2
  <2> HIDE DEF S
  <2>4. Max(S) \in S
    BY <2>2, <2>3, Greatest
  <2>5. Max(S) \in 0..(b + 1)
    BY <2>2, <2>4
  <2> QED BY <2>5 DEF S
<1>10. last_mtime' \in [Files -> 0..(b + 1)]
  BY <1>3, <1>8, <1>9
<1>11. last_mtime' \in [Files -> Nat] /\ Bounded'
  BY <1>4, <1>10 DEF Bounded
<1>12. /\ command_state' \in [Files -> Busy \cup {"not_started", "finished"}]
       /\ update_status' \in [Files -> -1..2]
       /\ updated' \in SUBSET Files
  BY <1>1, <1>2, <1>3 DEF FilesOK
<1>13. Noticed'
  BY <1>2, <1>3 DEF FilesOK, Noticed
<1> QED BY <1>11, <1>12, <1>13 DEF FilesOK


-----------------------------------------------------------------------------
(* Every step keeps the types.                                             *)
RestOK ==
    /\ makefile \in Makefiles
    /\ deps \in [Files -> Seq(Dep)]
    /\ {updating, visited, jobs} \subseteq SUBSET Files
    /\ recipe \in [Files -> {"idle", "started", "over"}]
    /\ goals \in Seq(Files)
    /\ status \in -1..2
AnswerOK ==
    /\ pc \in {"call", "return", "done", "die"}
    /\ ret \in [status : 0..2, must_make : BOOLEAN]

LEMMA TypeParts ==
  /\ TypeInv <=> FilesOK /\ RestOK /\ AnswerOK /\ StackOK
  /\ (FilesOK /\ RestOK /\ AnswerOK /\ StackOK => TypeInv)'
PROOF
BY DEF TypeInv, TypeOK, FilesOK, RestOK, AnswerOK

LEMMA FilesUnchanged ==
  ASSUME FilesOK, UNCHANGED <<command_state, update_status, updated, last_mtime>>
  PROVE  FilesOK'
PROOF
BY DEF FilesOK, Bounded, Noticed

LEMMA AnswerTypes ==
  /\ \A F : Goto(F) => AnswerOK'
  /\ \A F, G : Call(F, G) => AnswerOK'
  /\ \A s \in 0..2, must_make \in BOOLEAN : Return(s, must_make) => AnswerOK'
  /\ AnswerOK /\ UNCHANGED <<pc, ret>> => AnswerOK'
  /\ Die => AnswerOK' /\ StackOK'
PROOF
<1>0. NoRet \in [status : 0..2, must_make : BOOLEAN]
  BY DEF NoRet
<1>1. ASSUME NEW F, Goto(F) PROVE AnswerOK'
  BY <1>0, <1>1 DEF Goto, AnswerOK
<1>5. ASSUME NEW F, NEW G, Call(F, G) PROVE AnswerOK'
  BY <1>0, <1>5 DEF Call, AnswerOK
<1>2. ASSUME NEW s \in 0..2, NEW must_make \in BOOLEAN, Return(s, must_make)
      PROVE  AnswerOK'
  BY <1>2 DEF Return, AnswerOK
<1>3. AnswerOK /\ UNCHANGED <<pc, ret>> => AnswerOK'
  BY DEF AnswerOK
<1>4. Die => AnswerOK' /\ StackOK'
  BY <1>0, Stops DEF Die, AnswerOK
<1> QED BY <1>1, <1>2, <1>3, <1>4, <1>5

(* What a procedure's frame is when one of its variables changes.          *)
LEMMA UpdateFileFields ==
  ASSUME NEW F \in UpdateFileFrames
  PROVE  /\ \A n \in Nat : LET G == [F EXCEPT !.n = n] IN
               G \in UpdateFileFrames /\ G.n = n /\ G.file = F.file
         /\ \A d \in Nat : LET G == [F EXCEPT !.d = d] IN
               G \in UpdateFileFrames /\ G.n = F.n /\ G.file = F.file
         /\ \A s \in 0..2 : LET G == [F EXCEPT !.status = s] IN
               G \in UpdateFileFrames /\ G.n = F.n /\ G.file = F.file
PROOF
BY DEF UpdateFileFrames

(* A procedure goes on where it is called with the arguments it is meant   *)
(* for.                                                                    *)
LEMMA NewFrames ==
  ASSUME FilesOK, RestOK, NEW f \in Files
  PROVE  /\ UpdateFile(f) \in UpdateFileFrames /\ UpdateFile(f) \in Frames
         /\ UpdateFile1(f) \in UpdateFile1Frames /\ UpdateFile1(f) \in Frames
         /\ NewJob(f) \in NewJobFrames /\ NewJob(f) \in Frames
         /\ Placed(UpdateFile(f)) /\ Placed(UpdateFile1(f)) /\ Placed(NewJob(f))
         /\ \A mtime \in Nat, must_make \in BOOLEAN :
               /\ CheckDep(f, mtime, must_make) \in CheckDepFrames
               /\ CheckDep(f, mtime, must_make) \in Frames
               /\ Placed(CheckDep(f, mtime, must_make))
PROOF
<1>1. last_mtime[f] \in Nat
  BY DEF FilesOK
<1>2. /\ UpdateFile(f) \in UpdateFileFrames
      /\ UpdateFile1(f) \in UpdateFile1Frames
      /\ NewJob(f) \in NewJobFrames
  BY <1>1 DEF UpdateFile, UpdateFile1, NewJob, UpdateFileFrames, UpdateFile1Frames,
              NewJobFrames
<1>3. \A mtime \in Nat, must_make \in BOOLEAN :
         CheckDep(f, mtime, must_make) \in CheckDepFrames
  BY DEF CheckDep, CheckDepFrames
<1>4. /\ UpdateFile(f).proc = "update_file" /\ UpdateFile(f).n = 0 /\ UpdateFile(f).d = 0
      /\ UpdateFile(f).file = f
      /\ UpdateFile1(f).proc = "update_file_1" /\ NewJob(f).proc = "new_job"
      /\ \A mtime, must_make : CheckDep(f, mtime, must_make).proc = "check_dep"
  BY DEF UpdateFile, UpdateFile1, NewJob, CheckDep
<1>5. Len(Entries(f)) \in Nat
  BY EntriesProperties DEF RestOK
<1> QED BY <1>2, <1>3, <1>4, <1>5 DEF Frames, Placed

LEMMA UpdateFileTypes ==
  ASSUME TypeInv, UpdateFileSteps
  PROVE  TypeInv'
PROOF
<1>1. FilesOK /\ RestOK /\ AnswerOK /\ StackOK
  BY TypeParts
<1>2. stack # << >> /\ Top \in UpdateFileFrames /\ Top \in Frames /\ Placed(Top)
  <2>1. stack # << >> /\ Top.proc = "update_file"
    BY DEF UpdateFileSteps, Prune, ConsiderFirstEntry, EntryConsidered,
           StartRemainingDeps, RemainingDepStarted, In
  <2> QED BY <1>1, <2>1, TopOfStack, FrameTypes
<1>3. /\ Top.proc = "update_file" /\ Top.file \in Files /\ Top.n \in Nat
      /\ Top.d \in Nat /\ Top.status \in 0..2
      /\ Top.n <= Len(Entries(Top.file)) /\ (Top.d > 0 => Top.n > 0)
      /\ pc = "return" => Top.n > 0
  BY <1>1, <1>2, TopOfStack DEF UpdateFileFrames, Placed, Calls
<1>4. /\ Len(Entries(Top.file)) \in Nat \ {0}
      /\ \A n \in 1..Len(Entries(Top.file)) : Entries(Top.file)[n] \in Files
      /\ FirstEntry(Top.file) \in Files
  BY <1>1, <1>3, EntriesProperties DEF RestOK
<1>5. ret.status \in 0..2 /\ ret.must_make \in BOOLEAN
  BY <1>1 DEF AnswerOK
<1>6. Or(Top.status, ret.status) \in 0..2
  BY <1>3, <1>5 DEF Or
<1>7. UNCHANGED <<makefile, goals, command_state, update_status, updated, last_mtime>>
      /\ UNCHANGED <<deps, updating, jobs, recipe, status>>
  BY DEF UpdateFileSteps, Prune, ConsiderFirstEntry, EntryConsidered,
         StartRemainingDeps, RemainingDepStarted, file, walk
<1>8. FilesOK'
  BY <1>1, <1>7, FilesUnchanged
<1>10. ASSUME NEW F \in UpdateFileFrames, F.file = Top.file,
              F.n \in 1..Len(Entries(Top.file))
       PROVE  /\ F \in Frames /\ F.proc = Top.proc /\ Placed(F) /\ Calls(F)
              /\ Goto(F) => StackOK'
              /\ \A G \in Frames : Placed(G) /\ G.proc # "update_goal_chain"
                    /\ Call(F, G) => StackOK'
  <2>1. F \in Frames /\ F.proc = "update_file"
    BY <1>10 DEF Frames, UpdateFileFrames
  <2>2. Placed(F) /\ Calls(F)
    BY <1>4, <1>10, <2>1 DEF Placed, Calls
  <2>3. Placed(F)'
    BY <1>7, <2>1, <2>2 DEF Placed, Entries
  <2>4. Goto(F) => StackOK'
    BY <1>1, <1>2, <1>3, <1>7, <2>1, <2>3, GoesOn
  <2>5. \A G \in Frames : Placed(G) /\ G.proc # "update_goal_chain"
                    /\ Call(F, G) => StackOK'
    BY <1>1, <1>2, <1>3, <1>7, <2>1, <2>2, CallsOn
  <2> QED BY <1>3, <2>1, <2>2, <2>4, <2>5
<1>11. ASSUME NEW s \in 0..2, NEW b \in BOOLEAN, Return(s, b)
       PROVE  StackOK' /\ AnswerOK'
  BY <1>1, <1>2, <1>3, <1>7, <1>11, ReturnsTo, AnswerTypes
<1>12. ASSUME NEW f \in Files
       PROVE  /\ UpdateFile(f) \in Frames /\ Placed(UpdateFile(f))
              /\ UpdateFile(f).proc # "update_goal_chain"
              /\ UpdateFile1(f) \in Frames /\ Placed(UpdateFile1(f))
              /\ UpdateFile1(f).proc # "update_goal_chain"
  BY <1>1, NewFrames DEF UpdateFile, UpdateFile1
<1>13. CASE Prune
  <2>1. visited' = visited
    BY <1>13 DEF Prune, walk
  <2>2. Noticed /\ update_status[FirstEntry(Top.file)] \in -1..2
    BY <1>1, <1>4 DEF FilesOK
  <2>3. (IF command_state[FirstEntry(Top.file)] = "finished"
           THEN update_status[FirstEntry(Top.file)] ELSE 0) \in 0..2
    BY <1>4, <2>2 DEF Noticed
  <2>4. StackOK' /\ AnswerOK'
    BY <1>11, <1>13, <2>3 DEF Prune
  <2> QED BY <1>1, <1>7, <1>8, <2>1, <2>4, TypeParts DEF RestOK
<1>14. CASE ConsiderFirstEntry
  <2> DEFINE F == [Top EXCEPT !.n = 1]
             e == FirstEntry(Top.file)
  <2>1. Call(F, UpdateFile1(e)) /\ visited' = visited \cup {e}
    BY <1>14 DEF ConsiderFirstEntry, Consider
  <2>2. F \in UpdateFileFrames /\ F.file = Top.file /\ F.n = 1
    BY <1>2 DEF UpdateFileFrames
  <2> HIDE DEF F
  <2>3. StackOK'
    BY <1>4, <1>10, <1>12, <2>1, <2>2
  <2>4. AnswerOK'
    BY <2>1, AnswerTypes
  <2> QED BY <1>1, <1>4, <1>7, <1>8, <2>1, <2>3, <2>4, TypeParts DEF RestOK
<1>15. CASE EntryConsidered
  <2> DEFINE s == Or(Top.status, ret.status)
             busy == command_state[Entries(Top.file)[Top.n]] \in Busy
  <2>1. Top.n \in 1..Len(Entries(Top.file))
    BY <1>3, <1>4, <1>15 DEF EntryConsidered, In
  <2>2. CASE /\ ~Fatal(s) /\ ~busy /\ Top.n < Len(Entries(Top.file))
             /\ Consider([Top EXCEPT !.n = @ + 1, !.status = s],
                          Entries(Top.file)[Top.n + 1])
    <3> DEFINE F == [Top EXCEPT !.n = @ + 1, !.status = s]
               e == Entries(Top.file)[Top.n + 1]
    <3>1. Call(F, UpdateFile1(e)) /\ visited' = visited \cup {e}
      BY <2>2 DEF Consider
    <3>2. F \in UpdateFileFrames /\ F.file = Top.file
          /\ F.n \in 1..Len(Entries(Top.file))
      <4> DEFINE n == Top.n + 1
                 G == [Top EXCEPT !.n = n]
      <4>1. n \in Nat /\ n \in 1..Len(Entries(Top.file)) /\ s \in 0..2
        BY <1>3, <1>4, <1>6, <2>1, <2>2
      <4> HIDE DEF n, s
      <4>2. G \in UpdateFileFrames /\ G.n = n /\ G.file = Top.file
        BY <1>2, <4>1, UpdateFileFields
      <4> HIDE DEF G
      <4>3. LET H == [G EXCEPT !.status = s] IN
            H \in UpdateFileFrames /\ H.n = n /\ H.file = Top.file
        BY <4>1, <4>2, UpdateFileFields
      <4>4. F = [G EXCEPT !.status = s]
        BY DEF G, n
      <4> HIDE DEF F
      <4> QED BY <4>1, <4>3, <4>4
    <3>3. e \in Files
      BY <1>3, <1>4, <2>1, <2>2
    <3> HIDE DEF F, e
    <3>4. StackOK'
      BY <1>10, <1>12, <3>1, <3>2, <3>3
    <3>5. AnswerOK'
      BY <3>1, AnswerTypes
    <3> QED BY <1>1, <1>7, <1>8, <3>1, <3>3, <3>4, <3>5, TypeParts DEF RestOK
  <2>3. CASE Goto([Top EXCEPT !.d = 1, !.status = 0]) /\ UNCHANGED visited
    <3> DEFINE F == [Top EXCEPT !.d = 1, !.status = 0]
    <3>1. F \in UpdateFileFrames /\ F.file = Top.file
          /\ F.n \in 1..Len(Entries(Top.file))
      <4> DEFINE G == [Top EXCEPT !.d = 1]
      <4>1. G \in UpdateFileFrames /\ G.n = Top.n /\ G.file = Top.file
        BY <1>2, UpdateFileFields
      <4> HIDE DEF G
      <4>2. LET H == [G EXCEPT !.status = 0] IN
            H \in UpdateFileFrames /\ H.n = Top.n /\ H.file = Top.file
        BY <4>1, UpdateFileFields, 0 \in 0..2
      <4>3. F = [G EXCEPT !.status = 0]
        BY DEF G
      <4> HIDE DEF F
      <4> QED BY <2>1, <4>2, <4>3
    <3>2. Goto(F)
      BY <2>3
    <3> HIDE DEF F
    <3>3. StackOK' /\ AnswerOK'
      BY <1>10, <3>1, <3>2, AnswerTypes
    <3> QED BY <1>1, <1>7, <1>8, <2>3, <3>3, TypeParts DEF RestOK
  <2>4. CASE Return(IF busy /\ ~Fatal(s) THEN 0 ELSE s, FALSE) /\ UNCHANGED visited
    <3>1. (IF busy /\ ~Fatal(s) THEN 0 ELSE s) \in 0..2
      BY <1>6
    <3>2. StackOK' /\ AnswerOK'
      BY <1>11, <2>4, <3>1
    <3> QED BY <1>1, <1>7, <1>8, <2>4, <3>2, TypeParts DEF RestOK
  <2> QED BY <1>15, <2>2, <2>3, <2>4 DEF EntryConsidered
<1>16. CASE StartRemainingDeps
  <2> DEFINE e == Entries(Top.file)[Top.n]
  <2>1. Top.n \in 1..Len(Entries(Top.file)) /\ Top.d \in Nat \ {0}
    BY <1>3, <1>4, <1>16 DEF StartRemainingDeps
  <2>2. e \in Files /\ visited' = visited \cup {e}
    BY <1>4, <1>16, <2>1 DEF StartRemainingDeps
  <2>3. CASE /\ Top.d <= Len(deps[e])
             /\ Call([Top EXCEPT !.d = @ + 1], UpdateFile(deps[e][Top.d].file))
    <3> DEFINE F == [Top EXCEPT !.d = @ + 1]
    <3>1. F \in UpdateFileFrames /\ F.file = Top.file
          /\ F.n \in 1..Len(Entries(Top.file))
      BY <1>2, <1>3, <2>1 DEF UpdateFileFrames
    <3>2. deps[e] \in Seq(Dep)
      BY <1>1, <2>2 DEF RestOK
    <3>3. deps[e][Top.d] \in Dep
      BY <2>1, <2>3, <3>2, ElementOfSeq, LenProperties
    <3>4. deps[e][Top.d].file \in Files
      BY <3>3 DEF Dep
    <3>5. Call(F, UpdateFile(deps[e][Top.d].file))
      BY <2>3
    <3> HIDE DEF F, e
    <3>6. StackOK' /\ AnswerOK'
      BY <1>10, <1>12, <3>1, <3>4, <3>5, AnswerTypes
    <3> QED BY <1>1, <1>7, <1>8, <2>2, <3>6, TypeParts DEF RestOK
  <2>4. CASE /\ Top.n < Len(Entries(Top.file))
             /\ Goto([Top EXCEPT !.n = @ + 1, !.d = 1])
    <3> DEFINE F == [Top EXCEPT !.n = @ + 1, !.d = 1]
    <3>1. F \in UpdateFileFrames /\ F.file = Top.file
          /\ F.n \in 1..Len(Entries(Top.file))
      <4> DEFINE n == Top.n + 1
                 G == [Top EXCEPT !.n = n]
      <4>1. n \in Nat /\ n \in 1..Len(Entries(Top.file))
        BY <1>3, <1>4, <2>1, <2>4
      <4> HIDE DEF n
      <4>2. G \in UpdateFileFrames /\ G.n = n /\ G.file = Top.file
        BY <1>2, <4>1, UpdateFileFields
      <4> HIDE DEF G
      <4>3. LET H == [G EXCEPT !.d = 1] IN
            H \in UpdateFileFrames /\ H.n = n /\ H.file = Top.file
        BY <4>2, UpdateFileFields
      <4> QED BY <4>1, <4>3 DEF G, n
    <3>2. Goto(F)
      BY <2>4
    <3> HIDE DEF F, e
    <3>3. StackOK' /\ AnswerOK'
      BY <1>10, <3>1, <3>2, AnswerTypes
    <3> QED BY <1>1, <1>7, <1>8, <2>2, <3>3, TypeParts DEF RestOK
  <2>5. CASE Return(Top.status, FALSE)
    <3>1. StackOK' /\ AnswerOK'
      BY <1>3, <1>11, <2>5
    <3> HIDE DEF e
    <3> QED BY <1>1, <1>7, <1>8, <2>2, <3>1, TypeParts DEF RestOK
  <2> QED BY <1>16, <2>3, <2>4, <2>5 DEF StartRemainingDeps
<1>17. CASE RemainingDepStarted
  <2> DEFINE F == [Top EXCEPT !.status = Or(@, ret.status)]
  <2>1. F \in UpdateFileFrames /\ F.file = Top.file
        /\ F.n \in 1..Len(Entries(Top.file))
    BY <1>2, <1>3, <1>4, <1>6, <1>17 DEF UpdateFileFrames, RemainingDepStarted, In
  <2>2. Goto(F) /\ visited' = visited
    BY <1>17 DEF RemainingDepStarted, walk
  <2> HIDE DEF F
  <2>3. StackOK' /\ AnswerOK'
    BY <1>10, <2>1, <2>2, AnswerTypes
  <2> QED BY <1>1, <1>7, <1>8, <2>2, <2>3, TypeParts DEF RestOK
<1> QED BY <1>13, <1>14, <1>15, <1>16, <1>17 DEF UpdateFileSteps


(* The end of a job, and the ends make itself puts to a target.            *)
LEMMA ReapTypes ==
  ASSUME TypeInv, NEW f \in Files, NEW result \in {"won", "lost", "refused"},
         Reap(f, result)
  PROVE  FilesOK' /\ jobs' \in SUBSET Files
PROOF
<1>1. FilesOK /\ RestOK
  BY TypeParts
<1>2. PICK touched \in BOOLEAN :
         Notice(f, IF result = "won" THEN 0 ELSE 2, command_state[f] = "running",
                touched)
  BY DEF Reap
<1>3. (IF result = "won" THEN 0 ELSE 2) \in -1..2
      /\ (command_state[f] = "running") \in BOOLEAN
  OBVIOUS
<1>4. FilesOK'
  BY <1>1, <1>2, <1>3, NoticeType DEF RestOK
<1>5. jobs' \in SUBSET Files
  BY <1>1 DEF Reap, RestOK
<1> QED BY <1>4, <1>5

LEMMA GoalChainTypes ==
  ASSUME TypeInv, UpdateGoalChain
  PROVE  TypeInv'
PROOF
<1>1. FilesOK /\ RestOK /\ AnswerOK /\ StackOK
  BY TypeParts
<1>2. stack # << >> /\ Top \in GoalsFrames /\ Top \in Frames /\ Placed(Top)
      /\ Len(stack) = 1
  <2>1. stack # << >> /\ Top.proc = "update_goal_chain"
    BY DEF UpdateGoalChain, StartWaitingJobs, ReapBeforePass, ConsiderGoal,
           GoalConsidered, EndPass, In
  <2> QED BY <1>1, <2>1, TopOfStack, FrameTypes
<1>3. /\ Top.proc = "update_goal_chain" /\ Top.g \in Nat /\ Top.n \in Nat \ {0}
      /\ Top.undone \in BOOLEAN
      /\ Top.g \in 1..Len(goals) => Top.n <= Len(Entries(goals[Top.g]))
      /\ pc = "return" => Top.g \in 1..Len(goals)
  BY <1>1, <1>2, TopOfStack DEF GoalsFrames, Placed, Calls
<1>4. goals \in Seq(Files) /\ Len(goals) \in Nat
  BY <1>1, LenProperties DEF RestOK
<1>5. ASSUME Top.g \in 1..Len(goals)
      PROVE  /\ goals[Top.g] \in Files
             /\ Len(Entries(goals[Top.g])) \in Nat \ {0}
             /\ Top.n \in 1..Len(Entries(goals[Top.g]))
             /\ Entries(goals[Top.g])[Top.n] \in Files
             /\ Entries(Entries(goals[Top.g])[Top.n]) = Entries(goals[Top.g])
  <2>1. goals[Top.g] \in Files
    BY <1>4, <1>5, ElementOfSeq
  <2>2. Len(Entries(goals[Top.g])) \in Nat \ {0}
    BY <1>1, <2>1, EntriesProperties DEF RestOK
  <2>3. Top.n \in 1..Len(Entries(goals[Top.g]))
    BY <1>3, <1>5, <2>2
  <2> QED BY <1>1, <2>1, <2>2, <2>3, EntriesProperties DEF RestOK
<1>6. ASSUME NEW g \in Nat, NEW n \in Nat \ {0}, NEW undone \in BOOLEAN
      PROVE  /\ Goals(g, n, undone) \in Frames
             /\ Goals(g, n, undone).proc = Top.proc
             /\ Goals(g, n, undone).g = g /\ Goals(g, n, undone).n = n
  BY <1>3 DEF Goals, GoalsFrames, Frames
<1>7. makefile' = makefile
  BY DEF UpdateGoalChain, StartWaitingJobs, ReapBeforePass, ConsiderGoal,
         GoalConsidered, EndPass
<1>8. ASSUME NEW g \in Nat, NEW n \in Nat \ {0}, NEW undone \in BOOLEAN,
             g \in 1..Len(goals') => n <= Len(Entries(goals'[g])),
             Goto(Goals(g, n, undone))
      PROVE  StackOK' /\ AnswerOK'
  <2> DEFINE F == Goals(g, n, undone)
  <2>1. F \in Frames /\ F.proc = Top.proc /\ F.g = g /\ F.n = n
    BY <1>6
  <2>2. Goto(F)
    BY <1>8
  <2> HIDE DEF F
  <2>3. Placed(F)'
    BY <1>3, <1>7, <1>8, <2>1 DEF Placed, Entries
  <2> QED BY <1>1, <1>2, <1>7, <2>1, <2>2, <2>3, GoesOn, AnswerTypes
<1>14. \A s \in Seq(Files) : \A g \in 1..Len(s) : 1 <= Len(Entries(s[g]))
  <2> TAKE s \in Seq(Files)
  <2> TAKE g \in 1..Len(s)
  <2>1. s[g] \in Files
    BY ElementOfSeq
  <2>2. Len(Entries(s[g])) \in Nat \ {0}
    BY <1>1, <2>1, EntriesProperties DEF RestOK
  <2> QED BY <2>2
<1>9. CASE StartWaitingJobs
  <2>1. PICK f \in Files : Reap(f, "refused")
    BY <1>9 DEF StartWaitingJobs
  <2>2. FilesOK' /\ jobs' \in SUBSET Files
    BY <2>1, ReapTypes
  <2>3. UNCHANGED <<makefile, deps, updating, visited, recipe, goals, status, stack, pc, ret>>
    BY <1>9 DEF StartWaitingJobs, walk, thread
  <2>4. StackOK' /\ AnswerOK'
    BY <1>1, <2>3, StaysPut, AnswerTypes
  <2> QED BY <1>1, <2>2, <2>3, <2>4, TypeParts DEF RestOK
<1>10. CASE ReapBeforePass
  <2>1. UNCHANGED <<makefile, deps, updating, visited, recipe, goals, status>>
    BY <1>10 DEF ReapBeforePass, walk, file
  <2>2. FilesOK' /\ jobs' \in SUBSET Files /\ (Die \/ Goto(Goals(1, 1, FALSE)))
    <3>1. CASE jobs = {}
      <4>1. Goto(Goals(1, 1, FALSE)) /\ UNCHANGED <<jobs, file>>
        BY <1>10, <3>1 DEF ReapBeforePass
      <4> QED BY <1>1, <4>1, FilesUnchanged DEF file, RestOK
    <3>2. CASE jobs # {}
      <4>1. PICK f \in Files, result \in {"won", "lost", "refused"} :
               /\ Reap(f, result)
               /\ IF Dies(result) THEN Die ELSE Goto(Goals(1, 1, FALSE))
        BY <1>10, <3>2 DEF ReapBeforePass
      <4> QED BY <4>1, ReapTypes
    <3> QED BY <3>1, <3>2
  <2>3. 1 \in 1..Len(goals') => 1 <= Len(Entries(goals'[1]))
    <3>1. goals' \in Seq(Files)
      BY <1>4, <2>1
    <3> QED BY <1>14, <3>1, Zenon
  <2>4. StackOK' /\ AnswerOK'
    <3>1. 1 \in Nat /\ 1 \in Nat \ {0} /\ FALSE \in BOOLEAN
      OBVIOUS
    <3>2. Goto(Goals(1, 1, FALSE)) => StackOK' /\ AnswerOK'
      BY <1>8, <2>3, <3>1, Zenon
    <3> QED BY <2>2, <3>2, AnswerTypes
  <2> QED BY <1>1, <2>1, <2>2, <2>4, TypeParts DEF RestOK
<1>11. CASE ConsiderGoal
  <2> DEFINE f == Entries(goals[Top.g])[Top.n]
  <2>1. Call(Top, UpdateFile(f)) /\ Top.g \in 1..Len(goals)
    BY <1>11 DEF ConsiderGoal
  <2>2. f \in Files
    BY <1>5, <2>1
  <2> HIDE DEF f
  <2>3. /\ UpdateFile(f) \in Frames /\ Placed(UpdateFile(f))
        /\ UpdateFile(f).proc # "update_goal_chain"
    BY <1>1, <2>2, NewFrames DEF UpdateFile
  <2>4. UNCHANGED <<makefile, deps, command_state, update_status, updated,
                    last_mtime, updating, visited, jobs, recipe, goals, status>>
    BY <1>11 DEF ConsiderGoal, file, walk
  <2>5. Calls(Top)
    BY <1>3, <2>1 DEF Calls
  <2>6. StackOK' /\ AnswerOK'
    BY <1>1, <1>2, <2>1, <2>3, <2>4, <2>5, CallsOn, AnswerTypes
  <2>7. FilesOK'
    BY <1>1, <2>4, FilesUnchanged
  <2> QED BY <1>1, <2>4, <2>6, <2>7, TypeParts DEF RestOK
<1>12. CASE GoalConsidered
  <2> DEFINE f == Entries(goals[Top.g])[Top.n]
             undone == Top.undone \/ f \notin updated
  <2>1. Top.g \in 1..Len(goals)
    BY <1>3, <1>12 DEF GoalConsidered, In
  <2>2. /\ status' = IF /\ ret.status # 0 \/ f \in updated
                        /\ status < 1 /\ update_status[f] # 0
                     THEN update_status[f] ELSE status
        /\ IF Top.n < Len(Entries(f))
           THEN Goto(Goals(Top.g, Top.n + 1, undone)) /\ UNCHANGED goals
           ELSE IF undone
           THEN Goto(Goals(Top.g + 1, 1, FALSE)) /\ UNCHANGED goals
           ELSE /\ Goto(Goals(Top.g, 1, FALSE))
                /\ goals' = RemoveAt(goals, Top.g)
    BY <1>12 DEF GoalConsidered
  <2>3. UNCHANGED <<makefile, deps, command_state, update_status, updated,
                    last_mtime, updating, visited, jobs, recipe>>
    BY <1>12 DEF GoalConsidered, file, walk
  <2>4. f \in Files /\ Entries(f) = Entries(goals[Top.g]) /\ undone \in BOOLEAN
    BY <1>3, <1>5, <2>1
  <2> HIDE DEF f, undone
  <2>5. status' \in -1..2
    BY <1>1, <2>2, <2>4 DEF FilesOK, RestOK
  <2>6. FilesOK'
    BY <1>1, <2>3, FilesUnchanged
  <2>8. CASE /\ Top.n < Len(Entries(f))
             /\ Goto(Goals(Top.g, Top.n + 1, undone)) /\ UNCHANGED goals
    <3>1. Top.n + 1 \in Nat \ {0} /\ Top.n + 1 <= Len(Entries(goals[Top.g]))
      BY <1>3, <1>5, <2>1, <2>4, <2>8
    <3>2. StackOK' /\ AnswerOK'
      <4>1. Entries(goals'[Top.g]) = Entries(goals[Top.g])
        BY <2>8
      <4> QED BY <1>3, <1>8, <2>4, <2>8, <3>1, <4>1
    <3> QED BY <1>1, <2>3, <2>5, <2>6, <2>8, <3>2, TypeParts DEF RestOK
  <2>9. CASE Goto(Goals(Top.g + 1, 1, FALSE)) /\ UNCHANGED goals
    <3>1. Top.g + 1 \in 1..Len(goals') => 1 <= Len(Entries(goals'[Top.g + 1]))
      <4>1. goals' \in Seq(Files)
        BY <1>4, <2>9
      <4> QED BY <1>14, <4>1, Zenon
    <3>2. StackOK' /\ AnswerOK'
      <4>1. Top.g + 1 \in Nat /\ 1 \in Nat \ {0} /\ FALSE \in BOOLEAN
        BY <1>3
      <4> QED BY <1>8, <2>9, <3>1, <4>1, Zenon
    <3> QED BY <1>1, <2>3, <2>5, <2>6, <2>9, <3>2, TypeParts DEF RestOK
  <2>10. CASE Goto(Goals(Top.g, 1, FALSE)) /\ goals' = RemoveAt(goals, Top.g)
    <3>1. goals' \in Seq(Files)
      BY <1>4, <2>1, <2>10, RemoveAtProperties
    <3>2. Top.g \in 1..Len(goals') => 1 <= Len(Entries(goals'[Top.g]))
      BY <1>14, <3>1, Zenon
    <3>3. StackOK' /\ AnswerOK'
      <4>1. 1 \in Nat \ {0} /\ FALSE \in BOOLEAN
        OBVIOUS
      <4> QED BY <1>3, <1>8, <2>10, <3>2, <4>1, Zenon
    <3> QED BY <1>1, <2>3, <2>5, <2>6, <3>1, <3>3, TypeParts DEF RestOK
  <2> QED BY <2>2, <2>8, <2>9, <2>10
<1>13. CASE EndPass
  <2>1. UNCHANGED <<makefile, deps, command_state, update_status, updated,
                    last_mtime, updating, jobs, recipe, goals, status>>
        /\ visited' = Files \ visited
    BY <1>13 DEF EndPass, file
  <2>2. FilesOK'
    BY <1>1, <2>1, FilesUnchanged
  <2>3. CASE stack' = << >> /\ pc' = "done" /\ ret' = NoRet
    <3>1. StackOK'
      BY <2>3, Stops
    <3>2. AnswerOK'
      <4>1. NoRet \in [status : 0..2, must_make : BOOLEAN]
        BY DEF NoRet
      <4> QED BY <2>3, <4>1 DEF AnswerOK
    <3> QED BY <1>1, <2>1, <2>2, <3>1, <3>2, TypeParts DEF RestOK
  <2>4. CASE Goto(Goals(0, 1, FALSE))
    <3>1. StackOK' /\ AnswerOK'
      <4>1. 0 \in Nat /\ 1 \in Nat \ {0} /\ FALSE \in BOOLEAN
        OBVIOUS
      <4>2. 0 \in 1..Len(goals') => 1 <= Len(Entries(goals'[0]))
        <5>1. goals' \in Seq(Files)
          BY <1>4, <2>1
        <5> QED BY <1>14, <5>1, Zenon
      <4> QED BY <1>8, <2>4, <4>1, <4>2, Zenon
    <3> QED BY <1>1, <2>1, <2>2, <3>1, TypeParts DEF RestOK
  <2> QED BY <1>13, <2>3, <2>4 DEF EndPass
<1> QED BY <1>9, <1>10, <1>11, <1>12, <1>13 DEF UpdateGoalChain

LEMMA NewJobTypes ==
  ASSUME TypeInv, NewJobSteps
  PROVE  TypeInv'
PROOF
<1>1. FilesOK /\ RestOK /\ AnswerOK /\ StackOK
  BY TypeParts
<1>2. stack # << >> /\ Top \in NewJobFrames /\ Top \in Frames
  <2>1. stack # << >> /\ Top.proc = "new_job"
    BY DEF NewJobSteps, ReapInNewJob, StartJob, JobOverAtOnce, LinearWait, In
  <2> QED BY <1>1, <2>1, TopOfStack, FrameTypes
<1>3. Top.proc = "new_job" /\ Top.file \in Files /\ Top.started \in BOOLEAN
  BY <1>2 DEF NewJobFrames
<1>4. UNCHANGED <<makefile, deps, updating, visited, goals, status>>
  BY DEF NewJobSteps, ReapInNewJob, StartJob, JobOverAtOnce, LinearWait, walk
<1>5. Return(0, FALSE) => StackOK' /\ AnswerOK'
  <2>1. ASSUME NEW s \in 0..2, NEW b \in BOOLEAN, Return(s, b)
        PROVE  StackOK' /\ AnswerOK'
    <3>1. UNCHANGED <<makefile, goals>> /\ Top.proc # "update_goal_chain"
      BY <1>3, <1>4
    <3> QED BY <1>1, <1>2, <2>1, <3>1, ReturnsTo, AnswerTypes
  <2>2. 0 \in 0..2 /\ FALSE \in BOOLEAN
    OBVIOUS
  <2> QED BY <2>1, <2>2, Zenon
<1>6. ASSUME UNCHANGED <<stack, pc, ret>> PROVE StackOK' /\ AnswerOK'
  BY <1>1, <1>4, <1>6, StaysPut, AnswerTypes
<1>7. ASSUME NEW f \in Files, NEW result \in {"won", "lost", "refused"},
             Reap(f, result), IF Dies(result) THEN Die ELSE UNCHANGED <<stack, pc, ret>>,
             UNCHANGED recipe
      PROVE  TypeInv'
  <2>1. FilesOK' /\ jobs' \in SUBSET Files
    BY <1>7, ReapTypes
  <2>2. StackOK' /\ AnswerOK'
    BY <1>6, <1>7, AnswerTypes
  <2> QED BY <1>1, <1>4, <1>7, <2>1, <2>2, TypeParts DEF RestOK
<1>8. CASE ReapInNewJob
  BY <1>7, <1>8 DEF ReapInNewJob
<1>9. CASE StartJob
  <2>1. FilesOK'
    <3>1. SetCommandState(Top.file, "running") /\ UNCHANGED <<update_status, updated, last_mtime>>
      BY <1>9 DEF StartJob
    <3> QED BY <1>1, <1>3, <3>1, SetCommandStateType DEF Busy
  <2>2. jobs' = jobs \cup {Top.file}
        /\ recipe' = [recipe EXCEPT ![Top.file] = "started"]
    BY <1>9 DEF StartJob
  <2>3. CASE Goto([Top EXCEPT !.started = TRUE])
    <3>1. PICK F \in NewJobFrames : F.proc = Top.proc /\ Goto(F)
      <4>1. [Top EXCEPT !.started = TRUE] \in NewJobFrames
        BY <1>2 DEF NewJobFrames
      <4>2. [Top EXCEPT !.started = TRUE].proc = Top.proc
        BY <1>2 DEF NewJobFrames
      <4> QED BY <2>3, <4>1, <4>2
    <3>2. F \in Frames
      BY <3>1 DEF Frames
    <3>3. Placed(F)'
      BY <1>3, <3>1 DEF Placed
    <3>4. UNCHANGED makefile /\ UNCHANGED goals
      BY <1>4
    <3>5. StackOK' /\ AnswerOK'
      BY <1>1, <1>2, <3>1, <3>2, <3>3, <3>4, GoesOn, AnswerTypes
    <3> QED BY <1>1, <1>3, <1>4, <2>1, <2>2, <3>5, TypeParts DEF RestOK
  <2>4. CASE Return(0, FALSE)
    BY <1>1, <1>3, <1>4, <1>5, <2>1, <2>2, <2>4, TypeParts DEF RestOK
  <2> QED BY <1>9, <2>3, <2>4 DEF StartJob
<1>10. CASE JobOverAtOnce
  <2>1. Return(0, FALSE) /\ UNCHANGED jobs
        /\ recipe' = [recipe EXCEPT ![Top.file] = "over"]
    BY <1>10 DEF JobOverAtOnce
  <2>2. PICK s \in {0, 2}, ran \in BOOLEAN : Notice(Top.file, s, ran, FALSE)
    <3>1. CASE Notice(Top.file, 0, TRUE, FALSE)
      BY <3>1
    <3>2. CASE Notice(Top.file, 2, command_state[Top.file] = "running", FALSE)
      <4>1. (command_state[Top.file] = "running") \in BOOLEAN
        OBVIOUS
      <4> QED BY <3>2, <4>1
    <3> QED BY <1>10, <3>1, <3>2 DEF JobOverAtOnce
  <2>3. s \in -1..2
    BY <2>2
  <2>4. FilesOK'
    BY <1>1, <1>3, <2>2, <2>3, NoticeType DEF RestOK
  <2> QED BY <1>1, <1>3, <1>4, <1>5, <2>1, <2>4, TypeParts DEF RestOK
<1>11. CASE LinearWait
  <2>1. CASE command_state[Top.file] = "running"
    BY <1>7, <1>11, <2>1 DEF LinearWait
  <2>2. CASE command_state[Top.file] # "running"
    <3>1. /\ Return(0, FALSE)
          /\ UNCHANGED <<jobs, command_state, update_status, updated, last_mtime, recipe>>
      BY <1>11, <2>2 DEF LinearWait
    <3>2. FilesOK'
      BY <1>1, <3>1, FilesUnchanged
    <3> QED BY <1>1, <1>4, <1>5, <3>1, <3>2, TypeParts DEF RestOK
  <2> QED BY <2>1, <2>2
<1> QED BY <1>8, <1>9, <1>10, <1>11 DEF NewJobSteps


LEMMA UpdateFile1Fields ==
  ASSUME NEW F \in UpdateFile1Frames
  PROVE  /\ \A i \in Nat \ {0} : LET G == [F EXCEPT !.i = i] IN
               G \in UpdateFile1Frames /\ G.at = F.at
         /\ \A at \in {"deps", "intermediates", "decide", "make", "made"} :
               [F EXCEPT !.at = at] \in UpdateFile1Frames
         /\ \A s \in 0..2 : LET G == [F EXCEPT !.status = s] IN
               G \in UpdateFile1Frames /\ G.at = F.at
         /\ \A b \in BOOLEAN : LET G == [F EXCEPT !.must_make = b] IN
               G \in UpdateFile1Frames /\ G.at = F.at
         /\ \A b \in BOOLEAN : LET G == [F EXCEPT !.running = b] IN
               G \in UpdateFile1Frames /\ G.at = F.at
PROOF
BY DEF UpdateFile1Frames

LEMMA UpdateFile1Types ==
  ASSUME TypeInv, UpdateFile1Steps
  PROVE  TypeInv'
PROOF
<1>1. FilesOK /\ RestOK /\ AnswerOK /\ StackOK
  BY TypeParts
<1>2. stack # << >> /\ Top \in UpdateFile1Frames /\ Top \in Frames
  <2>1. stack # << >> /\ Top.proc = "update_file_1"
    BY DEF UpdateFile1Steps, ConsiderTarget, ConsiderDep, DepConsidered,
           ConsiderIntermediate, IntermediateConsidered, Decide, NoNeedToRemake,
           RemakeWithoutCommands, RemakeBlank, RemakeFile, FileRemade, At, In
  <2> QED BY <1>1, <2>1, TopOfStack, FrameTypes
<1>3. /\ Top.proc = "update_file_1" /\ Top.file \in Files /\ Top.i \in Nat \ {0}
      /\ Top.mtime \in Nat /\ Top.must_make \in BOOLEAN /\ Top.status \in 0..2
      /\ Top.running \in BOOLEAN
  BY <1>2 DEF UpdateFile1Frames
<1>4. /\ FirstEntry(Top.file) \in Files
      /\ deps[Top.file] \in Seq(Dep) /\ Len(deps[Top.file]) \in Nat
      /\ \A i \in 1..Len(deps[Top.file]) : deps[Top.file][i].file \in Files
  <2>1. FirstEntry(Top.file) \in Files
    BY <1>1, <1>3, EntriesProperties DEF RestOK
  <2>2. deps[Top.file] \in Seq(Dep)
    BY <1>1, <1>3 DEF RestOK
  <2>3. Len(deps[Top.file]) \in Nat
    BY <2>2, LenProperties
  <2>4. \A i \in 1..Len(deps[Top.file]) : deps[Top.file][i] \in Dep
    BY <2>2, ElementOfSeq
  <2> QED BY <2>1, <2>2, <2>3, <2>4 DEF Dep
<1>5. /\ ret.status \in 0..2 /\ ret.must_make \in BOOLEAN
      /\ Or(Top.status, ret.status) \in 0..2
  BY <1>1, <1>3 DEF AnswerOK, Or
<1>6. UNCHANGED <<makefile, goals>> /\ UNCHANGED <<visited, jobs, status>>
  BY DEF UpdateFile1Steps, ConsiderTarget, ConsiderDep, DepConsidered,
         ConsiderIntermediate, IntermediateConsidered, Decide, NoNeedToRemake,
         RemakeWithoutCommands, RemakeBlank, RemakeFile, FileRemade, walk
<1>7. ASSUME NEW F \in UpdateFile1Frames, Goto(F)
      PROVE  StackOK' /\ AnswerOK'
  <2>1. F.proc = "update_file_1" /\ F \in Frames
    BY <1>7 DEF UpdateFile1Frames, Frames
  <2>2. Placed(F)'
    BY <2>1 DEF Placed
  <2> QED BY <1>1, <1>2, <1>3, <1>6, <1>7, <2>1, <2>2, GoesOn, AnswerTypes
<1>8. ASSUME NEW F \in UpdateFile1Frames, NEW G \in Frames,
             G.proc # "update_goal_chain", Placed(G), Call(F, G)
      PROVE  StackOK' /\ AnswerOK'
  <2>1. F.proc = "update_file_1" /\ F \in Frames
    BY <1>8 DEF UpdateFile1Frames, Frames
  <2>2. Placed(F) /\ Calls(F)
    BY <2>1 DEF Placed, Calls
  <2> QED BY <1>1, <1>2, <1>3, <1>6, <1>8, <2>1, <2>2, CallsOn, AnswerTypes
<1>9. ASSUME NEW s \in 0..2, NEW b \in BOOLEAN, Return(s, b)
      PROVE  StackOK' /\ AnswerOK'
  <2>1. UNCHANGED <<makefile, goals>> /\ Top.proc # "update_goal_chain"
    BY <1>3, <1>6
  <2> QED BY <1>1, <1>2, <1>9, <2>1, ReturnsTo, AnswerTypes
<1>10. \A s \in 0..2 : Return(s, FALSE) => StackOK' /\ AnswerOK'
  BY <1>9, FALSE \in BOOLEAN, Zenon
<1>11. 0 \in 0..2 /\ 2 \in 0..2 /\ 0 \in -1..2 /\ FALSE \in BOOLEAN
  OBVIOUS
<1>12. Return(0, FALSE) \/ Return(2, FALSE) => StackOK' /\ AnswerOK'
  BY <1>10, <1>11, Zenon
<1>13. UNCHANGED <<command_state, update_status, updated, last_mtime>> => FilesOK'
  BY <1>1, FilesUnchanged
<1>14. ASSUME NEW s \in -1..2, NoticeUnmade(Top.file, s)
       PROVE  FilesOK'
  <2>1. (command_state[Top.file] = "running") \in BOOLEAN
    OBVIOUS
  <2> QED BY <1>1, <1>3, <1>11, <1>14, <2>1, NoticeType DEF NoticeUnmade, RestOK
(* A prerequisite is left out, or nothing is done to the lists of them.    *)
<1>15. ASSUME FilesOK', StackOK', AnswerOK', deps' \in [Files -> Seq(Dep)],
              updating' \in SUBSET Files,
              recipe' \in [Files -> {"idle", "started", "over"}]
       PROVE  TypeInv'
  BY <1>1, <1>6, <1>15, TypeParts DEF RestOK
<1>16. /\ deps \in [Files -> Seq(Dep)] /\ updating \in SUBSET Files
       /\ recipe \in [Files -> {"idle", "started", "over"}]
  BY <1>1 DEF RestOK
<1>17. CASE ConsiderTarget
  <2>1. UNCHANGED <<deps, recipe>>
        /\ UNCHANGED <<command_state, update_status, updated, last_mtime>>
    BY <1>17 DEF ConsiderTarget, file
  <2>2. CASE /\ Return(IF Top.file \in updated \/ command_state[Top.file] = "finished"
                       THEN Max({update_status[Top.file], 0}) ELSE 0, FALSE)
             /\ UNCHANGED updating
    <3> DEFINE S == {update_status[Top.file], 0}
    <3>1. S \subseteq -1..2 /\ \E m \in S : \A x \in S : x <= m
      BY <1>1, <1>3 DEF FilesOK
    <3>2. Max(S) \in S /\ Max(S) >= 0
      BY <3>1 DEF Max
    <3>3. Max(S) \in 0..2
      BY <3>1, <3>2
    <3> HIDE DEF S
    <3>4. (IF Top.file \in updated \/ command_state[Top.file] = "finished"
             THEN Max(S) ELSE 0) \in 0..2
      BY <3>3
    <3>5. StackOK' /\ AnswerOK'
      BY <1>10, <2>2, <3>4, Zenon DEF S
    <3> QED BY <1>13, <1>15, <1>16, <2>1, <2>2, <3>5
  <2>3. CASE /\ updating' = updating \cup {FirstEntry(Top.file)}
             /\ Goto([Top EXCEPT !.at = "deps"])
    <3>1. [Top EXCEPT !.at = "deps"] \in UpdateFile1Frames
      BY <1>2, UpdateFile1Fields
    <3>2. StackOK' /\ AnswerOK'
      BY <1>7, <2>3, <3>1
    <3> QED BY <1>4, <1>13, <1>15, <1>16, <2>1, <2>3, <3>2
  <2> QED BY <1>17, <2>2, <2>3 DEF ConsiderTarget
<1>18. ASSUME NEW F \in UpdateFile1Frames PROVE AfterDeps(F) \in UpdateFile1Frames
  <2> DEFINE at == IF F.must_make THEN "intermediates" ELSE "decide"
             G == [F EXCEPT !.i = 1]
  <2>1. at \in {"deps", "intermediates", "decide", "make", "made"}
    OBVIOUS
  <2> HIDE DEF at
  <2>2. G \in UpdateFile1Frames
    BY 1 \in Nat \ {0}, UpdateFile1Fields
  <2> HIDE DEF G
  <2>3. [G EXCEPT !.at = at] \in UpdateFile1Frames
    BY <2>1, <2>2, UpdateFile1Fields
  <2>4. AfterDeps(F) = [G EXCEPT !.at = at]
    BY DEF AfterDeps, G, at
  <2> QED BY <2>3, <2>4
<1>19. CASE ConsiderDep
  <2>1. UNCHANGED <<recipe, updating>>
        /\ UNCHANGED <<command_state, update_status, updated, last_mtime>>
    BY <1>19 DEF ConsiderDep, walk
  <2>2. CASE Top.i > Len(deps[Top.file]) /\ Goto(AfterDeps(Top)) /\ UNCHANGED deps
    <3>1. StackOK' /\ AnswerOK'
      BY <1>2, <1>7, <1>18, <2>2
    <3> QED BY <1>13, <1>15, <1>16, <2>1, <2>2, <3>1
  <2>3. CASE ~(Top.i > Len(deps[Top.file]))
    <3> DEFINE d == deps[Top.file][Top.i]
    <3>1. Top.i \in 1..Len(deps[Top.file])
      BY <1>3, <1>4, <2>3
    <3>2. CASE Goto(Top) /\ DropDep(Top.file, Top.i)
      <4>1. RemoveAt(deps[Top.file], Top.i) \in Seq(Dep)
        BY <1>4, <3>1, RemoveAtProperties
      <4>2. deps' \in [Files -> Seq(Dep)]
        BY <1>3, <1>16, <3>2, <4>1 DEF DropDep
      <4>3. StackOK' /\ AnswerOK'
        BY <1>2, <1>7, <3>2
      <4> QED BY <1>13, <1>15, <1>16, <2>1, <4>2, <4>3
    <3>3. CASE /\ Call(Top, CheckDep(d.file, Top.mtime, Top.must_make))
               /\ UNCHANGED deps
      <4> DEFINE G == CheckDep(d.file, Top.mtime, Top.must_make)
      <4>1. G \in Frames /\ Placed(G) /\ G.proc # "update_goal_chain"
        <5>1. d.file \in Files
          BY <1>4, <3>1
        <5> HIDE DEF d
        <5> QED BY <1>1, <1>3, <5>1, NewFrames DEF CheckDep
      <4>2. Call(Top, G)
        BY <3>3
      <4> HIDE DEF G
      <4>3. StackOK' /\ AnswerOK'
        BY <1>2, <1>8, <4>1, <4>2
      <4> QED BY <1>13, <1>15, <1>16, <2>1, <3>3, <4>3
    <3> QED BY <1>19, <2>3, <3>2, <3>3 DEF ConsiderDep
  <2> QED BY <1>19, <2>2, <2>3 DEF ConsiderDep
<1>20. CASE DepConsidered
  <2> DEFINE d == deps[Top.file][Top.i]
             s == Or(Top.status, ret.status)
             b == IF d.ignore_mtime THEN Top.must_make ELSE ret.must_make
             r == Top.running \/ AnyBusy(d.file)
             i == Top.i + 1
             next == [Top EXCEPT !.status = s, !.must_make = b, !.running = r, !.i = i]
  <2>1. UNCHANGED <<deps, recipe, updating>>
        /\ UNCHANGED <<command_state, update_status, updated, last_mtime>>
    BY <1>20 DEF DepConsidered, walk, file
  <2>2. Goto(IF Fatal(next.status) THEN AfterDeps(next) ELSE next)
    BY <1>20, Zenon DEF DepConsidered
  <2>3. s \in 0..2 /\ b \in BOOLEAN /\ r \in BOOLEAN /\ i \in Nat \ {0}
    BY <1>3, <1>5
  <2> HIDE DEF s, b, r, i
  <2>4. next \in UpdateFile1Frames
    BY <1>2, <2>3, UpdateFile1Fields
  <2> HIDE DEF next
  <2>5. StackOK' /\ AnswerOK'
    BY <1>7, <1>18, <2>2, <2>4
  <2> QED BY <1>13, <1>15, <1>16, <2>1, <2>5
<1>21. CASE ConsiderIntermediate
  <2>1. UNCHANGED <<deps, recipe, updating>>
        /\ UNCHANGED <<command_state, update_status, updated, last_mtime>>
    BY <1>21 DEF ConsiderIntermediate, walk, file
  <2>2. StackOK' /\ AnswerOK'
    <3>1. CASE Goto([Top EXCEPT !.at = "decide"])
      <4>1. [Top EXCEPT !.at = "decide"] \in UpdateFile1Frames
        BY <1>2, UpdateFile1Fields
      <4> QED BY <1>7, <3>1, <4>1
    <3>2. CASE /\ ~(Top.i > Len(deps[Top.file]))
               /\ Call(Top, UpdateFile(deps[Top.file][Top.i].file))
      <4> DEFINE f == deps[Top.file][Top.i].file
      <4>1. f \in Files
        BY <1>3, <1>4, <3>2
      <4>2. Call(Top, UpdateFile(f))
        BY <3>2
      <4> HIDE DEF f
      <4>3. UpdateFile(f) \in Frames /\ Placed(UpdateFile(f))
            /\ UpdateFile(f).proc # "update_goal_chain"
        BY <1>1, <4>1, NewFrames DEF UpdateFile
      <4> QED BY <1>2, <1>8, <4>2, <4>3
    <3>3. CASE Goto([Top EXCEPT !.i = @ + 1])
      <4>1. Top.i + 1 \in Nat \ {0}
        BY <1>3
      <4>2. [Top EXCEPT !.i = Top.i + 1] \in UpdateFile1Frames
        BY <1>2, <4>1, UpdateFile1Fields
      <4> QED BY <1>7, <3>3, <4>2
    <3> QED BY <1>21, <3>1, <3>2, <3>3 DEF ConsiderIntermediate
  <2> QED BY <1>13, <1>15, <1>16, <2>1, <2>2
<1>22. CASE IntermediateConsidered
  <2> DEFINE s == Or(Top.status, ret.status)
             r == Top.running \/ AnyBusy(deps[Top.file][Top.i].file)
             i == Top.i + 1
             next == [Top EXCEPT !.status = s, !.running = r, !.i = i]
  <2>1. UNCHANGED <<deps, recipe, updating>>
        /\ UNCHANGED <<command_state, update_status, updated, last_mtime>>
    BY <1>22 DEF IntermediateConsidered, walk, file
  <2>2. Goto(IF Fatal(next.status) THEN [next EXCEPT !.at = "decide"] ELSE next)
    BY <1>22, Zenon DEF IntermediateConsidered
  <2>3. s \in 0..2 /\ r \in BOOLEAN /\ i \in Nat \ {0}
    BY <1>3, <1>5
  <2> HIDE DEF s, r, i
  <2>4. next \in UpdateFile1Frames
    BY <1>2, <2>3, UpdateFile1Fields
  <2> HIDE DEF next
  <2>5. [next EXCEPT !.at = "decide"] \in UpdateFile1Frames
    BY <2>4, UpdateFile1Fields
  <2>6. StackOK' /\ AnswerOK'
    BY <1>7, <2>2, <2>4, <2>5
  <2> QED BY <1>13, <1>15, <1>16, <2>1, <2>6
<1>23. CASE Decide
  <2>1. UNCHANGED <<deps, recipe>> /\ updating' = updating \ {FirstEntry(Top.file)}
    BY <1>23 DEF Decide
  <2>2. FilesOK' /\ StackOK' /\ AnswerOK'
    <3>1. CASE Top.running
      <4>1. /\ SetCommandState(Top.file, "deps_running") /\ Return(0, FALSE)
            /\ UNCHANGED <<update_status, updated, last_mtime>>
        BY <1>23, <3>1 DEF Decide
      <4>2. FilesOK'
        BY <1>1, <1>3, <4>1, SetCommandStateType DEF Busy
      <4> QED BY <1>12, <4>1, <4>2
    <3>2. CASE ~Top.running /\ Top.status # 0
      <4>1. NoticeUnmade(Top.file, Top.status) /\ Return(Top.status, FALSE)
        BY <1>23, <3>2 DEF Decide
      <4>2. FilesOK'
        BY <1>3, <1>14, <4>1
      <4> QED BY <1>3, <1>10, <4>1, <4>2
    <3>3. CASE ~Top.running /\ ~(Top.status # 0)
      <4>1. /\ IF command_state[Top.file] = "deps_running"
               THEN SetCommandState(Top.file, "not_started")
               ELSE UNCHANGED command_state
            /\ Goto([Top EXCEPT !.at = "make"])
            /\ UNCHANGED <<update_status, updated, last_mtime>>
        BY <1>23, <3>3 DEF Decide
      <4>2. FilesOK'
        BY <1>1, <1>3, <1>13, <4>1, SetCommandStateType
      <4>3. [Top EXCEPT !.at = "make"] \in UpdateFile1Frames
        BY <1>2, UpdateFile1Fields
      <4> QED BY <1>7, <4>1, <4>2, <4>3
    <3> QED BY <3>1, <3>2, <3>3
  <2> QED BY <1>15, <1>16, <2>1, <2>2
<1>24. CASE NoNeedToRemake
  <2>1. UNCHANGED <<deps, recipe, updating>> /\ Return(0, FALSE)
        /\ NoticeUnmade(Top.file, update_status[Top.file])
    BY <1>24 DEF NoNeedToRemake, walk
  <2>2. update_status[Top.file] \in -1..2
    BY <1>1, <1>3 DEF FilesOK
  <2>3. FilesOK'
    BY <1>14, <2>1, <2>2
  <2> QED BY <1>12, <1>15, <1>16, <2>1, <2>3
<1>25. CASE RemakeWithoutCommands
  <2>1. UNCHANGED <<deps, recipe, updating>>
    BY <1>25 DEF RemakeWithoutCommands, walk
  <2>2. FilesOK' /\ StackOK' /\ AnswerOK'
    <3>1. CASE NoticeUnmade(Top.file, 0) /\ Return(0, FALSE)
      BY <1>11, <1>12, <1>14, <3>1
    <3>2. CASE NoticeUnmade(Top.file, 2) /\ Return(2, FALSE)
      <4>1. 2 \in -1..2
        OBVIOUS
      <4> QED BY <1>12, <1>14, <3>2, <4>1
    <3>3. CASE Die /\ UNCHANGED <<command_state, update_status, updated, last_mtime>>
      BY <1>13, <3>3, AnswerTypes
    <3> QED BY <1>25, <3>1, <3>2, <3>3 DEF RemakeWithoutCommands
  <2> QED BY <1>15, <1>16, <2>1, <2>2
<1>26. CASE RemakeBlank
  <2>1. UNCHANGED <<deps, updating>> /\ Return(0, FALSE)
        /\ Notice(Top.file, 0, TRUE, FALSE)
        /\ recipe' = [recipe EXCEPT ![Top.file] = "over"]
    BY <1>26 DEF RemakeBlank, walk
  <2>2. FilesOK'
    BY <1>1, <1>3, <1>11, <2>1, TRUE \in BOOLEAN, NoticeType DEF RestOK
  <2>3. recipe' \in [Files -> {"idle", "started", "over"}]
    BY <1>16, <2>1
  <2> QED BY <1>12, <1>15, <1>16, <2>1, <2>2, <2>3
<1>27. CASE RemakeFile
  <2>1. UNCHANGED <<deps, updating, recipe>>
        /\ UNCHANGED <<command_state, update_status, updated, last_mtime>>
        /\ Call([Top EXCEPT !.at = "made"], NewJob(Top.file))
    BY <1>27 DEF RemakeFile, walk, file
  <2>2. [Top EXCEPT !.at = "made"] \in UpdateFile1Frames
    BY <1>2, UpdateFile1Fields
  <2>3. NewJob(Top.file) \in Frames /\ Placed(NewJob(Top.file))
        /\ NewJob(Top.file).proc # "update_goal_chain"
    BY <1>1, <1>3, NewFrames DEF NewJob
  <2>4. StackOK' /\ AnswerOK'
    BY <1>8, <2>1, <2>2, <2>3
  <2> QED BY <1>13, <1>15, <1>16, <2>1, <2>4
<1>28. CASE FileRemade
  <2>1. UNCHANGED <<deps, updating, recipe>>
        /\ UNCHANGED <<command_state, update_status, last_mtime>>
    BY <1>28 DEF FileRemade, walk
  <2>2. updated' \in SUBSET Files
    BY <1>1, <1>3, <1>28 DEF FileRemade, FilesOK
  <2>3. FilesOK'
    BY <1>1, <2>1, <2>2 DEF FilesOK, Bounded, Noticed
  <2>4. CASE Return(0, FALSE)
    BY <1>12, <1>15, <1>16, <2>1, <2>3, <2>4
  <2>5. CASE command_state[Top.file] = "finished"
             /\ Return(update_status[Top.file], FALSE)
    <3>1. update_status[Top.file] \in 0..2
      BY <1>1, <1>3, <2>5 DEF FilesOK, Noticed
    <3>2. StackOK' /\ AnswerOK'
      BY <1>10, <2>5, <3>1
    <3> QED BY <1>15, <1>16, <2>1, <2>3, <3>2
  <2> QED BY <1>28, <2>4, <2>5 DEF FileRemade
<1> QED BY <1>17, <1>19, <1>20, <1>21, <1>22, <1>23, <1>24, <1>25, <1>26, <1>27,
           <1>28 DEF UpdateFile1Steps


LEMMA CheckDepFields ==
  ASSUME NEW F \in CheckDepFrames
  PROVE  /\ \A i \in Nat \ {0} : [F EXCEPT !.i = i] \in CheckDepFrames
         /\ \A at \in {"updated", "deps"} : [F EXCEPT !.at = at] \in CheckDepFrames
         /\ \A s \in 0..2 : [F EXCEPT !.status = s] \in CheckDepFrames
         /\ \A b \in BOOLEAN : [F EXCEPT !.must_make = b] \in CheckDepFrames
PROOF
BY DEF CheckDepFrames

LEMMA CheckDepTypes ==
  ASSUME TypeInv, CheckDepSteps
  PROVE  TypeInv'
PROOF
<1>1. FilesOK /\ RestOK /\ AnswerOK /\ StackOK
  BY TypeParts
<1>2. stack # << >> /\ Top \in CheckDepFrames /\ Top \in Frames
  <2>1. stack # << >> /\ Top.proc = "check_dep"
    BY DEF CheckDepSteps, CheckDepStart, CheckedFileUpdated, CheckDepOfIntermediate,
           DepOfIntermediateChecked, Checking, In
  <2> QED BY <1>1, <2>1, TopOfStack, FrameTypes
<1>3. /\ Top.proc = "check_dep" /\ Top.file \in Files /\ Top.i \in Nat \ {0}
      /\ Top.mtime \in Nat /\ Top.must_make \in BOOLEAN /\ Top.status \in 0..2
  BY <1>2 DEF CheckDepFrames
<1>4. /\ FirstEntry(Top.file) \in Files
      /\ deps[Top.file] \in Seq(Dep) /\ Len(deps[Top.file]) \in Nat
      /\ \A i \in 1..Len(deps[Top.file]) : deps[Top.file][i].file \in Files
  <2>1. FirstEntry(Top.file) \in Files
    BY <1>1, <1>3, EntriesProperties DEF RestOK
  <2>2. deps[Top.file] \in Seq(Dep)
    BY <1>1, <1>3 DEF RestOK
  <2>3. Len(deps[Top.file]) \in Nat
    BY <2>2, LenProperties
  <2>4. \A i \in 1..Len(deps[Top.file]) : deps[Top.file][i] \in Dep
    BY <2>2, ElementOfSeq
  <2> QED BY <2>1, <2>2, <2>3, <2>4 DEF Dep
<1>5. /\ ret.status \in 0..2 /\ ret.must_make \in BOOLEAN
      /\ Or(Top.status, ret.status) \in 0..2
  BY <1>1, <1>3 DEF AnswerOK, Or
<1>6. UNCHANGED <<makefile, goals>>
      /\ UNCHANGED <<visited, jobs, recipe, status, update_status, updated, last_mtime>>
  BY DEF CheckDepSteps, CheckDepStart, CheckedFileUpdated, CheckDepOfIntermediate,
         DepOfIntermediateChecked, file
<1>7. ASSUME NEW F \in CheckDepFrames, Goto(F)
      PROVE  StackOK' /\ AnswerOK'
  <2>1. F.proc = "check_dep" /\ F \in Frames
    BY <1>7 DEF CheckDepFrames, Frames
  <2>2. Placed(F)'
    BY <2>1 DEF Placed
  <2> QED BY <1>1, <1>2, <1>3, <1>6, <1>7, <2>1, <2>2, GoesOn, AnswerTypes
<1>8. ASSUME NEW F \in CheckDepFrames, NEW G \in Frames,
             G.proc # "update_goal_chain", Placed(G), Call(F, G)
      PROVE  StackOK' /\ AnswerOK'
  <2>1. F.proc = "check_dep" /\ F \in Frames
    BY <1>8 DEF CheckDepFrames, Frames
  <2>2. Placed(F) /\ Calls(F)
    BY <2>1 DEF Placed, Calls
  <2> QED BY <1>1, <1>2, <1>3, <1>6, <1>8, <2>1, <2>2, CallsOn, AnswerTypes
<1>9. ASSUME NEW s \in 0..2, NEW b \in BOOLEAN, FinishCheck(s, b)
      PROVE  StackOK' /\ AnswerOK' /\ updating' = updating \ {FirstEntry(Top.file)}
  <2>1. UNCHANGED <<makefile, goals>> /\ Top.proc # "update_goal_chain"
    BY <1>3, <1>6
  <2>2. Return(s, b) /\ updating' = updating \ {FirstEntry(Top.file)}
    BY <1>9 DEF FinishCheck
  <2> QED BY <1>1, <1>2, <2>1, <2>2, ReturnsTo, AnswerTypes
<1>10. UNCHANGED command_state => FilesOK'
  BY <1>1, <1>6, FilesUnchanged
<1>11. ASSUME FilesOK', StackOK', AnswerOK', deps' \in [Files -> Seq(Dep)],
              updating' \in SUBSET Files
       PROVE  TypeInv'
  BY <1>1, <1>6, <1>11, TypeParts DEF RestOK
<1>12. deps \in [Files -> Seq(Dep)] /\ updating \in SUBSET Files
  BY <1>1 DEF RestOK
<1>13. CASE CheckDepStart
  <2>1. UNCHANGED <<deps, command_state>>
    BY <1>13 DEF CheckDepStart, file
  <2>2. CASE /\ updating' = updating \cup {FirstEntry(Top.file)}
             /\ Call([Top EXCEPT !.at = "updated"], UpdateFile(Top.file))
    <3>1. [Top EXCEPT !.at = "updated"] \in CheckDepFrames
      BY <1>2, CheckDepFields
    <3>2. UpdateFile(Top.file) \in Frames /\ Placed(UpdateFile(Top.file))
          /\ UpdateFile(Top.file).proc # "update_goal_chain"
      BY <1>1, <1>3, NewFrames DEF UpdateFile
    <3>3. StackOK' /\ AnswerOK'
      BY <1>8, <2>2, <3>1, <3>2
    <3> QED BY <1>4, <1>10, <1>11, <1>12, <2>1, <2>2, <3>3
  <2>3. CASE FinishCheck(0, TRUE)
    <3>1. 0 \in 0..2 /\ TRUE \in BOOLEAN
      OBVIOUS
    <3>2. StackOK' /\ AnswerOK' /\ updating' = updating \ {FirstEntry(Top.file)}
      BY <1>9, <2>3, <3>1, Zenon
    <3> QED BY <1>10, <1>11, <1>12, <2>1, <3>2
  <2>4. CASE /\ updating' = updating \cup {FirstEntry(Top.file)}
             /\ Goto([Top EXCEPT !.at = "deps"])
    <3>1. [Top EXCEPT !.at = "deps"] \in CheckDepFrames
      BY <1>2, CheckDepFields
    <3>2. StackOK' /\ AnswerOK'
      BY <1>7, <2>4, <3>1
    <3> QED BY <1>4, <1>10, <1>11, <1>12, <2>1, <2>4, <3>2
  <2> QED BY <1>13, <2>2, <2>3, <2>4 DEF CheckDepStart
<1>14. CASE CheckedFileUpdated
  <2> DEFINE b == \/ Top.must_make
                  \/ last_mtime[Top.file] = 0
                  \/ Newer(Top.file, Top.mtime)
  <2>1. UNCHANGED <<deps, command_state>>
    BY <1>14 DEF CheckedFileUpdated, file
  <2>2. FinishCheck(ret.status, b)
    BY <1>14 DEF CheckedFileUpdated
  <2>3. b \in BOOLEAN
    OBVIOUS
  <2> HIDE DEF b
  <2>4. StackOK' /\ AnswerOK' /\ updating' = updating \ {FirstEntry(Top.file)}
    BY <1>5, <1>9, <2>2, <2>3
  <2> QED BY <1>10, <1>11, <1>12, <2>1, <2>4
<1>15. CASE CheckDepOfIntermediate
  <2>1. UNCHANGED command_state
    BY <1>15 DEF CheckDepOfIntermediate
  <2>2. CASE FinishCheck(Top.status, Top.must_make) /\ UNCHANGED deps
    <3>1. StackOK' /\ AnswerOK' /\ updating' = updating \ {FirstEntry(Top.file)}
      BY <1>3, <1>9, <2>2
    <3> QED BY <1>10, <1>11, <1>12, <2>1, <2>2, <3>1
  <2>3. CASE ~(Top.i > Len(deps[Top.file]))
    <3> DEFINE d == deps[Top.file][Top.i]
    <3>1. Top.i \in 1..Len(deps[Top.file]) /\ UNCHANGED updating
      BY <1>3, <1>4, <1>15, <2>3 DEF CheckDepOfIntermediate
    <3>2. CASE Goto(Top) /\ DropDep(Top.file, Top.i)
      <4>1. RemoveAt(deps[Top.file], Top.i) \in Seq(Dep)
        BY <1>4, <3>1, RemoveAtProperties
      <4>2. deps' \in [Files -> Seq(Dep)]
        BY <1>3, <1>12, <3>2, <4>1 DEF DropDep
      <4>3. StackOK' /\ AnswerOK'
        BY <1>2, <1>7, <3>2
      <4> QED BY <1>10, <1>11, <1>12, <2>1, <3>1, <4>2, <4>3
    <3>3. CASE /\ Call(Top, CheckDep(d.file, Top.mtime, Top.must_make))
               /\ UNCHANGED deps
      <4> DEFINE G == CheckDep(d.file, Top.mtime, Top.must_make)
      <4>1. G \in Frames /\ Placed(G) /\ G.proc # "update_goal_chain"
        <5>1. d.file \in Files
          BY <1>4, <3>1
        <5> HIDE DEF d
        <5> QED BY <1>1, <1>3, <5>1, NewFrames DEF CheckDep
      <4>2. Call(Top, G)
        BY <3>3
      <4> HIDE DEF G
      <4>3. StackOK' /\ AnswerOK'
        BY <1>2, <1>8, <4>1, <4>2
      <4> QED BY <1>10, <1>11, <1>12, <2>1, <3>1, <3>3, <4>3
    <3> QED BY <1>15, <2>3, <3>2, <3>3 DEF CheckDepOfIntermediate
  <2> QED BY <1>15, <2>2, <2>3 DEF CheckDepOfIntermediate
<1>16. CASE DepOfIntermediateChecked
  <2> DEFINE d == deps[Top.file][Top.i]
             s == Or(Top.status, ret.status)
             b == IF d.ignore_mtime THEN Top.must_make ELSE ret.must_make
             i == Top.i + 1
             next == [Top EXCEPT !.i = i, !.status = s, !.must_make = b]
  <2>1. UNCHANGED deps
    BY <1>16 DEF DepOfIntermediateChecked
  <2>2. IF Fatal(s)
        THEN FinishCheck(s, b) /\ UNCHANGED command_state
        ELSE /\ IF command_state[d.file] \in Busy
                THEN SetCommandState(Top.file, "deps_running")
                ELSE UNCHANGED command_state
             /\ Goto(next)
             /\ UNCHANGED updating
    BY <1>16, Zenon DEF DepOfIntermediateChecked
  <2>3. s \in 0..2 /\ b \in BOOLEAN /\ i \in Nat \ {0}
    BY <1>3, <1>5
  <2>4. FilesOK'
    <3>1. SetCommandState(Top.file, "deps_running") => FilesOK'
      <4>1. "deps_running" \in Busy \cup {"not_started"}
        BY DEF Busy
      <4> QED BY <1>1, <1>3, <1>6, <4>1, SetCommandStateType
    <3> QED BY <1>10, <2>2, <3>1
  <2> HIDE DEF s, b, i
  <2>5. next \in CheckDepFrames
    BY <1>2, <2>3, CheckDepFields
  <2> HIDE DEF next
  <2>6. StackOK' /\ AnswerOK'
        /\ (updating' = updating \/ updating' = updating \ {FirstEntry(Top.file)})
    BY <1>7, <1>9, <2>2, <2>3, <2>5
  <2> QED BY <1>11, <1>12, <2>1, <2>4, <2>6
<1> QED BY <1>13, <1>14, <1>15, <1>16 DEF CheckDepSteps

LEMMA InitTypes ==
  ASSUME Init
  PROVE  TypeInv
PROOF
<1>1. makefile \in Makefiles /\ goals \in Seq(Files)
  BY RuleTypes DEF Init
<1>2. FilesOK
  <2>1. last_mtime \in [Files -> 0..MaxMtime] /\ last_mtime \in [Files -> Nat]
    BY MaxMtimeAssumption DEF Init
  <2>2. Bounded
    BY <2>1, MaxMtimeAssumption DEF Bounded
  <2> QED BY <2>1, <2>2 DEF Init, FilesOK, Noticed
<1>3. RestOK
  BY <1>1, RuleTypes DEF Init, RestOK
<1>4. AnswerOK
  BY DEF Init, AnswerOK, NoRet
<1>5. StackOK
  <2> DEFINE F == Goals(0, 1, FALSE)
  <2>1. F \in Frames /\ F.proc = "update_goal_chain" /\ F.g = 0
    BY DEF Goals, GoalsFrames, Frames
  <2>2. stack = <<F>> /\ pc = "call"
    BY DEF Init
  <2> HIDE DEF F
  <2>3. stack \in Seq(Frames) /\ Len(stack) = 1 /\ stack[1] = F /\ stack # << >>
    BY <2>1, <2>2
  <2>4. Placed(F)
    BY <2>1 DEF Placed
  <2> QED BY <2>1, <2>2, <2>3, <2>4 DEF StackOK
<1> QED BY <1>2, <1>3, <1>4, <1>5, TypeParts

LEMMA TypesStay ==
  ASSUME TypeInv, [Next]_vars
  PROVE  TypeInv'
PROOF
<1>1. CASE Next
  BY <1>1, GoalChainTypes, UpdateFileTypes, UpdateFile1Types, CheckDepTypes,
     NewJobTypes DEF Next
<1>2. CASE UNCHANGED vars
  <2>1. FilesOK /\ RestOK /\ AnswerOK /\ StackOK
    BY TypeParts
  <2>2. /\ UNCHANGED <<command_state, update_status, updated, last_mtime>>
        /\ UNCHANGED <<makefile, goals, stack, pc>> /\ UNCHANGED ret
        /\ UNCHANGED <<deps, updating, visited, jobs, recipe, status>>
    BY <1>2 DEF vars, file, walk, thread
  <2>3. FilesOK' /\ StackOK' /\ AnswerOK'
    BY <2>1, <2>2, FilesUnchanged, StaysPut, AnswerTypes
  <2> QED BY <2>1, <2>2, <2>3, TypeParts DEF RestOK
<1> QED BY <1>1, <1>2

(* The types and the shape of the stack last, whatever the makefiles are:  *)
(* remake.c never returns into a procedure that is not waiting, never asks *)
(* for an entry behind the last of a double-colon chain or for an answer   *)
(* of a target that has none.                                              *)
THEOREM TypeInvariance == Spec => []TypeInv
PROOF
<1>1. Init => TypeInv
  BY InitTypes
<1>2. TypeInv /\ [Next]_vars => TypeInv'
  BY TypesStay
<1> QED BY <1>1, <1>2, PTL DEF Spec

(* Type correctness of the dependency engine, for every makefile.          *)
THEOREM TypeCorrect == Spec => []TypeOK
PROOF
<1>1. TypeInv => TypeOK
  BY DEF TypeInv
<1> QED BY <1>1, TypeInvariance, PTL


-----------------------------------------------------------------------------
(* Plain makefiles                                                         *)
(*                                                                         *)
(* Rules of one target and one colon, for files that are not intermediate: *)
(* whatever the graph, circles included, the goals and the options.        *)
Plain(m) ==
    /\ \A f \in Files : m.double_colon[f] = << >> /\ m.also_make[f] = {}
    /\ m.intermediate = {}

DepFile(f, j) == deps[f][j].file
Considering(k) == stack[k].proc = "update_file_1"
Depth == 1..Len(stack)

(* Who has called whom, and from where.                                    *)
Waits(F) ==
    /\ F.proc = "update_file" => F.n = 1 /\ F.d = 0 /\ F.status = 0
    /\ F.proc = "update_file_1" =>
          \/ F.at = "deps" /\ F.i <= Len(deps[F.file])
          \/ F.at = "made"
    /\ F.proc = "check_dep" => F.at = "updated"
    /\ F.proc # "new_job"
Runs(F) ==
    /\ F.proc = "update_file" => F.n = 0 /\ F.d = 0 /\ F.status = 0
    /\ F.proc = "update_file_1" => F.at # "made"
    /\ F.proc = "check_dep" => F.at = "entry"
Link(G, F) ==
    /\ G.proc = "update_file" =>
          \/ F.proc = "update_goal_chain" /\ goals[F.g] = G.file
          \/ F.proc = "check_dep" /\ F.file = G.file
    /\ G.proc = "update_file_1" => F.proc = "update_file" /\ F.file = G.file
    /\ G.proc = "check_dep" =>
          /\ F.proc = "update_file_1" /\ F.at = "deps"
          /\ G.file = DepFile(F.file, F.i)
          /\ G.mtime = F.mtime /\ G.must_make = F.must_make
    /\ G.proc = "new_job" => F.proc = "update_file_1" /\ F.at = "made" /\ F.file = G.file
Linked ==
    \A k \in Depth :
        /\ k > 1 \/ pc = "return" => Waits(stack[k])
        /\ k = 1 /\ pc = "call" => Runs(stack[k])
        /\ k < Len(stack) => Link(stack[k], stack[k + 1])

(* No file is considered, or checked, below itself.                        *)
Apart ==
    \A j, k \in Depth :
        j < k /\ Considering(k) /\ stack[j].proc \in {"update_file_1", "check_dep"} =>
            stack[j].file # stack[k].file
Marked ==
    \A k \in Depth : Considering(k) =>
        /\ stack[k].file \in visited
        /\ stack[k].at = "deps" => stack[k].file \in updating
OnPath ==
    \A x \in updating : stack # << >> => \E k \in Depth :
        /\ stack[k].file = x
        /\ \/ Considering(k) /\ stack[k].at \in {"deps", "intermediates", "decide"}
           \/ stack[k].proc = "check_dep" /\ stack[k].at = "updated"

(* What a file's states have to do with each other, and with its           *)
(* prerequisites.                                                          *)
DepsMade(f) == \A j \in 1..Len(deps[f]) : Made(DepFile(f, j))
Recent(f, j, mtime) ==
    deps[f][j].ignore_mtime \/ last_mtime[DepFile(f, j)] \in 1..mtime
FileSound(f) ==
    /\ f \in updated <=> command_state[f] = "finished"
    /\ f \in updated <=> update_status[f] # -1
    /\ f \in jobs <=> command_state[f] = "running"
    /\ recipe[f] = "started" => command_state[f] \in {"running", "finished"}
    /\ recipe[f] = "over" => f \in updated
    /\ command_state[f] = "running" => recipe[f] = "started"
    /\ command_state[f] = "running" \/ Made(f) => DepsMade(f)
    /\ makefile.keep_going /\ f \in updated =>
          \A j \in 1..Len(deps[f]) : DepFile(f, j) \in updated
    /\ Made(f) /\ makefile.cmds[f] = "commands" /\ recipe[f] = "idle" =>
          /\ last_mtime[f] > 0
          /\ \A j \in 1..Len(deps[f]) : Recent(f, j, last_mtime[f])
FilesSound == \A f \in Files : FileSound(f)

(* update_file_1 of f, with the prerequisites it has asked for so far.     *)
Asked(F) == {j \in 1..Len(deps[F.file]) : F.at \in {"entry", "deps"} => j < F.i}
WalkSound(F) ==
    /\ F.at # "made" => F.mtime = last_mtime[F.file]
    /\ F.at = "entry" => F.i = 1 /\ F.status = 0 /\ ~F.running
    /\ F.at \in {"deps", "intermediates", "decide"} =>
          command_state[F.file] \in {"not_started", "deps_running"}
    /\ F.at = "make" => command_state[F.file] = "not_started"
    /\ F.at \in {"make", "made"} => ~F.running /\ F.status = 0
    /\ F.at \in {"entry", "deps"} => ~Fatal(F.status)
    /\ ~F.must_make => F.mtime > 0
    /\ ~F.running /\ ~Fatal(F.status) => \A j \in Asked(F) :
          /\ DepFile(F.file, j) \in updated
          /\ F.status = 0 => Made(DepFile(F.file, j))
          /\ ~F.must_make => Recent(F.file, j, F.mtime)
JobSound(F) ==
    IF F.started THEN command_state[F.file] \in {"running", "finished"}
                 ELSE command_state[F.file] = "not_started"
Active == {stack[k] : k \in Depth}
Rest == {stack[k] : k \in 2..Len(stack)}
FrameSound(F) ==
    /\ F.proc = "update_file_1" => WalkSound(F)
    /\ F.proc = "new_job" => JobSound(F)
FramesSound == \A F \in Active : FrameSound(F)

(* What a procedure returns about a file.                                  *)
Answers(f) ==
    \/ f \in updated /\ ret.status = update_status[f]
    \/ command_state[f] \in Busy /\ ret.status = 0
AnswerSound ==
    pc = "return" =>
        /\ Top.proc = "update_goal_chain" => Answers(goals[Top.g])
        /\ Top.proc \in {"update_file", "check_dep"} => Answers(Top.file)
        /\ Top.proc = "update_file_1" /\ Top.at = "made" =>
              command_state[Top.file] \in {"running", "finished"}
        /\ Top.proc = "update_file_1" /\ Top.at = "deps" =>
              LET d == DepFile(Top.file, Top.i)
              IN  /\ Answers(d)
                  /\ ~ret.must_make =>
                        ~Top.must_make /\ last_mtime[d] \in 1..Top.mtime

(* Pruning does no harm: in the first pass what counts as considered was   *)
(* considered, and later passes meet only files the first has dealt with.  *)
Of(F, f) == F.proc = "update_file_1" /\ F.file = f
OnStack(f) == \E F \in Active : Of(F, f)
Walking(f) == \E F \in Active : Of(F, f) /\ F.at = "deps"
Making(f) == \E F \in Active : Of(F, f) /\ F.at \in {"make", "made"}
Begun(f) == command_state[f] # "not_started"
Seen(f) == Begun(f) \/ Making(f)
FirstPass == \A f \in visited : Begun(f) \/ OnStack(f)
LaterPass ==
    /\ \A j \in 1..Len(goals) : Seen(goals[j])
    /\ \A F \in Active : F.proc # "update_goal_chain" => Seen(F.file)

(* From the prerequisite i of f on, all have been seen to, or all up to    *)
(* one whose failure puts an end to the walk.                              *)
WalkedFrom(f, i) ==
    \E m \in 0..Len(deps[f]) :
        /\ i - 1 <= m
        /\ \A j \in 1..m : Seen(DepFile(f, j))
        /\ \/ m = Len(deps[f])
           \/ /\ i <= m /\ ~makefile.keep_going
              /\ DepFile(f, m) \in updated /\ update_status[DepFile(f, m)] > 0
WalkSeen(F) ==
    /\ F.at = "deps" => \A j \in Asked(F) : Seen(DepFile(F.file, j))
    /\ F.at = "deps" /\ command_state[F.file] = "deps_running" => WalkedFrom(F.file, F.i)
    /\ F.at \in {"intermediates", "decide"} => WalkedFrom(F.file, 1)
FileWalked(f) ==
    command_state[f] = "deps_running" /\ ~Walking(f) => WalkedFrom(f, 1)
Walked ==
    /\ \A f \in Files : FileWalked(f)
    /\ \A F \in Active : F.proc = "update_file_1" => WalkSeen(F)
GoalsSeen(F) ==
    F.proc = "update_goal_chain" =>
        \A j \in 1..Len(goals) : j < F.g => Seen(goals[j])
PassSound ==
    stack # << >> =>
        /\ FirstPass \/ LaterPass
        /\ Walked
        /\ \A F \in Active : GoalsSeen(F)

(* What has become of the goals.                                           *)
GoalsSound ==
    /\ \A j \in 1..Len(goals) : \E i \in 1..Len(makefile.goals) :
          makefile.goals[i] = goals[j]
    /\ \A i \in 1..Len(makefile.goals) :
          \/ \E j \in 1..Len(goals) : goals[j] = makefile.goals[i]
          \/ /\ makefile.goals[i] \in updated
             /\ update_status[makefile.goals[i]] > 0 => status > 0
    /\ status > 0 => \E i \in 1..Len(makefile.goals) :
          makefile.goals[i] \in updated /\ update_status[makefile.goals[i]] > 0
    /\ stack = << >> /\ pc = "done" => goals = << >>


PlainInv ==
    /\ TypeInv /\ Plain(makefile)
    /\ Linked /\ Apart /\ Marked /\ OnPath
    /\ FilesSound /\ FramesSound /\ AnswerSound
    /\ PassSound /\ GoalsSound

-----------------------------------------------------------------------------
(* Plain makefiles: what the operators come to.                            *)
LEMMA PlainEntries ==
  ASSUME makefile \in Makefiles, Plain(makefile), NEW f \in Files
  PROVE  /\ Entries(f) = <<f>> /\ FirstEntry(f) = f
         /\ Len(Entries(f)) = 1 /\ Entries(f)[1] = f
         /\ ToSet(Entries(f)) = {f}
         /\ AnyBusy(f) <=> command_state[f] \in Busy
         /\ f \notin makefile.intermediate
PROOF
<1>1. Entries(f) = <<f>> /\ f \notin makefile.intermediate
  BY DEF Plain, Entries
<1>2. FirstEntry(f) = f /\ Len(Entries(f)) = 1 /\ Entries(f)[1] = f
  BY <1>1 DEF FirstEntry
<1>3. ToSet(Entries(f)) = {f}
  <2>1. DOMAIN <<f>> = {1} /\ <<f>>[1] = f
    OBVIOUS
  <2> QED BY <1>1, <2>1 DEF ToSet
<1>4. AnyBusy(f) <=> command_state[f] \in Busy
  BY <1>2 DEF AnyBusy
<1> QED BY <1>1, <1>2, <1>3, <1>4

LEMMA PlainSet ==
  ASSUME TypeInv, Plain(makefile), NEW f \in Files, NEW state, SetCommandState(f, state)
  PROVE  command_state' = [command_state EXCEPT ![f] = state]
PROOF
<1>1. makefile.also_make[f] = {}
  BY DEF Plain
<1>2. command_state' = [g \in Files |->
          IF g = f \/ g \in makefile.also_make[f] THEN state ELSE command_state[g]]
  BY DEF SetCommandState
<1> QED BY <1>1, <1>2 DEF TypeInv, TypeOK

LEMMA PlainNotice ==
  ASSUME TypeInv, Plain(makefile), NEW f \in Files, NEW s \in -1..2,
         NEW ran \in BOOLEAN, NEW touched \in BOOLEAN, Notice(f, s, ran, touched)
  PROVE  /\ command_state' = [command_state EXCEPT ![f] = "finished"]
         /\ update_status' = [update_status EXCEPT ![f] = IF s = -1 THEN 0 ELSE s]
         /\ updated' = updated \cup {f}
         /\ \A g \in Files \ {f} : last_mtime'[g] = last_mtime[g]
         /\ ~(ran /\ touched) => last_mtime'[f] = last_mtime[f]
PROOF
<1> DEFINE siblings == IF ran /\ s # -1 THEN makefile.also_make[f] ELSE {}
           result == IF s = -1 THEN 0 ELSE s
           mtime(g) == CASE g \in makefile.phony -> last_mtime[g]
                         [] g \notin makefile.phony /\ touched -> Now
                         [] OTHER -> Disk(g)
           alone == [g \in Files |-> IF ran /\ g \in {f} \cup siblings
                                     THEN mtime(g) ELSE last_mtime[g]]
           all == ToSet(Entries(f))
<1>1. /\ command_state' = [g \in Files |->
            IF g = f \/ g \in siblings THEN "finished" ELSE command_state[g]]
      /\ update_status' = [g \in Files |->
            IF g = f \/ g \in siblings THEN result ELSE update_status[g]]
      /\ updated' = updated \cup {f} \cup siblings
      /\ last_mtime' =
            IF makefile.double_colon[f] # << >> /\ all \subseteq updated \cup {f}
            THEN [g \in Files |-> IF g \in all THEN Max({alone[h] : h \in all})
                                               ELSE alone[g]]
            ELSE alone
  BY Zenon DEF Notice
<1>2. siblings = {}
  BY DEF Plain
<1>3. last_mtime' = alone
  BY <1>1 DEF Plain
<1>4. ~touched => mtime(f) = last_mtime[f]
  <2>1. ToSet(Entries(f)) = {f} /\ last_mtime[f] \in Nat
    BY PlainEntries DEF TypeInv, TypeOK
  <2>2. {last_mtime[g] : g \in ToSet(Entries(f))} = {last_mtime[f]}
    BY <2>1
  <2>3. {last_mtime[f]} \in SUBSET Nat /\ {last_mtime[f]} # {}
        /\ \A x \in {last_mtime[f]} : x <= last_mtime[f]
    BY <2>1
  <2>4. Max({last_mtime[f]}) \in {last_mtime[f]}
    BY <2>1, <2>3, Greatest
  <2>5. Disk(f) = last_mtime[f]
    BY <2>2, <2>4 DEF Disk
  <2> QED BY <2>5
<1> HIDE DEF siblings, mtime
<1>5. /\ \A g \in Files \ {f} : last_mtime'[g] = last_mtime[g]
      /\ ~(ran /\ touched) => last_mtime'[f] = last_mtime[f]
  BY <1>2, <1>3, <1>4
<1>6. /\ command_state' = [command_state EXCEPT ![f] = "finished"]
      /\ update_status' = [update_status EXCEPT ![f] = result]
      /\ updated' = updated \cup {f}
  BY <1>1, <1>2 DEF TypeInv, TypeOK
<1> QED BY <1>5, <1>6

-----------------------------------------------------------------------------
(* A step that concerns one file only, and leaves it alone once it has     *)
(* been updated.                                                           *)
Same(g) ==
    /\ deps'[g] = deps[g] /\ command_state'[g] = command_state[g]
    /\ update_status'[g] = update_status[g] /\ last_mtime'[g] = last_mtime[g]
    /\ recipe'[g] = recipe[g]
    /\ g \in updated' <=> g \in updated
    /\ g \in jobs' <=> g \in jobs
Concerns(f) ==
    /\ makefile' = makefile
    /\ \A g \in Files : g # f \/ f \in updated => Same(g)

LEMMA UpdatedStays ==
  ASSUME NEW f \in Files, Concerns(f), NEW d \in Files, d \in updated
  PROVE  Same(d) /\ d \in updated'
PROOF
BY DEF Concerns, Same

LEMMA MadeStays ==
  ASSUME NEW f \in Files, Concerns(f), NEW d \in Files, Made(d)
  PROVE  Made(d)' /\ Same(d)
PROOF
BY UpdatedStays DEF Same, Made

LEMMA DepFiles ==
  ASSUME TypeInv, NEW f \in Files, NEW j \in 1..Len(deps[f])
  PROVE  deps[f][j] \in Dep /\ DepFile(f, j) \in Files
PROOF
<1>1. deps[f] \in Seq(Dep)
  BY DEF TypeInv, TypeOK
<1>2. deps[f][j] \in Dep
  BY <1>1, ElementOfSeq
<1> QED BY <1>2 DEF Dep, DepFile

LEMMA SoundStays ==
  ASSUME TypeInv, NEW f \in Files, Concerns(f), NEW g \in Files, Same(g), FileSound(g)
  PROVE  FileSound(g)'
PROOF
<1>1. \A j \in 1..Len(deps[g]) : DepFile(g, j) \in Files /\ DepFile(g, j)' = DepFile(g, j)
  BY DepFiles DEF Same, DepFile
<1>2. Len(deps'[g]) = Len(deps[g])
  BY DEF Same
<1>3. Made(g)' = Made(g)
  BY DEF Same, Made
<1>4. DepsMade(g) => DepsMade(g)'
  <2> SUFFICES ASSUME DepsMade(g), NEW j \in 1..Len(deps[g]) PROVE Made(DepFile(g, j))'
    BY <1>2 DEF DepsMade
  <2>1. Made(DepFile(g, j)) /\ DepFile(g, j) \in Files
    BY <1>1 DEF DepsMade
  <2>2. \A d \in Files : Made(d) => Made(d)'
    BY MadeStays
  <2>3. DepFile(g, j)' = DepFile(g, j)
    BY <1>1
  <2> QED BY <2>1, <2>2, <2>3 DEF Made
<1>5. (command_state[g] = "running" \/ Made(g) => DepsMade(g))'
  BY <1>3, <1>4 DEF FileSound, Same
<1>6. (makefile.keep_going /\ g \in updated =>
          \A j \in 1..Len(deps[g]) : DepFile(g, j) \in updated)'
  <2> SUFFICES ASSUME makefile.keep_going, g \in updated, NEW j \in 1..Len(deps[g])
               PROVE  DepFile(g, j)' \in updated'
    BY <1>2 DEF Same, Concerns
  <2>1. DepFile(g, j) \in updated
    BY DEF FileSound
  <2> QED BY <1>1, <2>1, UpdatedStays
<1>7. (Made(g) /\ makefile.cmds[g] = "commands" /\ recipe[g] = "idle" =>
          /\ last_mtime[g] > 0
          /\ \A j \in 1..Len(deps[g]) : Recent(g, j, last_mtime[g]))'
  <2> SUFFICES ASSUME Made(g), makefile.cmds[g] = "commands", recipe[g] = "idle"
               PROVE  /\ last_mtime'[g] > 0
                      /\ \A j \in 1..Len(deps[g]) : Recent(g, j, last_mtime[g])'
    BY <1>2, <1>3 DEF Same, Concerns
  <2>1. /\ last_mtime[g] > 0 /\ DepsMade(g)
        /\ \A j \in 1..Len(deps[g]) : Recent(g, j, last_mtime[g])
    BY DEF FileSound
  <2>2. ASSUME NEW j \in 1..Len(deps[g]) PROVE Recent(g, j, last_mtime[g])'
    <3>1. Recent(g, j, last_mtime[g]) /\ Made(DepFile(g, j)) /\ DepFile(g, j) \in Files
      BY <1>1, <2>1 DEF DepsMade
    <3>2. Same(DepFile(g, j)) /\ DepFile(g, j)' = DepFile(g, j)
      BY <1>1, <3>1, MadeStays
    <3> QED BY <3>1, <3>2 DEF Recent, Same
  <2> QED BY <2>1, <2>2 DEF Same
<1>8. /\ (g \in updated <=> command_state[g] = "finished")'
      /\ (g \in updated <=> update_status[g] # -1)'
      /\ (g \in jobs <=> command_state[g] = "running")'
      /\ (recipe[g] = "started" => command_state[g] \in {"running", "finished"})'
      /\ (recipe[g] = "over" => g \in updated)'
      /\ (command_state[g] = "running" => recipe[g] = "started")'
  BY DEF FileSound, Same
<1> QED BY <1>5, <1>6, <1>7, <1>8 DEF FileSound

LEMMA FilesSoundStays ==
  ASSUME TypeInv, NEW f \in Files, Concerns(f), FilesSound, f \notin updated => FileSound(f)'
  PROVE  FilesSound'
PROOF
<1> SUFFICES ASSUME NEW g \in Files PROVE FileSound(g)'
  BY DEF FilesSound
<1>1. CASE g # f \/ f \in updated
  <2>1. Same(g) /\ FileSound(g)
    BY <1>1 DEF Concerns, FilesSound
  <2> QED BY <2>1, SoundStays
<1> QED BY <1>1


(* What was found out about a target's prerequisites stays true.           *)
LEMMA WalkStays ==
  ASSUME TypeInv, NEW f \in Files, Concerns(f), NEW F \in UpdateFile1Frames,
         WalkSound(F), deps'[F.file] = deps[F.file], F.at = "made" \/ Same(F.file)
  PROVE  WalkSound(F)'
PROOF
<1>1. F.file \in Files
  BY DEF UpdateFile1Frames
<1>2. \A j \in 1..Len(deps[F.file]) :
         DepFile(F.file, j) \in Files /\ DepFile(F.file, j)' = DepFile(F.file, j)
  BY <1>1, DepFiles DEF DepFile
<1>3. Asked(F)' = Asked(F) /\ Asked(F) \subseteq 1..Len(deps[F.file])
  BY DEF Asked
<1>4. Fatal(F.status)' = Fatal(F.status)
  BY DEF Fatal, Concerns
<1>5. ASSUME ~F.running, ~Fatal(F.status), NEW j \in Asked(F)
      PROVE  /\ DepFile(F.file, j)' \in updated'
             /\ F.status = 0 => Made(DepFile(F.file, j))'
             /\ ~F.must_make => Recent(F.file, j, F.mtime)'
  <2> DEFINE d == DepFile(F.file, j)
  <2>1. d \in Files /\ d' = d
    BY <1>2, <1>3, <1>5
  <2>2. /\ d \in updated
        /\ F.status = 0 => Made(d)
        /\ ~F.must_make => Recent(F.file, j, F.mtime)
    BY <1>5 DEF WalkSound
  <2>3. Same(d) /\ d \in updated'
    BY <2>1, <2>2, UpdatedStays
  <2>4. F.status = 0 => Made(d)'
    BY <2>1, <2>2, <2>3 DEF Made, Same
  <2>5. ~F.must_make => Recent(F.file, j, F.mtime)'
    BY <2>1, <2>2, <2>3 DEF Recent, Same
  <2> QED BY <2>1, <2>3, <2>4, <2>5
<1>6. (~F.running /\ ~Fatal(F.status) => \A j \in Asked(F) :
          /\ DepFile(F.file, j) \in updated
          /\ F.status = 0 => Made(DepFile(F.file, j))
          /\ ~F.must_make => Recent(F.file, j, F.mtime))'
  BY <1>3, <1>4, <1>5
<1>7. /\ F.at # "made" => F.mtime = last_mtime'[F.file]
      /\ F.at \in {"deps", "intermediates", "decide"} =>
            command_state'[F.file] \in {"not_started", "deps_running"}
      /\ F.at = "make" => command_state'[F.file] = "not_started"
  BY DEF WalkSound, Same
<1>8. /\ F.at = "entry" => F.i = 1 /\ F.status = 0 /\ ~F.running
      /\ F.at \in {"make", "made"} => ~F.running /\ F.status = 0
      /\ F.at \in {"entry", "deps"} => ~Fatal(F.status)'
      /\ ~F.must_make => F.mtime > 0
  BY <1>4 DEF WalkSound
<1> QED BY <1>6, <1>7, <1>8 DEF WalkSound

LEMMA GoalsStay ==
  ASSUME TypeInv, NEW f \in Files, Concerns(f), GoalsSound, UNCHANGED <<goals, status>>,
         stack' = << >> /\ pc' = "done" => goals = << >>
  PROVE  GoalsSound'
PROOF
<1>1. \A i \in 1..Len(makefile.goals) : makefile.goals[i] \in Files
  <2>1. makefile.goals \in Seq(Files)
    BY RuleTypes DEF TypeInv, TypeOK
  <2> QED BY <2>1, ElementOfSeq
<1>2. \A i \in 1..Len(makefile.goals) : makefile.goals[i] \in updated =>
         /\ makefile.goals[i] \in updated'
         /\ update_status'[makefile.goals[i]] = update_status[makefile.goals[i]]
  BY <1>1, UpdatedStays DEF Same
<1>3. makefile' = makefile
  BY DEF Concerns
<1> QED BY <1>2, <1>3 DEF GoalsSound

(* What has been dealt with stays dealt with.                              *)
SeenOn == \A d \in Files : Seen(d) => Seen(d)'

LEMMA WalkedFromStays ==
  ASSUME TypeInv, NEW f \in Files, Concerns(f), SeenOn, NEW g \in Files,
         deps'[g] = deps[g], NEW i \in Nat \ {0}, WalkedFrom(g, i)
  PROVE  WalkedFrom(g, i)'
PROOF
<1>1. PICK m \in 0..Len(deps[g]) :
          /\ i - 1 <= m
          /\ \A j \in 1..m : Seen(DepFile(g, j))
          /\ \/ m = Len(deps[g])
             \/ /\ i <= m /\ ~makefile.keep_going
                /\ DepFile(g, m) \in updated /\ update_status[DepFile(g, m)] > 0
  BY DEF WalkedFrom
<1>2. deps[g] \in Seq(Dep) /\ Len(deps[g]) \in Nat
  BY LenProperties DEF TypeInv, TypeOK
<1>3. \A j \in 1..Len(deps[g]) :
         DepFile(g, j) \in Files /\ DepFile(g, j)' = DepFile(g, j)
  BY DepFiles DEF DepFile
<1>4. \A j \in 1..m : Seen(DepFile(g, j))'
  <2> TAKE j \in 1..m
  <2>1. j \in 1..Len(deps[g])
    BY <1>1, <1>2
  <2>2. Seen(DepFile(g, j)) /\ DepFile(g, j) \in Files /\ DepFile(g, j)' = DepFile(g, j)
    BY <1>1, <1>3, <2>1
  <2> QED BY <2>2 DEF SeenOn, Seen, Begun, Making, Active, Depth, Of
<1>5. ASSUME i <= m, DepFile(g, m) \in updated, update_status[DepFile(g, m)] > 0, m # 0
      PROVE  DepFile(g, m)' \in updated' /\ update_status'[DepFile(g, m)'] > 0
  <2>1. m \in 1..Len(deps[g])
    BY <1>1, <1>2, <1>5
  <2>2. Same(DepFile(g, m)) /\ DepFile(g, m) \in updated' /\ DepFile(g, m)' = DepFile(g, m)
    BY <1>3, <1>5, <2>1, UpdatedStays
  <2> QED BY <1>5, <2>2 DEF Same
<1>6. m \in 0..Len(deps'[g]) /\ i - 1 <= m /\ makefile' = makefile
      /\ Len(deps'[g]) = Len(deps[g])
  BY <1>1 DEF Concerns
<1>7. \/ m = Len(deps'[g])
      \/ /\ i <= m /\ ~makefile'.keep_going
         /\ DepFile(g, m)' \in updated' /\ update_status'[DepFile(g, m)'] > 0
  <2>1. CASE m = Len(deps[g])
    BY <1>6, <2>1
  <2>2. CASE /\ i <= m /\ ~makefile.keep_going
             /\ DepFile(g, m) \in updated /\ update_status[DepFile(g, m)] > 0
    <3>1. m # 0
      BY <1>2, <2>2
    <3> QED BY <1>5, <1>6, <2>2, <3>1
  <2> QED BY <1>1, <2>1, <2>2
<1> QED BY <1>4, <1>6, <1>7 DEF WalkedFrom


-----------------------------------------------------------------------------
(* The path from the goal to where make is.                                *)
PathSound == Linked /\ Apart /\ Marked /\ OnPath

(* A frame that took the place of another of the same procedure.           *)
Replaces(F, T) ==
    /\ F.proc = T.proc
    /\ F.proc # "update_goal_chain" => F.file = T.file
    /\ F.proc = "check_dep" => F.mtime = T.mtime /\ F.must_make = T.must_make

LEMMA ReplacedLink ==
  ASSUME NEW F, NEW T, NEW C, Replaces(F, T), T.proc # "update_goal_chain", Link(T, C)
  PROVE  Link(F, C)
PROOF
BY DEF Replaces, Link

(* Below the innermost procedure nothing changes.                          *)
DepsBelow == \A k \in 2..Len(stack) : Considering(k) =>
                 deps'[stack[k].file] = deps[stack[k].file]

LEMMA PathGoto ==
  ASSUME StackOK, stack # << >>, PathSound, NEW F \in Frames, Goto(F), Replaces(F, Top),
         Runs(F), F.proc \in {"update_file_1", "new_job"},
         UNCHANGED <<goals, visited>>, DepsBelow,
         updating \ {F.file} \subseteq updating', updating' \subseteq updating \cup {F.file},
         F.proc = "new_job" => updating' = updating,
         F.proc = "update_file_1" =>
            /\ F.at = "deps" => F.file \in updating'
            /\ F.file \in updating' => F.at \in {"deps", "intermediates", "decide"}
  PROVE  PathSound'
PROOF
<1>1. /\ Len(stack) \in Nat \ {0} /\ Top = stack[1]
  BY TopOfStack
<1>2. /\ Len(stack') = Len(stack) /\ stack'[1] = F
      /\ \A k \in 2..Len(stack) : stack'[k] = stack[k]
      /\ stack' # << >>
  BY GotoStack
<1>3. pc' = "call"
  BY DEF Goto
<1>4. F.proc = stack[1].proc /\ F.file = stack[1].file /\ 1 \in Depth
  BY <1>1 DEF Replaces, Depth
<1>5. Linked'
  <2> SUFFICES ASSUME NEW k \in 1..Len(stack)
               PROVE  /\ k > 1 => Waits(stack[k])'
                      /\ k = 1 => Runs(stack[k])'
                      /\ k < Len(stack) => Link(stack[k], stack[k + 1])'
    BY <1>2, <1>3 DEF Linked, Depth
  <2>1. CASE k = 1
    <3>1. ASSUME k < Len(stack) PROVE Link(stack[k], stack[k + 1])'
      <4>1. Link(stack[1], stack[2]) /\ stack'[1] = F /\ stack'[2] = stack[2] /\ 2 \in 2..Len(stack)
        BY <1>1, <1>2, <1>4, <2>1, <3>1 DEF PathSound, Linked, Depth
      <4>2. Link(F, stack[2])
        BY <1>1, <1>4, <4>1, ReplacedLink
      <4>3. stack[2].proc = "update_file_1" =>
               deps'[stack[2].file] = deps[stack[2].file]
        BY <4>1 DEF DepsBelow, Considering
      <4> QED BY <1>1, <2>1, <4>1, <4>2, <4>3 DEF Link, DepFile
    <3> QED BY <1>2, <2>1, <3>1 DEF Runs
  <2>2. CASE k # 1
    <3>1. k \in 2..Len(stack) /\ stack'[k] = stack[k] /\ Waits(stack[k])
          /\ (k < Len(stack) => Link(stack[k], stack[k + 1]))
      BY <1>1, <1>2, <2>2 DEF PathSound, Linked, Depth
    <3>2. stack[k].proc = "update_file_1" => deps'[stack[k].file] = deps[stack[k].file]
      BY <3>1 DEF DepsBelow, Considering
    <3>3. Waits(stack[k])'
      BY <3>1, <3>2 DEF Waits
    <3>4. ASSUME k < Len(stack) PROVE Link(stack[k], stack[k + 1])'
      <4>1. k + 1 \in 2..Len(stack) /\ stack'[k + 1] = stack[k + 1]
        BY <1>1, <1>2, <3>1, <3>4
      <4>2. stack[k + 1].proc = "update_file_1" =>
               deps'[stack[k + 1].file] = deps[stack[k + 1].file]
        BY <4>1 DEF DepsBelow, Considering
      <4> QED BY <3>1, <3>4, <4>1, <4>2 DEF Link, DepFile
    <3> QED BY <2>2, <3>3, <3>4
  <2> QED BY <2>1, <2>2
<1>6. \A k \in 1..Len(stack) : stack'[k].proc = stack[k].proc
                               /\ (k > 1 \/ stack[k].proc = F.proc => stack'[k].file = stack[k].file)
  BY <1>1, <1>2, <1>4
<1>7. Apart'
  BY <1>1, <1>2, <1>4, <1>6 DEF Apart, PathSound, Considering, Depth
<1>8. Marked'
  <2> SUFFICES ASSUME NEW k \in 1..Len(stack), stack'[k].proc = "update_file_1"
               PROVE  /\ stack'[k].file \in visited'
                      /\ stack'[k].at = "deps" => stack'[k].file \in updating'
    BY <1>2 DEF Marked, Considering, Depth
  <2>1. CASE k = 1
    BY <1>2, <1>4, <2>1 DEF Marked, PathSound, Considering, Depth
  <2>2. CASE k # 1
    <3>1. k \in 2..Len(stack) /\ k \in Depth /\ stack'[k] = stack[k]
      BY <1>1, <1>2, <2>2 DEF Depth
    <3>2. stack[k].file \in visited /\ (stack[k].at = "deps" => stack[k].file \in updating)
      BY <3>1 DEF Marked, PathSound, Considering
    <3>3. F.proc = "update_file_1" => F.file # stack[k].file
      <4>1. Considering(k) /\ 1 < k /\ k \in Depth
        BY <3>1 DEF Considering
      <4>2. Apart
        BY DEF PathSound
      <4> QED BY <1>4, <4>1, <4>2 DEF Apart
    <3> QED BY <3>1, <3>2, <3>3
  <2> QED BY <2>1, <2>2
<1>9. OnPath'
  <2> SUFFICES ASSUME NEW x \in updating'
               PROVE  \E k \in 1..Len(stack) :
                         /\ stack'[k].file = x
                         /\ \/ stack'[k].proc = "update_file_1"
                               /\ stack'[k].at \in {"deps", "intermediates", "decide"}
                            \/ stack'[k].proc = "check_dep" /\ stack'[k].at = "updated"
    BY <1>2 DEF OnPath, Considering, Depth
  <2>1. CASE F.proc = "update_file_1" /\ x = F.file
    BY <1>1, <1>2, <2>1
  <2>2. CASE ~(F.proc = "update_file_1" /\ x = F.file)
    <3>1. x \in updating
      BY <2>2
    <3>2. PICK k \in 1..Len(stack) :
             /\ stack[k].file = x
             /\ \/ stack[k].proc = "update_file_1"
                   /\ stack[k].at \in {"deps", "intermediates", "decide"}
                \/ stack[k].proc = "check_dep" /\ stack[k].at = "updated"
      BY <3>1 DEF OnPath, PathSound, Considering, Depth
    <3>3. k # 1
      BY <1>4, <2>2, <3>2
    <3> QED BY <1>1, <1>2, <3>2, <3>3
  <2> QED BY <2>1, <2>2
<1> QED BY <1>5, <1>7, <1>8, <1>9 DEF PathSound

LEMMA PathLoneGoto ==
  ASSUME StackOK, stack # << >>, PathSound, NEW F \in GoalsFrames, Goto(F),
         Len(stack) = 1, UNCHANGED updating
  PROVE  PathSound'
PROOF
<1>1. Len(stack') = 1 /\ stack'[1] = F /\ pc' = "call" /\ stack[1].proc = "update_goal_chain"
  BY GotoStack DEF Goto, StackOK
<1>2. F.proc = "update_goal_chain"
  BY DEF GoalsFrames
<1>3. Depth' = {1} /\ Depth = {1}
  BY <1>1 DEF Depth
<1>4. Linked'
  BY <1>1, <1>2, <1>3 DEF Linked, Runs
<1>5. Apart' /\ Marked'
  BY <1>1, <1>2, <1>3 DEF Apart, Marked, Considering
<1>6. updating = {}
  BY <1>1, <1>3 DEF PathSound, OnPath, Considering
<1> QED BY <1>4, <1>5, <1>6 DEF PathSound, OnPath

LEMMA PathCall ==
  ASSUME StackOK, stack # << >>, PathSound, NEW F \in Frames, NEW G \in Frames,
         Call(F, G), Replaces(F, Top), F.proc = "update_goal_chain" => F = Top,
         Waits(F), Link(G, F), Runs(G),
         G.proc \in {"update_file", "update_file_1", "check_dep", "new_job"},
         UNCHANGED <<goals, deps>>, visited \subseteq visited', updating \subseteq updating',
         F.proc = "update_file_1" =>
            /\ F.at = Top.at \/ Top.at \notin {"deps", "intermediates", "decide"}
            /\ F.at = "deps" => Top.at = "deps",
         F.proc = "check_dep" => Top.at # "updated",
         G.proc = "update_file_1" => G.file \in visited' /\ G.at # "deps",
         G.proc \in {"update_file_1", "check_dep"} =>
            \A k \in Depth : Considering(k) => stack[k].file # G.file,
         \/ updating' = updating
         \/ F.proc = "check_dep" /\ F.at = "updated" /\ updating' = updating \cup {F.file}
  PROVE  PathSound'
PROOF
<1>1. /\ Len(stack) \in Nat \ {0} /\ Top = stack[1]
  BY TopOfStack
<1>2. /\ Len(stack') = Len(stack) + 1 /\ stack'[1] = G /\ stack'[2] = F
      /\ \A k \in 3..(Len(stack) + 1) : stack'[k] = stack[k - 1]
      /\ stack' # << >>
  BY CallStack
<1>3. pc' = "call"
  BY DEF Call
<1>4. /\ F.proc = stack[1].proc /\ 1 \in Depth
      /\ F.proc # "update_goal_chain" => F.file = stack[1].file
      /\ F.proc = "update_goal_chain" <=> Len(stack) = 1
  BY <1>1, TopOfStack DEF Replaces, Depth
<1>5. \A k \in 1..(Len(stack) + 1) : k = 1 \/ k = 2 \/ k \in 3..(Len(stack) + 1)
  BY <1>1
<1>6. \A k \in 3..(Len(stack) + 1) :
         k - 1 \in Depth /\ k - 1 > 1 /\ stack'[k] = stack[k - 1]
  BY <1>1, <1>2 DEF Depth
<1>7. Linked'
  <2> SUFFICES ASSUME NEW k \in 1..(Len(stack) + 1)
               PROVE  /\ k > 1 => Waits(stack[k])'
                      /\ k = 1 => Runs(stack[k])'
                      /\ k < Len(stack) + 1 => Link(stack[k], stack[k + 1])'
    BY <1>2, <1>3 DEF Linked, Depth
  <2>1. CASE k = 1
    BY <1>1, <1>2, <2>1 DEF Runs, Link, DepFile
  <2>2. CASE k = 2
    <3>1. Waits(stack[k])'
      BY <1>2, <2>2 DEF Waits
    <3>2. ASSUME k < Len(stack) + 1 PROVE Link(stack[k], stack[k + 1])'
      <4>1. Link(stack[1], stack[2]) /\ stack'[2] = F /\ stack'[3] = stack[2]
        BY <1>1, <1>2, <1>4, <2>2, <3>2 DEF PathSound, Linked, Depth
      <4>2. Link(F, stack[2])
        BY <1>1, <1>4, <2>2, <3>2, <4>1, ReplacedLink
      <4> QED BY <2>2, <4>1, <4>2 DEF Link, DepFile
    <3> QED BY <2>2, <3>1, <3>2
  <2>3. CASE k \in 3..(Len(stack) + 1)
    <3>1. stack'[k] = stack[k - 1] /\ k - 1 \in Depth /\ k - 1 > 1
      BY <1>6, <2>3
    <3>2. Waits(stack[k - 1]) /\ (k - 1 < Len(stack) => Link(stack[k - 1], stack[k]))
      BY <1>1, <3>1 DEF PathSound, Linked
    <3>3. Waits(stack[k])'
      BY <3>1, <3>2 DEF Waits
    <3>4. ASSUME k < Len(stack) + 1 PROVE Link(stack[k], stack[k + 1])'
      <4>1. k + 1 \in 3..(Len(stack) + 1) /\ stack'[k + 1] = stack[k]
        BY <1>1, <1>2, <2>3, <3>4
      <4>2. Link(stack[k - 1], stack[k])
        BY <1>1, <2>3, <3>2, <3>4
      <4> QED BY <3>1, <4>1, <4>2 DEF Link, DepFile
    <3> QED BY <2>3, <3>3, <3>4
  <2> QED BY <1>5, <2>1, <2>2, <2>3
<1>8. Apart'
  <2> SUFFICES ASSUME NEW j \in 1..(Len(stack) + 1), NEW k \in 1..(Len(stack) + 1),
                      j < k, stack'[k].proc = "update_file_1",
                      stack'[j].proc \in {"update_file_1", "check_dep"}
               PROVE  stack'[j].file # stack'[k].file
    BY <1>2 DEF Apart, Considering, Depth
  <2>1. PICK q \in Depth : /\ stack'[k].proc = stack[q].proc /\ stack'[k].file = stack[q].file
                           /\ k = q + 1
    <3>1. CASE k = 2
      BY <1>2, <1>4, <3>1
    <3>2. CASE k \in 3..(Len(stack) + 1)
      BY <1>6, <3>2
    <3> QED BY <1>5, <3>1, <3>2
  <2>2. Considering(q)
    BY <2>1 DEF Considering
  <2>3. CASE j = 1
    BY <1>2, <2>1, <2>2, <2>3
  <2>4. CASE j # 1
    <3>1. PICK p \in Depth : /\ stack'[j].proc = stack[p].proc
                             /\ stack'[j].file = stack[p].file /\ j = p + 1
      <4>1. CASE j = 2
        BY <1>2, <1>4, <4>1
      <4>2. CASE j \in 3..(Len(stack) + 1)
        BY <1>6, <4>2
      <4> QED BY <1>5, <2>4, <4>1, <4>2
    <3>2. p < q
      BY <1>1, <2>1, <3>1 DEF Depth
    <3> QED BY <2>1, <2>2, <3>1, <3>2 DEF PathSound, Apart
  <2> QED BY <2>3, <2>4
<1>9. Marked'
  <2> SUFFICES ASSUME NEW k \in 1..(Len(stack) + 1), stack'[k].proc = "update_file_1"
               PROVE  /\ stack'[k].file \in visited'
                      /\ stack'[k].at = "deps" => stack'[k].file \in updating'
    BY <1>2 DEF Marked, Considering, Depth
  <2>1. CASE k = 1
    BY <1>2, <2>1
  <2>2. CASE k = 2
    <3>1. /\ stack[1].file \in visited
          /\ stack[1].at = "deps" => stack[1].file \in updating
      BY <1>2, <1>4, <2>2 DEF PathSound, Marked, Considering
    <3> QED BY <1>1, <1>2, <1>4, <2>2, <3>1
  <2>3. CASE k \in 3..(Len(stack) + 1)
    BY <1>6, <2>3 DEF PathSound, Marked, Considering
  <2> QED BY <1>5, <2>1, <2>2, <2>3
<1>10. OnPath'
  <2> SUFFICES ASSUME NEW x \in updating'
               PROVE  \E k \in 1..(Len(stack) + 1) :
                         /\ stack'[k].file = x
                         /\ \/ stack'[k].proc = "update_file_1"
                               /\ stack'[k].at \in {"deps", "intermediates", "decide"}
                            \/ stack'[k].proc = "check_dep" /\ stack'[k].at = "updated"
    BY <1>2 DEF OnPath, Considering, Depth
  <2>1. CASE x \notin updating
    BY <1>1, <1>2, <2>1
  <2>2. CASE x \in updating
    <3>1. PICK k \in Depth :
             /\ stack[k].file = x
             /\ \/ stack[k].proc = "update_file_1"
                   /\ stack[k].at \in {"deps", "intermediates", "decide"}
                \/ stack[k].proc = "check_dep" /\ stack[k].at = "updated"
      BY <2>2 DEF OnPath, PathSound, Considering
    <3>2. CASE k = 1
      <4>1. /\ stack'[2].file = x /\ stack'[2].proc = "update_file_1"
            /\ stack'[2].at \in {"deps", "intermediates", "decide"}
        BY <1>1, <1>2, <1>4, <3>1, <3>2
      <4> QED BY <1>1, <4>1
    <3>3. CASE k # 1
      <4>1. k + 1 \in 3..(Len(stack) + 1) /\ stack'[k + 1] = stack[k]
        BY <1>1, <1>2, <3>3 DEF Depth
      <4> QED BY <3>1, <4>1
    <3> QED BY <3>2, <3>3
  <2> QED BY <2>1, <2>2
<1> QED BY <1>7, <1>8, <1>9, <1>10 DEF PathSound

LEMMA PathReturn ==
  ASSUME StackOK, stack # << >>, PathSound, Top.proc # "update_goal_chain",
         NEW s, NEW b, Return(s, b), UNCHANGED <<goals, deps, visited>>,
         updating \ {Top.file} \subseteq updating', updating' \subseteq updating,
         Top.proc = "update_file_1" /\ Top.at \in {"deps", "intermediates", "decide"} =>
             Top.file \notin updating',
         Top.proc = "check_dep" => Top.file \notin updating',
         Top.proc \notin {"update_file_1", "check_dep"} => updating' = updating
  PROVE  PathSound'
PROOF
<1>1. Len(stack) \in Nat \ {0} /\ Len(stack) # 1 /\ Top = stack[1]
  BY TopOfStack
<1>2. /\ Len(stack') = Len(stack) - 1
      /\ \A k \in 1..(Len(stack) - 1) : stack'[k] = stack[k + 1]
  BY ReturnStack
<1>3. pc' = "return"
  BY DEF Return
<1>4. \A k \in 1..(Len(stack) - 1) :
         k + 1 \in Depth /\ k + 1 > 1 /\ stack'[k] = stack[k + 1]
  BY <1>1, <1>2 DEF Depth
<1>5. Linked'
  <2> SUFFICES ASSUME NEW k \in 1..(Len(stack) - 1)
               PROVE  /\ Waits(stack[k])'
                      /\ k < Len(stack) - 1 => Link(stack[k], stack[k + 1])'
    BY <1>2, <1>3 DEF Linked, Depth
  <2>1. stack'[k] = stack[k + 1] /\ k + 1 \in Depth /\ k + 1 > 1
    BY <1>4
  <2>2. Waits(stack[k + 1])
        /\ (k + 1 < Len(stack) => Link(stack[k + 1], stack[k + 1 + 1]))
    BY <2>1 DEF PathSound, Linked
  <2>3. Waits(stack[k])'
    BY <2>1, <2>2 DEF Waits
  <2>4. ASSUME k < Len(stack) - 1 PROVE Link(stack[k], stack[k + 1])'
    <3>1. k + 1 < Len(stack) /\ k + 1 \in 1..(Len(stack) - 1)
      BY <1>1, <2>4
    <3>2. stack'[k + 1] = stack[k + 1 + 1]
      BY <1>4, <3>1
    <3> QED BY <2>1, <2>2, <3>1, <3>2 DEF Link, DepFile
  <2> QED BY <2>3, <2>4
<1>6. Apart'
  <2> SUFFICES ASSUME NEW j \in 1..(Len(stack) - 1), NEW k \in 1..(Len(stack) - 1),
                      j < k, stack'[k].proc = "update_file_1",
                      stack'[j].proc \in {"update_file_1", "check_dep"}
               PROVE  stack'[j].file # stack'[k].file
    BY <1>2 DEF Apart, Considering, Depth
  <2>1. j + 1 \in Depth /\ k + 1 \in Depth /\ j + 1 < k + 1
        /\ stack'[j] = stack[j + 1] /\ stack'[k] = stack[k + 1]
    BY <1>4
  <2> QED BY <2>1 DEF PathSound, Apart, Considering
<1>7. Marked'
  <2> SUFFICES ASSUME NEW k \in 1..(Len(stack) - 1), stack'[k].proc = "update_file_1"
               PROVE  /\ stack'[k].file \in visited'
                      /\ stack'[k].at = "deps" => stack'[k].file \in updating'
    BY <1>2 DEF Marked, Considering, Depth
  <2>1. k + 1 \in Depth /\ k + 1 > 1 /\ stack'[k] = stack[k + 1] /\ 1 \in Depth
    BY <1>1, <1>4 DEF Depth
  <2>2. /\ stack[k + 1].file \in visited
        /\ stack[k + 1].at = "deps" => stack[k + 1].file \in updating
    BY <2>1 DEF PathSound, Marked, Considering
  <2>3. Top.proc \in {"update_file_1", "check_dep"} => Top.file # stack[k + 1].file
    BY <1>1, <2>1 DEF PathSound, Apart, Considering
  <2> QED BY <2>1, <2>2, <2>3
<1>8. OnPath'
  <2> SUFFICES ASSUME NEW x \in updating'
               PROVE  \E k \in 1..(Len(stack) - 1) :
                         /\ stack'[k].file = x
                         /\ \/ stack'[k].proc = "update_file_1"
                               /\ stack'[k].at \in {"deps", "intermediates", "decide"}
                            \/ stack'[k].proc = "check_dep" /\ stack'[k].at = "updated"
    BY <1>2 DEF OnPath, Considering, Depth
  <2>1. PICK k \in Depth :
           /\ stack[k].file = x
           /\ \/ stack[k].proc = "update_file_1"
                 /\ stack[k].at \in {"deps", "intermediates", "decide"}
              \/ stack[k].proc = "check_dep" /\ stack[k].at = "updated"
    BY DEF OnPath, PathSound, Considering
  <2>2. k # 1
    BY <1>1, <2>1
  <2>3. k - 1 \in 1..(Len(stack) - 1) /\ stack'[k - 1] = stack[k]
    BY <1>1, <1>2, <2>2 DEF Depth
  <2> QED BY <2>1, <2>3
<1> QED BY <1>5, <1>6, <1>7, <1>8 DEF PathSound

LEMMA PathStays ==
  ASSUME PathSound, UNCHANGED <<stack, pc, goals, deps, visited, updating>>
  PROVE  PathSound'
PROOF
BY DEF PathSound, Linked, Apart, Marked, OnPath, Waits, Runs, Link, DepFile, Considering, Depth

LEMMA PathEnds ==
  ASSUME stack' = << >>
  PROVE  PathSound'
PROOF
<1>1. Depth' = {}
  BY DEF Depth
<1> QED BY <1>1 DEF PathSound, Linked, Apart, Marked, OnPath


-----------------------------------------------------------------------------
(* The frames below the innermost.                                         *)
LEMMA OthersBelow ==
  ASSUME StackOK, stack # << >>, PathSound, Top.proc \in {"update_file_1", "new_job"},
         NEW k \in 2..Len(stack), Considering(k), stack[k].at # "made"
  PROVE  stack[k].file # Top.file
PROOF
<1>1. Top = stack[1] /\ Len(stack) \in Nat \ {0} /\ 1 \in Depth /\ k \in Depth /\ 1 < k
  BY TopOfStack DEF Depth
<1>2. CASE Top.proc = "update_file_1"
  BY <1>1, <1>2 DEF PathSound, Apart
<1>3. CASE Top.proc = "new_job"
  <2>1. Link(stack[1], stack[2]) /\ 2 \in Depth
    BY <1>1 DEF PathSound, Linked, Depth
  <2>2. stack[2].proc = "update_file_1" /\ stack[2].at = "made" /\ stack[2].file = Top.file
    BY <1>1, <1>3, <2>1 DEF Link
  <2>3. k # 2 /\ 2 < k
    BY <1>1, <2>2
  <2> QED BY <1>1, <2>1, <2>2, <2>3 DEF PathSound, Apart
<1> QED BY <1>2, <1>3

LEMMA FrameOfStack ==
  ASSUME StackOK, NEW k \in 1..Len(stack)
  PROVE  /\ stack[k] \in Frames
         /\ Considering(k) => stack[k] \in UpdateFile1Frames /\ stack[k].file \in Files
         /\ k < Len(stack) => stack[k].file \in Files
         /\ k = Len(stack) => stack[k] \in GoalsFrames
PROOF
<1>1. stack[k] \in Frames /\ (stack[k].proc = "update_goal_chain" <=> k = Len(stack))
  BY ElementOfSeq DEF StackOK
<1>2. \A F \in Frames : F.proc = "update_goal_chain" \/ F.file \in Files
  BY DEF Frames, GoalsFrames, UpdateFileFrames, UpdateFile1Frames, CheckDepFrames,
         NewJobFrames
<1>3. Len(stack) \in Nat
  BY LenProperties DEF StackOK
<1>4. Considering(k) => stack[k] \in UpdateFile1Frames
  BY <1>1, FrameTypes DEF Considering
<1>5. k = Len(stack) => stack[k] \in GoalsFrames
  BY <1>1, FrameTypes
<1>6. k < Len(stack) => stack[k].file \in Files
  BY <1>1, <1>2, <1>3
<1>7. Considering(k) => stack[k].file \in Files
  BY <1>4 DEF UpdateFile1Frames
<1> QED BY <1>1, <1>4, <1>5, <1>6, <1>7

-----------------------------------------------------------------------------
(* The frames after a step: those below the innermost, and the new ones.   *)
LEMMA ActiveFrames ==
  ASSUME StackOK, stack # << >>
  PROVE  /\ Active = Rest \cup {Top} /\ Active \subseteq Frames
         /\ \A F \in Active : F.proc # "update_goal_chain" => F.file \in Files
         /\ \A F \in Rest : \E k \in 2..Len(stack) : k \in Depth /\ F = stack[k]
PROOF
<1>1. Top = stack[1] /\ Len(stack) \in Nat \ {0}
  BY TopOfStack
<1>2. 1..Len(stack) = {1} \cup 2..Len(stack)
  BY <1>1
<1>3. Active = Rest \cup {Top}
  BY <1>1, <1>2 DEF Active, Rest, Depth
<1>4. \A k \in Depth : stack[k] \in Frames
         /\ (stack[k].proc # "update_goal_chain" => stack[k].file \in Files)
  BY FrameOfStack, <1>1 DEF StackOK, Depth
<1>5. Active \subseteq Frames /\ \A F \in Active : F.proc # "update_goal_chain" => F.file \in Files
  BY <1>4 DEF Active
<1> QED BY <1>2, <1>3, <1>5 DEF Rest, Depth

LEMMA NextFrames ==
  ASSUME StackOK, stack # << >>
  PROVE  /\ \A F : Goto(F) => Active' = Rest \cup {F}
         /\ \A F, G : Call(F, G) => Active' = Rest \cup {F, G}
         /\ \A s, b : Return(s, b) => Active' = Rest
         /\ UNCHANGED stack => Active' = Rest \cup {Top}
PROOF
<1>1. Len(stack) \in Nat \ {0}
  BY TopOfStack
<1>2. ASSUME NEW F, Goto(F) PROVE Active' = Rest \cup {F}
  <2>1. /\ Len(stack') = Len(stack) /\ stack'[1] = F
        /\ \A k \in 2..Len(stack) : stack'[k] = stack[k]
    BY <1>2, GotoStack
  <2>2. 1..Len(stack) = {1} \cup 2..Len(stack)
    BY <1>1
  <2> QED BY <2>1, <2>2 DEF Active, Rest, Depth
<1>3. ASSUME NEW F, NEW G, Call(F, G) PROVE Active' = Rest \cup {F, G}
  <2>1. /\ Len(stack') = Len(stack) + 1 /\ stack'[1] = G /\ stack'[2] = F
        /\ \A k \in 3..(Len(stack) + 1) : stack'[k] = stack[k - 1]
    BY <1>3, CallStack
  <2>2. 1..(Len(stack) + 1) = {1, 2} \cup 3..(Len(stack) + 1)
    BY <1>1
  <2>3. Active' = {G, F} \cup {stack'[k] : k \in 3..(Len(stack) + 1)}
    BY <2>1, <2>2 DEF Active, Depth
  <2>4. /\ \A k \in 3..(Len(stack) + 1) : k - 1 \in 2..Len(stack)
        /\ \A k \in 2..Len(stack) : k + 1 \in 3..(Len(stack) + 1) /\ (k + 1) - 1 = k
    BY <1>1
  <2>5. {stack'[k] : k \in 3..(Len(stack) + 1)} \subseteq Rest
    BY <2>1, <2>4 DEF Rest
  <2>6. Rest \subseteq {stack'[k] : k \in 3..(Len(stack) + 1)}
    <3> SUFFICES ASSUME NEW k \in 2..Len(stack)
                 PROVE  \E q \in 3..(Len(stack) + 1) : stack'[q] = stack[k]
      BY DEF Rest
    <3> QED BY <2>1, <2>4
  <2> QED BY <2>3, <2>5, <2>6
<1>4. ASSUME NEW s, NEW b, Return(s, b) PROVE Active' = Rest
  <2>1. /\ Len(stack') = Len(stack) - 1
        /\ \A k \in 1..(Len(stack) - 1) : stack'[k] = stack[k + 1]
    BY <1>4, ReturnStack
  <2>2. /\ \A k \in 1..(Len(stack) - 1) : k + 1 \in 2..Len(stack)
        /\ \A k \in 2..Len(stack) : k - 1 \in 1..(Len(stack) - 1) /\ (k - 1) + 1 = k
    BY <1>1
  <2>3. Active' \subseteq Rest
    BY <2>1, <2>2 DEF Active, Rest, Depth
  <2>4. Rest \subseteq Active'
    <3> SUFFICES ASSUME NEW k \in 2..Len(stack)
                 PROVE  \E q \in 1..(Len(stack) - 1) : stack'[q] = stack[k]
      BY <2>1 DEF Active, Rest, Depth
    <3> QED BY <2>1, <2>2
  <2> QED BY <2>3, <2>4
<1>5. UNCHANGED stack => Active' = Rest \cup {Top}
  BY ActiveFrames DEF Active, Depth
<1> QED BY <1>2, <1>3, <1>4, <1>5

(* A step leaves alone what the walks further out go over.                 *)
RestSame == \A F \in Rest : F.proc = "update_file_1" =>
                /\ deps'[F.file] = deps[F.file]
                /\ F.at = "made" \/ Same(F.file)

LEMMA RestOfStack ==
  ASSUME StackOK, stack # << >>, PathSound, NEW F \in Rest
  PROVE  /\ F \in Active /\ F.proc # "new_job"
         /\ F.proc = "update_file_1" =>
               F \in UpdateFile1Frames /\ F.file \in Files /\ F.at \in {"deps", "made"}
PROOF
<1>1. PICK k \in 2..Len(stack) : k \in Depth /\ F = stack[k]
  BY ActiveFrames
<1>2. Waits(stack[k])
  <2>1. k > 1
    OBVIOUS
  <2> QED BY <1>1, <2>1 DEF PathSound, Linked
<1>3. F.proc # "new_job" /\ (F.proc = "update_file_1" => F.at \in {"deps", "made"})
  BY <1>1, <1>2 DEF Waits
<1>4. F.proc = "update_file_1" => F \in UpdateFile1Frames /\ F.file \in Files
  BY <1>1, FrameOfStack DEF Considering, Depth
<1>5. F \in Active
  BY <1>1 DEF Active
<1> QED BY <1>3, <1>4, <1>5

LEMMA RestStays ==
  ASSUME TypeInv, stack # << >>, PathSound, NEW f \in Files, Concerns(f), DepsBelow,
         \/ \A g \in Files : Same(g)
         \/ Top.proc \in {"update_file_1", "new_job"} /\ f = Top.file
         \/ command_state[f] = "running" /\ FramesSound
  PROVE  RestSame
PROOF
<1> SUFFICES ASSUME NEW F \in Rest, F.proc = "update_file_1"
             PROVE  /\ deps'[F.file] = deps[F.file]
                    /\ F.at = "made" \/ Same(F.file)
  BY DEF RestSame
<1>1. StackOK
  BY DEF TypeInv
<1>2. PICK k \in 2..Len(stack) : k \in Depth /\ F = stack[k]
  BY <1>1, ActiveFrames
<1>3. F \in Active /\ F \in UpdateFile1Frames /\ F.file \in Files /\ F.at \in {"deps", "made"}
  BY <1>1, RestOfStack
<1>4. deps'[F.file] = deps[F.file]
  BY <1>2 DEF DepsBelow, Considering
<1>5. ASSUME F.at # "made" PROVE Same(F.file)
  <2>1. CASE \A g \in Files : Same(g)
    BY <1>3, <2>1
  <2>2. CASE Top.proc \in {"update_file_1", "new_job"} /\ f = Top.file
    <3>1. stack[k].file # Top.file
      BY <1>1, <1>2, <1>5, <2>2, OthersBelow DEF Considering
    <3> QED BY <1>2, <1>3, <2>2, <3>1 DEF Concerns
  <2>3. CASE command_state[f] = "running" /\ FramesSound
    <3>1. WalkSound(F)
      BY <1>3, <2>3 DEF FramesSound, FrameSound
    <3>2. F.file # f
      BY <1>3, <1>5, <2>3, <3>1 DEF WalkSound
    <3> QED BY <1>3, <3>2 DEF Concerns
  <2> QED BY <2>1, <2>2, <2>3
<1> QED BY <1>4, <1>5

LEMMA FramesStep ==
  ASSUME TypeInv, stack # << >>, PathSound, FramesSound, NEW f \in Files, Concerns(f),
         RestSame, NEW N, Active' = Rest \cup N, \A F \in N : FrameSound(F)'
  PROVE  FramesSound'
PROOF
<1> SUFFICES ASSUME NEW F \in Rest PROVE FrameSound(F)'
  BY SMTT(30)
     DEF FramesSound, FrameSound, WalkSound, JobSound, Asked, DepFile, Recent, Made, Fatal
<1>1. /\ F \in Active /\ F.proc # "new_job"
      /\ F.proc = "update_file_1" => F \in UpdateFile1Frames
  BY RestOfStack DEF TypeInv
<1>2. ASSUME F.proc = "update_file_1" PROVE WalkSound(F)'
  BY <1>1, <1>2, WalkStays DEF RestSame, FramesSound, FrameSound
<1> QED BY <1>1, <1>2 DEF FrameSound

-----------------------------------------------------------------------------
(* Passes: what has been seen to stays so, and a walk goes on from there.  *)
BegunOn == \A d \in Files : Begun(d) \/ OnStack(d) => (Begun(d) \/ OnStack(d))'

LEMMA SeenStep ==
  ASSUME TypeInv, stack # << >>, NEW f \in Files, Concerns(f), NEW N, Active' = Rest \cup N,
         Begun(f) => Seen(f)',
         Top.proc = "update_file_1" =>
            \/ command_state'[Top.file] # "not_started"
            \/ \E F \in N : /\ Of(F, Top.file)
                            /\ Top.at \in {"make", "made"} => F.at \in {"make", "made"}
  PROVE  SeenOn /\ BegunOn
PROOF
<1>1. Active = Rest \cup {Top}
  BY ActiveFrames DEF TypeInv
<1>2. ASSUME NEW d \in Files, Begun(d) PROVE Seen(d)'
  <2>1. CASE d = f
    BY <1>2, <2>1
  <2>2. CASE d # f
    <3>1. command_state'[d] = command_state[d]
      BY <2>2 DEF Concerns, Same
    <3> QED BY <1>2, <3>1 DEF Begun, Seen
  <2> QED BY <2>1, <2>2
<1>3. ASSUME NEW d \in Files, Making(d) PROVE Seen(d)'
  <2>1. PICK F \in Rest \cup {Top} : Of(F, d) /\ F.at \in {"make", "made"}
    BY <1>1, <1>3 DEF Making
  <2>2. CASE F \in Rest
    BY <2>1, <2>2 DEF Making, Seen, Of
  <2>3. CASE F = Top
    <3>1. Top.proc = "update_file_1" /\ Top.file = d /\ Top.at \in {"make", "made"}
      BY <2>1, <2>3 DEF Of
    <3>2. CASE command_state'[Top.file] # "not_started"
      BY <3>1, <3>2 DEF Seen, Begun
    <3>3. CASE \E G \in N : Of(G, Top.file) /\ G.at \in {"make", "made"}
      BY <3>1, <3>3 DEF Seen, Making, Of
    <3> QED BY <3>1, <3>2, <3>3
  <2> QED BY <2>1, <2>2, <2>3
<1>4. \A d \in Files : OnStack(d) => (Begun(d) \/ OnStack(d))'
  BY <1>1 DEF OnStack, Of, Begun
<1>5. \A d \in Files : Seen(d)' => (Begun(d) \/ OnStack(d))'
  BY DEF Seen, Begun, OnStack, Making
<1>6. SeenOn
  BY <1>2, <1>3 DEF SeenOn, Seen
<1>7. BegunOn
  BY <1>2, <1>4, <1>5 DEF BegunOn
<1> QED BY <1>6, <1>7

LEMMA WalkSeenStays ==
  ASSUME TypeInv, NEW f \in Files, Concerns(f), SeenOn, NEW F \in UpdateFile1Frames,
         WalkSeen(F), F.at \in {"entry", "make", "made"} \/ Same(F.file)
  PROVE  WalkSeen(F)'
PROOF
<1>1. F.file \in Files /\ F.i \in Nat \ {0}
  BY DEF UpdateFile1Frames
<1>2. \A j \in 1..Len(deps[F.file]) : DepFile(F.file, j) \in Files
  BY <1>1, DepFiles
<1> SUFFICES ASSUME Same(F.file) PROVE WalkSeen(F)'
  BY DEF WalkSeen
<1>3. deps'[F.file] = deps[F.file] /\ command_state'[F.file] = command_state[F.file]
  BY DEF Same
<1>4. Asked(F)' = Asked(F) /\ Asked(F) \subseteq 1..Len(deps[F.file])
  BY <1>3 DEF Asked
<1>5. \A j \in Asked(F) : Seen(DepFile(F.file, j)) => Seen(DepFile(F.file, j))'
  <2> TAKE j \in Asked(F)
  <2>1. DepFile(F.file, j) \in Files /\ DepFile(F.file, j)' = DepFile(F.file, j)
    BY <1>2, <1>3, <1>4 DEF DepFile
  <2> QED BY <2>1 DEF SeenOn, Seen, Begun, Making, Active, Depth, Of
<1>6. F.at = "deps" => \A j \in Asked(F)' : Seen(DepFile(F.file, j))'
  BY <1>4, <1>5 DEF WalkSeen
<1>7. \A i \in Nat \ {0} : WalkedFrom(F.file, i) => WalkedFrom(F.file, i)'
  BY <1>1, <1>3, WalkedFromStays
<1>8. WalkedFrom(F.file, F.i) => WalkedFrom(F.file, F.i)'
  BY <1>1, <1>7
<1>9. WalkedFrom(F.file, 1) => WalkedFrom(F.file, 1)'
  <2>1. 1 \in Nat \ {0}
    OBVIOUS
  <2> QED BY <1>7, <2>1
<1> QED BY <1>3, <1>6, <1>8, <1>9 DEF WalkSeen

LEMMA FilesWalkedStay ==
  ASSUME TypeInv, stack # << >>, Walked, NEW f \in Files, Concerns(f), SeenOn,
         NEW N, Active' = Rest \cup N, Top.proc = "update_file_1" => f = Top.file,
         FileWalked(f)'
  PROVE  \A g \in Files : FileWalked(g)'
PROOF
<1> SUFFICES ASSUME NEW g \in Files, g # f, command_state'[g] = "deps_running", ~Walking(g)'
             PROVE  WalkedFrom(g, 1)'
  BY DEF FileWalked
<1>1. Same(g)
  BY DEF Concerns
<1>2. command_state[g] = "deps_running" /\ deps'[g] = deps[g]
  BY <1>1 DEF Same
<1>3. Active = Rest \cup {Top}
  BY ActiveFrames DEF TypeInv
<1>4. ~Walking(g)
  BY <1>3 DEF Walking, Of
<1>5. WalkedFrom(g, 1)
  BY <1>2, <1>4 DEF Walked, FileWalked
<1>6. 1 \in Nat \ {0}
  OBVIOUS
<1> QED BY <1>2, <1>5, <1>6, WalkedFromStays

LEMMA PassStep ==
  ASSUME TypeInv, stack # << >>, PathSound, PassSound, NEW f \in Files, Concerns(f), RestSame,
         SeenOn, BegunOn, NEW N, Active' = Rest \cup N, UNCHANGED goals,
         Top.proc = "update_file_1" => f = Top.file,
         FileWalked(f)',
         \A x \in visited' : x \in visited \/ OnStack(x)',
         \A F \in N : F.proc = "update_file_1" => WalkSeen(F)',
         \A F \in N : F.proc # "update_goal_chain" =>
            F.file \in Files /\ (LaterPass => Seen(F.file)),
         \A F \in N : GoalsSeen(F)
  PROVE  PassSound'
PROOF
<1>1. /\ Active = Rest \cup {Top} /\ Active \subseteq Frames
      /\ \A F \in Active : F.proc # "update_goal_chain" => F.file \in Files
  BY ActiveFrames DEF TypeInv
<1>2. /\ FirstPass \/ LaterPass
      /\ Walked
      /\ \A F \in Active : GoalsSeen(F)
  BY DEF PassSound
<1>3. \A j \in 1..Len(goals) : goals[j] \in Files
  BY ElementOfSeq DEF TypeInv, TypeOK
<1>4. \A d : d \in Files /\ Seen(d) => Seen(d)'
  BY DEF SeenOn
<1>5. FirstPass => FirstPass'
  <2> SUFFICES ASSUME FirstPass, NEW x \in visited' PROVE (Begun(x) \/ OnStack(x))'
    BY DEF FirstPass, Begun, OnStack
  <2>1. CASE x \in visited
    <3>1. x \in Files /\ (Begun(x) \/ OnStack(x))
      BY <2>1 DEF FirstPass, TypeInv, TypeOK
    <3> QED BY <3>1 DEF BegunOn
  <2>2. CASE OnStack(x)'
    BY <2>2
  <2> QED BY <2>1, <2>2
<1>6. LaterPass => LaterPass'
  <2> SUFFICES ASSUME LaterPass PROVE LaterPass'
    OBVIOUS
  <2>1. \A j \in 1..Len(goals) : Seen(goals[j])'
    <3> TAKE j \in 1..Len(goals)
    <3>1. Seen(goals[j]) /\ goals[j] \in Files
      BY <1>3 DEF LaterPass
    <3>2. goals'[j] = goals[j]
      OBVIOUS
    <3> QED BY <1>4, <3>1, <3>2 DEF Seen, Begun, Making, Active, Depth, Of
  <2>2. \A F \in Rest \cup N : F.proc # "update_goal_chain" => Seen(F.file)'
    <3> TAKE F \in Rest \cup N
    <3> HAVE F.proc # "update_goal_chain"
    <3>1. Seen(F.file) /\ F.file \in Files
      BY <1>1 DEF LaterPass
    <3> QED BY <1>4, <3>1
  <2> QED BY <2>1, <2>2 DEF LaterPass, Seen, Begun, Making
<1>7. \A F \in Rest \cup N : F.proc = "update_file_1" => WalkSeen(F)'
  <2> SUFFICES ASSUME NEW F \in Rest, F.proc = "update_file_1" PROVE WalkSeen(F)'
    OBVIOUS
  <2>1. F \in UpdateFile1Frames /\ F \in Active
    BY RestOfStack DEF TypeInv
  <2>2. WalkSeen(F) /\ (F.at = "made" \/ Same(F.file))
    BY <1>2, <2>1 DEF Walked, RestSame
  <2> QED BY <2>1, <2>2, WalkSeenStays
<1>8. \A g \in Files : FileWalked(g)'
  BY <1>2, FilesWalkedStay
<1>9. Walked'
  BY <1>7, <1>8, SMTT(30)
     DEF Walked, WalkSeen, FileWalked, Walking, WalkedFrom, Asked, Seen, Begun, Making, DepFile
<1>10. \A F \in Rest \cup N : GoalsSeen(F)'
  <2> TAKE F \in Rest \cup N
  <2> SUFFICES ASSUME F.proc = "update_goal_chain", NEW j \in 1..Len(goals), j < F.g
               PROVE  Seen(goals[j])'
    BY DEF GoalsSeen
  <2>1. Seen(goals[j]) /\ goals[j] \in Files
    BY <1>1, <1>2, <1>3 DEF GoalsSeen
  <2>2. goals'[j] = goals[j]
    OBVIOUS
  <2> QED BY <1>4, <2>1, <2>2 DEF Seen, Begun, Making, Active, Depth, Of
<1> QED BY <1>2, <1>5, <1>6, <1>9, <1>10 DEF PassSound, GoalsSeen

-----------------------------------------------------------------------------
(* A step that changes nothing about the files.                            *)
Quiet == UNCHANGED <<makefile, file, jobs, recipe>>

LEMMA QuietFiles ==
  ASSUME Quiet
  PROVE  /\ \A g \in Files : Same(g) /\ Concerns(g)
         /\ DepsBelow
         /\ FilesSound => FilesSound'
         /\ \A F : FrameSound(F) => FrameSound(F)'
         /\ \A f : Begun(f)' = Begun(f)
PROOF
<1>1. /\ makefile' = makefile /\ deps' = deps /\ command_state' = command_state
      /\ update_status' = update_status /\ updated' = updated
      /\ last_mtime' = last_mtime /\ jobs' = jobs /\ recipe' = recipe
  BY DEF Quiet, file
<1>2. \A g \in Files : Same(g) /\ Concerns(g)
  BY <1>1 DEF Same, Concerns
<1>3. DepsBelow
  BY <1>1 DEF DepsBelow
<1>4. FilesSound => FilesSound'
  BY <1>1 DEF FilesSound, FileSound, DepsMade, Recent, Made, DepFile
<1>5. \A F : FrameSound(F) => FrameSound(F)'
  BY <1>1 DEF FrameSound, WalkSound, JobSound, Asked, Fatal, Recent, Made, DepFile
<1>6. \A f : Begun(f)' = Begun(f)
  BY <1>1 DEF Begun
<1> QED BY <1>2, <1>3, <1>4, <1>5, <1>6

LEMMA QuietStep ==
  ASSUME PlainInv, TypeInv', PathSound', AnswerSound', stack # << >>, Quiet,
         UNCHANGED <<goals, status>>,
         NEW f \in Files, Top.proc = "update_file_1" => f = Top.file,
         NEW N, Active' = Rest \cup N, N \subseteq Frames, \A F \in N : FrameSound(F),
         Top.proc = "update_file_1" =>
            \/ Begun(f)
            \/ \E F \in N : /\ Of(F, f)
                            /\ Top.at \in {"make", "made"} => F.at \in {"make", "made"},
         \A x \in visited' : x \in visited \/ OnStack(x)',
         \A F \in N : F.proc = "update_file_1" => WalkSeen(F),
         \A F \in N : F.proc # "update_goal_chain" =>
            F.file \in Files /\ (LaterPass => Seen(F.file)),
         \A F \in N : GoalsSeen(F),
         /\ Top.proc = "update_file_1" /\ Top.at = "deps"
         /\ command_state[f] = "deps_running"
         /\ ~\E F \in N : Of(F, f) /\ F.at = "deps"
         => WalkedFrom(f, 1),
         stack' = << >> /\ pc' = "done" => goals = << >>
  PROVE  PlainInv'
PROOF
<1>1. /\ TypeInv /\ Plain(makefile) /\ PathSound /\ FilesSound /\ FramesSound /\ AnswerSound
      /\ PassSound /\ GoalsSound /\ StackOK
  BY DEF PlainInv, PathSound, TypeInv
<1>2. /\ Concerns(f) /\ \A g \in Files : Same(g)
      /\ DepsBelow /\ FilesSound' /\ \A F \in N : FrameSound(F)'
  BY <1>1, QuietFiles
<1>3. UNCHANGED <<makefile, deps, command_state>>
  BY DEF Quiet, file
<1>4. RestSame
  BY <1>1, <1>2, RestStays
<1>5. FramesSound'
  BY <1>1, <1>2, <1>4, FramesStep
<1>6. SeenOn /\ BegunOn
  <2>1. Begun(f) => Seen(f)'
    BY <1>3 DEF Begun, Seen
  <2>2. Top.proc = "update_file_1" =>
            \/ command_state'[Top.file] # "not_started"
            \/ \E F \in N : /\ Of(F, Top.file)
                            /\ Top.at \in {"make", "made"} => F.at \in {"make", "made"}
    BY <1>3 DEF Begun
  <2> QED BY <1>1, <1>2, <2>1, <2>2, SeenStep
<1>7. 1 \in Nat \ {0}
  OBVIOUS
<1>8. PassSound'
  <2>1. ASSUME command_state[f] = "deps_running", ~Walking(f)' PROVE WalkedFrom(f, 1)'
    <3>1. Active = Rest \cup {Top}
      BY <1>1, ActiveFrames
    <3>2. ~\E F \in Rest \cup N : Of(F, f) /\ F.at = "deps"
      BY <2>1 DEF Walking, Of
    <3>3. WalkedFrom(f, 1)
      <4>1. CASE Walking(f)
        BY <2>1, <3>1, <3>2, <4>1 DEF Walking, Of
      <4>2. CASE ~Walking(f)
        BY <1>1, <2>1, <4>2 DEF PassSound, Walked, FileWalked
      <4> QED BY <4>1, <4>2
    <3> QED BY <1>1, <1>2, <1>3, <1>6, <1>7, <3>3, WalkedFromStays
  <2>2. FileWalked(f)'
    BY <1>3, <2>1 DEF FileWalked
  <2>3. ASSUME NEW F \in N, F.proc = "update_file_1" PROVE WalkSeen(F)'
    <3>1. F \in UpdateFile1Frames /\ F.file \in Files
      BY <2>3, FrameTypes
    <3> QED BY <1>1, <1>2, <1>6, <2>3, <3>1, WalkSeenStays
  <2> QED BY <1>1, <1>2, <1>4, <1>6, <2>2, <2>3, PassStep
<1>9. GoalsSound'
  BY <1>1, <1>2, GoalsStay
<1> QED BY <1>1, <1>2, <1>3, <1>5, <1>8, <1>9 DEF PlainInv, PathSound, Plain

(* Nothing is left behind for the caller unless a procedure returns.       *)
LEMMA NoAnswer ==
  ASSUME pc' # "return"
  PROVE  AnswerSound'
PROOF
BY DEF AnswerSound

-----------------------------------------------------------------------------
(* What is known of the innermost procedure, and of those that wait.       *)
LEMMA TopFacts ==
  ASSUME PlainInv, stack # << >>
  PROVE  /\ TypeInv /\ StackOK /\ TypeOK /\ FilesOK /\ RestOK /\ AnswerOK /\ PathSound
         /\ makefile \in Makefiles /\ Plain(makefile)
         /\ Top = stack[1] /\ Top \in Frames /\ Top \in Active
         /\ Len(stack) \in Nat \ {0} /\ 1 \in Depth
         /\ Top.proc = "update_goal_chain" <=> Len(stack) = 1
         /\ pc = "call" => Runs(Top)
         /\ pc = "return" => Waits(Top) /\ Calls(Top)
         /\ Placed(Top) /\ FrameSound(Top) /\ GoalsSeen(Top)
         /\ Top.proc = "update_file_1" => WalkSeen(Top) /\ Top.file \in visited
PROOF
<1>1. /\ TypeInv /\ StackOK /\ TypeOK /\ FilesOK /\ RestOK /\ AnswerOK /\ PathSound
      /\ makefile \in Makefiles /\ Plain(makefile)
  BY TypeParts DEF PlainInv, PathSound, TypeInv, TypeOK
<1>2. /\ Top = stack[1] /\ Top \in Frames /\ Len(stack) \in Nat \ {0} /\ Placed(Top)
      /\ pc = "return" => Calls(Top)
      /\ Top.proc = "update_goal_chain" <=> Len(stack) = 1
  BY <1>1, TopOfStack
<1>3. 1 \in Depth
  BY <1>2 DEF Depth
<1>4. Top \in Active
  BY <1>2, <1>3 DEF Active
<1>5. (pc = "call" => Runs(Top)) /\ (pc = "return" => Waits(Top))
  BY <1>2, <1>3 DEF PlainInv, Linked
<1>6. FrameSound(Top) /\ GoalsSeen(Top) /\ (Top.proc = "update_file_1" => WalkSeen(Top))
  BY <1>4 DEF PlainInv, FramesSound, PassSound, Walked
<1>7. Top.proc = "update_file_1" => Top.file \in visited
  BY <1>2, <1>3 DEF PlainInv, Marked, Considering
<1> QED BY <1>1, <1>2, <1>3, <1>4, <1>5, <1>6, <1>7

(* The procedure that called the innermost one.                            *)
LEMMA Caller ==
  ASSUME PlainInv, stack # << >>, Top.proc # "update_goal_chain"
  PROVE  /\ Link(Top, stack[2]) /\ Waits(stack[2]) /\ 2 \in Depth /\ stack[2] \in Rest
         /\ stack[2] \in Frames
         /\ \A s, b : Return(s, b) => stack'[1] = stack[2] /\ stack' # << >>
                                      /\ Head(stack') = stack[2]
PROOF
<1>1. /\ StackOK /\ Linked /\ Top = stack[1] /\ Len(stack) \in Nat \ {0} /\ Len(stack) # 1
  <2>1. StackOK /\ PathSound
    BY TopFacts
  <2> QED BY <2>1, TopOfStack DEF PathSound
<1>2. 2 \in Depth /\ 2 \in 2..Len(stack) /\ 1 \in Depth /\ 1 < Len(stack) /\ 2 > 1
  <2> DEFINE n == Len(stack)
  <2>1. n \in Nat \ {0} /\ n # 1
    BY <1>1
  <2> HIDE DEF n
  <2>2. 2 \in 1..n /\ 2 \in 2..n /\ 1 \in 1..n /\ 1 < n /\ 2 > 1
    BY <2>1
  <2> QED BY <2>2 DEF Depth, n
<1>3. Link(Top, stack[2]) /\ Waits(stack[2])
  BY <1>1, <1>2 DEF Linked
<1>4. stack[2] \in Rest /\ stack[2] \in Frames
  BY <1>1, <1>2, ElementOfSeq DEF Rest, StackOK
<1>5. ASSUME NEW s, NEW b, Return(s, b)
      PROVE  stack'[1] = stack[2] /\ stack' # << >> /\ Head(stack') = stack[2]
  <2>1. /\ Len(stack') = Len(stack) - 1 /\ stack' \in Seq(Frames)
        /\ \A k \in 1..(Len(stack) - 1) : stack'[k] = stack[k + 1]
    BY <1>1, <1>5, ReturnStack
  <2>2. 1 \in 1..(Len(stack) - 1) /\ 1 + 1 = 2 /\ Len(stack') # 0
    BY <1>1, <2>1
  <2>3. stack'[1] = stack[2] /\ stack' # << >>
    BY <2>1, <2>2, EmptySeq
  <2> QED BY <2>1, <2>3, HeadTailProperties
<1> QED BY <1>2, <1>3, <1>4, <1>5

LEMMA NotBelow ==
  ASSUME PlainInv, stack # << >>, Top.proc = "update_file"
  PROVE  /\ \A k \in Depth : Considering(k) => stack[k].file # Top.file
         /\ ~OnStack(Top.file)
PROOF
<1>1. /\ Apart /\ Top = stack[1] /\ Len(stack) \in Nat \ {0} /\ StackOK
  BY TopFacts DEF PathSound
<1>2. Link(Top, stack[2]) /\ 2 \in Depth
  BY Caller
<1>3. ASSUME NEW k \in Depth, Considering(k) PROVE stack[k].file # Top.file
  <2>1. CASE stack[2].proc = "update_goal_chain"
    <3>1. Len(stack) = 2
      BY <1>1, <1>2, <2>1 DEF StackOK, Depth
    <3>2. k = 1 \/ k = 2
      BY <3>1 DEF Depth
    <3> QED BY <1>1, <1>3, <2>1, <3>2 DEF Considering
  <2>2. CASE stack[2].proc = "check_dep" /\ stack[2].file = Top.file
    <3>1. k # 1 /\ k # 2
      BY <1>1, <1>3, <2>2 DEF Considering
    <3>2. 2 < k
      BY <1>1, <3>1 DEF Depth
    <3> QED BY <1>1, <1>2, <1>3, <2>2, <3>2 DEF Apart
  <2> QED BY <1>2, <2>1, <2>2 DEF Link
<1>4. ~OnStack(Top.file)
  BY <1>3 DEF OnStack, Active, Of, Considering
<1> QED BY <1>3, <1>4

(* As long as no recipe is being started, the targets further out are on   *)
(* the path.                                                               *)
LEMMA RestWalking ==
  ASSUME PlainInv, stack # << >>, Top.proc # "new_job",
         NEW k \in 2..Len(stack), Considering(k)
  PROVE  stack[k].at = "deps" /\ stack[k].file \in updating
PROOF
<1>1. /\ Linked /\ Marked /\ Top = stack[1] /\ Len(stack) \in Nat \ {0}
  BY TopFacts DEF PathSound
<1>2. k \in Depth /\ k - 1 \in Depth /\ k > 1 /\ k - 1 < Len(stack) /\ (k - 1) + 1 = k
  BY <1>1 DEF Depth
<1>3. Waits(stack[k]) /\ Link(stack[k - 1], stack[k])
  BY <1>1, <1>2 DEF Linked
<1>4. stack[k - 1].proc # "new_job"
  <2>1. CASE k - 1 = 1
    BY <1>1, <2>1
  <2>2. CASE k - 1 # 1
    <3>1. k - 1 > 1
      BY <1>1, <2>2
    <3>2. Waits(stack[k - 1])
      BY <1>1, <1>2, <3>1 DEF Linked
    <3> QED BY <3>2 DEF Waits
  <2> QED BY <2>1, <2>2
<1>5. StackOK /\ stack[k - 1] \in Frames /\ stack[k - 1].proc # "update_goal_chain"
  <2>1. StackOK /\ k - 1 \in 1..Len(stack) /\ k - 1 # Len(stack)
    BY <1>1, <1>2, TopFacts DEF Depth
  <2> QED BY <2>1, ElementOfSeq DEF StackOK
<1>6. stack[k - 1].proc \in {"update_file", "update_file_1", "check_dep"}
  BY <1>4, <1>5 DEF Frames, GoalsFrames, UpdateFileFrames, UpdateFile1Frames, CheckDepFrames,
                    NewJobFrames
<1>7. stack[k - 1].proc = "check_dep" /\ stack[k].at = "deps"
  BY <1>3, <1>6 DEF Link, Considering
<1> QED BY <1>1, <1>2, <1>7 DEF Marked

(* What a procedure answers its caller.                                    *)
LEMMA FileAnswered ==
  ASSUME PlainInv, stack # << >>, Top.proc \in {"update_file", "update_file_1"},
         NEW f, f = Top.file, NEW s, NEW b, Return(s, b), UNCHANGED goals,
         \/ f \in updated' /\ s = update_status'[f]
         \/ command_state'[f] \in Busy /\ s = 0
  PROVE  AnswerSound'
PROOF
<1>1. Link(Top, stack[2]) /\ Head(stack') = stack[2]
  BY Caller
<1>2. pc' = "return" /\ ret'.status = s
  BY DEF Return
<1>3. /\ stack[2].proc \in {"update_goal_chain", "update_file", "check_dep"}
      /\ stack[2].proc = "update_goal_chain" => goals[stack[2].g] = f
      /\ stack[2].proc \in {"update_file", "check_dep"} => stack[2].file = f
  BY <1>1 DEF Link
<1>4. \/ f \in updated' /\ ret'.status = update_status'[f]
      \/ command_state'[f] \in Busy /\ ret'.status = 0
  BY <1>2
<1> HIDE DEF Busy
<1> QED BY <1>1, <1>3, <1>4 DEF AnswerSound, Answers, Top

-----------------------------------------------------------------------------
(* update_goal_chain and update_file of a plain makefile.                  *)
LEMMA PlainConsiderGoal ==
  ASSUME PlainInv, TypeInv', ConsiderGoal
  PROVE  PlainInv'
PROOF
<1>1. /\ stack # << >> /\ pc = "call" /\ Top.proc = "update_goal_chain"
      /\ Top.g \in 1..Len(goals)
      /\ Call(Top, UpdateFile(Entries(goals[Top.g])[Top.n]))
      /\ UNCHANGED <<makefile, file, walk, jobs, recipe, goals, status>>
  BY DEF ConsiderGoal, In
<1>2. /\ TypeInv /\ StackOK /\ TypeOK /\ FilesOK /\ RestOK /\ PathSound
      /\ makefile \in Makefiles /\ Plain(makefile) /\ Top \in Frames /\ Placed(Top)
      /\ FrameSound(Top) /\ GoalsSeen(Top)
  BY <1>1, TopFacts
<1>3. PICK f : f = goals[Top.g]
  OBVIOUS
<1>4. f \in Files
  BY <1>1, <1>2, <1>3, ElementOfSeq DEF TypeOK
<1>5. Entries(f) = <<f>> /\ Len(Entries(f)) = 1 /\ Entries(f)[1] = f
  BY <1>2, <1>4, PlainEntries
<1>6. Top.n = 1
  <2>1. Top.n \in Nat \ {0}
    BY <1>1, <1>2, FrameTypes DEF GoalsFrames
  <2> QED BY <1>1, <1>2, <1>3, <1>5, <2>1 DEF Placed
<1>7. PICK G : G = UpdateFile(f)
  OBVIOUS
<1>8. /\ G \in Frames /\ G.proc = "update_file" /\ G.file = f
      /\ G.n = 0 /\ G.d = 0 /\ G.status = 0
  BY <1>2, <1>4, <1>7, NewFrames DEF UpdateFile
<1>9. Call(Top, G)
  BY <1>1, <1>3, <1>5, <1>6, <1>7
<1>10. Quiet /\ UNCHANGED <<goals, status>> /\ visited' = visited /\ updating' = updating
       /\ deps' = deps
  BY <1>1 DEF Quiet, walk, file
<1>11. PathSound'
  <2>1. Replaces(Top, Top) /\ Waits(Top) /\ Link(G, Top) /\ Runs(G)
    BY <1>1, <1>3, <1>8 DEF Replaces, Waits, Link, Runs
  <2> QED BY <1>1, <1>2, <1>8, <1>9, <1>10, <2>1, PathCall
<1>12. pc' = "call" /\ stack' # << >>
  BY <1>1, <1>2, <1>9, CallStack DEF Call
<1>13. AnswerSound'
  BY <1>12, NoAnswer
<1>14. PICK N : N = {Top, G}
  OBVIOUS
<1>15. Active' = Rest \cup N /\ N \subseteq Frames
  BY <1>1, <1>2, <1>8, <1>9, <1>14, NextFrames
<1>16. \A F \in N : FrameSound(F) /\ GoalsSeen(F) /\ F.proc # "update_file_1"
  BY <1>1, <1>2, <1>8, <1>14 DEF FrameSound, GoalsSeen
<1>17. \A F \in N : F.proc # "update_goal_chain" =>
            F.file \in Files /\ (LaterPass => Seen(F.file))
  BY <1>1, <1>3, <1>4, <1>8, <1>14 DEF LaterPass
<1> QED BY <1>1, <1>4, <1>10, <1>11, <1>12, <1>13, <1>15, <1>16, <1>17, QuietStep

LEMMA PlainPrune ==
  ASSUME PlainInv, TypeInv', Prune
  PROVE  PlainInv'
PROOF
<1>1. /\ stack # << >> /\ pc = "call" /\ Top.proc = "update_file"
      /\ FirstEntry(Top.file) \in visited
      /\ Return(IF command_state[FirstEntry(Top.file)] = "finished"
                THEN update_status[FirstEntry(Top.file)] ELSE 0, FALSE)
      /\ UNCHANGED <<makefile, file, walk, jobs, recipe, goals, status>>
  BY DEF Prune, In
<1>2. /\ TypeInv /\ StackOK /\ TypeOK /\ PathSound
      /\ makefile \in Makefiles /\ Plain(makefile) /\ Top \in Frames /\ Top \in Active
  BY <1>1, TopFacts
<1>3. PICK f \in Files : f = Top.file
  BY <1>1, <1>2, FrameTypes DEF UpdateFileFrames
<1>4. FirstEntry(f) = f
  BY <1>2, PlainEntries
<1>5. PICK s : s = IF command_state[f] = "finished" THEN update_status[f] ELSE 0
  OBVIOUS
<1>6. f \in visited /\ Return(s, FALSE)
  BY <1>1, <1>3, <1>4, <1>5
<1>7. Quiet /\ UNCHANGED <<goals, status, deps, visited, updating, update_status,
                           updated, command_state>>
  BY <1>1 DEF Quiet, walk, file
<1>8. PathSound'
  BY <1>1, <1>2, <1>6, <1>7, PathReturn
<1>9. pc' = "return"
  BY <1>6 DEF Return
<1>10. Begun(f)
  <2>1. ~OnStack(f) /\ ~Making(f)
    BY <1>1, <1>3, NotBelow DEF Making, OnStack
  <2>2. FirstPass => Begun(f)
    BY <1>6, <2>1 DEF FirstPass
  <2>3. LaterPass => Begun(f)
    BY <1>1, <1>2, <1>3, <2>1 DEF LaterPass, Seen
  <2> QED BY <1>1, <2>2, <2>3 DEF PlainInv, PassSound
<1>11. \/ f \in updated /\ s = update_status[f]
       \/ command_state[f] \in Busy /\ s = 0
  <2>1. command_state[f] \in {"finished", "running", "deps_running"}
    BY <1>2, <1>10 DEF Begun, TypeOK, Busy
  <2>2. command_state[f] = "finished" => f \in updated
    BY DEF PlainInv, FilesSound, FileSound
  <2> QED BY <1>5, <2>1, <2>2 DEF Busy
<1>12. AnswerSound'
  BY <1>1, <1>3, <1>6, <1>7, <1>11, FileAnswered
<1>13. Active' = Rest \cup {} /\ {} \subseteq Frames
  BY <1>1, <1>2, <1>6, NextFrames
<1> QED BY <1>1, <1>7, <1>8, <1>9, <1>12, <1>13, QuietStep

LEMMA PlainConsiderFirstEntry ==
  ASSUME PlainInv, TypeInv', ConsiderFirstEntry
  PROVE  PlainInv'
PROOF
<1>1. /\ stack # << >> /\ pc = "call" /\ Top.proc = "update_file"
      /\ FirstEntry(Top.file) \notin visited
      /\ visited' = visited \cup {FirstEntry(Top.file)}
      /\ Call([Top EXCEPT !.n = 1], UpdateFile1(FirstEntry(Top.file)))
      /\ UNCHANGED <<makefile, file, updating, jobs, recipe, goals, status>>
  BY DEF ConsiderFirstEntry, In, Consider
<1>2. /\ TypeInv /\ StackOK /\ TypeOK /\ FilesOK /\ RestOK /\ PathSound
      /\ makefile \in Makefiles /\ Plain(makefile) /\ Top \in Frames /\ Top \in Active
      /\ Top \in UpdateFileFrames /\ Runs(Top)
  BY <1>1, TopFacts, FrameTypes
<1>3. PICK f \in Files : f = Top.file
  BY <1>2 DEF UpdateFileFrames
<1>4. FirstEntry(f) = f
  BY <1>2, PlainEntries
<1>5. PICK F : F = [Top EXCEPT !.n = 1]
  OBVIOUS
<1>6. /\ F \in Frames /\ F.proc = "update_file" /\ F.file = f
      /\ F.n = 1 /\ F.d = 0 /\ F.status = 0
  <2>1. F \in UpdateFileFrames
    BY <1>2, <1>5, UpdateFileFields
  <2>2. F \in Frames
    BY <2>1 DEF Frames
  <2> QED BY <1>1, <1>2, <1>3, <1>5, <2>2 DEF Runs, UpdateFileFrames
<1>7. PICK G : G = UpdateFile1(f)
  OBVIOUS
<1>8. /\ G \in Frames /\ G.proc = "update_file_1" /\ G.file = f /\ G.at = "entry"
      /\ G.i = 1 /\ G.mtime = last_mtime[f] /\ G.must_make = (last_mtime[f] = 0)
      /\ G.status = 0 /\ G.running = FALSE
  BY <1>2, <1>3, <1>7, NewFrames DEF UpdateFile1
<1>9. Call(F, G) /\ visited' = visited \cup {f}
  BY <1>1, <1>3, <1>4, <1>5, <1>7
<1>10. Quiet /\ UNCHANGED <<goals, status>> /\ updating' = updating /\ deps' = deps
  BY <1>1 DEF Quiet, file
<1>11. PathSound'
  <2>1. Replaces(F, Top) /\ Waits(F) /\ Link(G, F) /\ Runs(G)
    BY <1>1, <1>3, <1>6, <1>8 DEF Replaces, Waits, Link, Runs
  <2>2. \A k \in Depth : Considering(k) => stack[k].file # G.file
    BY <1>1, <1>3, <1>8, NotBelow
  <2>3. F.proc # "update_goal_chain" /\ F.proc # "update_file_1" /\ F.proc # "check_dep"
    BY <1>6
  <2>4. G.file \in visited' /\ G.at # "deps" /\ visited \subseteq visited'
    BY <1>8, <1>9
  <2> QED BY <1>1, <1>2, <1>6, <1>8, <1>9, <1>10, <2>1, <2>2, <2>3, <2>4, PathCall
<1>12. pc' = "call" /\ stack' # << >>
  BY <1>1, <1>2, <1>9, CallStack DEF Call
<1>13. AnswerSound'
  BY <1>12, NoAnswer
<1>14. PICK N : N = {F, G}
  OBVIOUS
<1>15. Active' = Rest \cup N /\ N \subseteq Frames
  BY <1>1, <1>2, <1>6, <1>8, <1>9, <1>14, NextFrames
<1>16. WalkSound(G) /\ WalkSeen(G)
  <2>1. last_mtime[f] \in Nat
    BY <1>2 DEF TypeOK
  <2>2. last_mtime[f] = 0 \/ last_mtime[f] > 0
    BY <2>1
  <2>4. ~G.must_make => G.mtime > 0
    BY <1>8, <2>2, Zenon
  <2>5. ~Fatal(G.status)
    BY <1>8 DEF Fatal
  <2>3. Asked(G) = {}
    <3>1. \A j \in 1..Len(deps[G.file]) : ~(j < 1)
      <4>1. Len(deps[G.file]) \in Nat
        BY <1>2, <1>8, LenProperties DEF TypeOK
      <4> QED BY <4>1
    <3> QED BY <1>8, <3>1 DEF Asked
  <2> QED BY <1>8, <2>3, <2>4, <2>5 DEF WalkSound, WalkSeen
<1>17. \A H \in N : FrameSound(H) /\ GoalsSeen(H) /\ (H.proc = "update_file_1" => WalkSeen(H))
  BY <1>6, <1>8, <1>14, <1>16 DEF FrameSound, GoalsSeen
<1>18. \A H \in N : H.file \in Files /\ (LaterPass => Seen(H.file))
  BY <1>1, <1>2, <1>3, <1>6, <1>8, <1>14 DEF LaterPass
<1>19. \A x \in visited' : x \in visited \/ OnStack(x)'
  BY <1>8, <1>9, <1>14, <1>15 DEF OnStack, Of
<1> QED BY <1>1, <1>10, <1>11, <1>12, <1>13, <1>15, <1>17, <1>18, <1>19, QuietStep

LEMMA PlainEntryConsidered ==
  ASSUME PlainInv, TypeInv', EntryConsidered
  PROVE  PlainInv'
PROOF
<1>1. /\ stack # << >> /\ pc = "return" /\ Top.proc = "update_file"
      /\ UNCHANGED <<makefile, file, updating, jobs, recipe, goals, status>>
  BY DEF EntryConsidered, In
<1>2. /\ TypeInv /\ StackOK /\ TypeOK /\ PathSound
      /\ makefile \in Makefiles /\ Plain(makefile) /\ Top \in Frames
      /\ Top \in UpdateFileFrames /\ Waits(Top)
  BY <1>1, TopFacts, FrameTypes
<1>3. PICK f \in Files : f = Top.file
  BY <1>2 DEF UpdateFileFrames
<1>4. /\ Entries(f) = <<f>> /\ Len(Entries(f)) = 1 /\ Entries(f)[1] = f
      /\ makefile.double_colon[f] = << >>
  BY <1>2, PlainEntries DEF Plain
<1>5. Top.n = 1 /\ Top.d = 0 /\ Top.status = 0
  BY <1>1, <1>2 DEF Waits
<1>6. Answers(f)
  BY <1>1, <1>3 DEF PlainInv, AnswerSound
<1>7. Or(Top.status, ret.status) = ret.status
  BY <1>5 DEF Or
<1>8. /\ Return(IF command_state[f] \in Busy /\ ~Fatal(ret.status) THEN 0 ELSE ret.status,
                FALSE)
      /\ visited' = visited
  <2> DEFINE r == Or(Top.status, ret.status)
             busy == command_state[Entries(Top.file)[Top.n]] \in Busy
  <2>1. \/ Top.n < Len(Entries(Top.file))
        \/ makefile.double_colon[Top.file] # << >>
        \/ Return(IF busy /\ ~Fatal(r) THEN 0 ELSE r, FALSE) /\ visited' = visited
    BY Zenon DEF EntryConsidered
  <2>2. r = ret.status /\ Entries(Top.file)[Top.n] = f
    BY <1>3, <1>4, <1>5, <1>7
  <2>3. ~(Top.n < Len(Entries(Top.file)))
    BY <1>3, <1>4, <1>5
  <2> HIDE DEF r
  <2>4. Return(IF busy /\ ~Fatal(r) THEN 0 ELSE r, FALSE) /\ visited' = visited
    BY <1>3, <1>4, <2>1, <2>3
  <2> QED BY <2>2, <2>4
<1>9. PICK s : s = IF command_state[f] \in Busy /\ ~Fatal(ret.status) THEN 0 ELSE ret.status
  OBVIOUS
<1>10. Return(s, FALSE)
  BY <1>8, <1>9
<1>11. \/ f \in updated /\ s = update_status[f]
       \/ command_state[f] \in Busy /\ s = 0
  <2>1. CASE f \in updated /\ ret.status = update_status[f]
    <3>1. command_state[f] = "finished"
      BY <2>1 DEF PlainInv, FilesSound, FileSound
    <3> QED BY <1>9, <2>1, <3>1 DEF Busy
  <2>2. CASE command_state[f] \in Busy /\ ret.status = 0
    BY <1>9, <2>2
  <2> QED BY <1>6, <2>1, <2>2 DEF Answers
<1>12. Quiet /\ UNCHANGED <<goals, status, deps, visited, updating, update_status,
                            updated, command_state>>
  BY <1>1, <1>8 DEF Quiet, file
<1>13. PathSound'
  BY <1>1, <1>2, <1>10, <1>12, PathReturn
<1>14. pc' = "return"
  BY <1>10 DEF Return
<1>15. AnswerSound'
  BY <1>1, <1>3, <1>10, <1>11, <1>12, FileAnswered
<1>16. Active' = Rest \cup {} /\ {} \subseteq Frames
  BY <1>1, <1>2, <1>10, NextFrames
<1> QED BY <1>1, <1>12, <1>13, <1>14, <1>15, <1>16, QuietStep

(* Nothing is considered while update_goal_chain is on its own.            *)
LEMMA Alone ==
  ASSUME StackOK, stack # << >>, Len(stack) = 1
  PROVE  /\ Rest = {} /\ \A f : ~OnStack(f) /\ ~Making(f) /\ ~Walking(f)
PROOF
<1>1. Rest = {}
  BY DEF Rest
<1>2. Active = {Top} /\ Top.proc = "update_goal_chain"
  BY <1>1, ActiveFrames, TopOfStack
<1> QED BY <1>1, <1>2 DEF OnStack, Making, Walking, Of

LEMMA GoalsFrame ==
  ASSUME NEW g \in Nat
  PROVE  \E F \in GoalsFrames :
            F = Goals(g, 1, FALSE) /\ F.g = g /\ F.proc = "update_goal_chain"
PROOF
<1>1. PICK F : F = Goals(g, 1, FALSE)
  OBVIOUS
<1>2. F \in GoalsFrames /\ F.g = g /\ F.proc = "update_goal_chain"
  BY <1>1 DEF Goals, GoalsFrames
<1> QED BY <1>1, <1>2

LEMMA PassAlone ==
  ASSUME Rest = {}, NEW F, Active' = Rest \cup {F}, F.proc = "update_goal_chain",
         F.g \in {0, 1} \/ GoalsSeen(F)',
         FirstPass' \/ LaterPass', \A g \in Files : FileWalked(g)'
  PROVE  PassSound'
PROOF
<1>1. Walked'
  BY DEF Walked, FileWalked, WalkedFrom, Walking, DepFile, Seen, Begun, Making
<1>2. \A G \in Active' : GoalsSeen(G)'
  <2>1. F.g \in {0, 1} => \A j \in 1..Len(goals') : ~(j < F.g)
    BY SMT
  <2> QED BY <2>1 DEF GoalsSeen
<1> QED BY <1>1, <1>2 DEF PassSound, GoalsSeen

LEMMA WalkedAlone ==
  ASSUME TypeInv, PassSound, stack # << >>, Len(stack) = 1, NEW f \in Files, Concerns(f),
         deps' = deps, command_state[f] # "not_started" => command_state'[f] # "not_started",
         NEW N, Active' = Rest \cup N, FileWalked(f)'
  PROVE  SeenOn /\ BegunOn /\ \A g \in Files : FileWalked(g)'
PROOF
<1>1. StackOK /\ Top.proc = "update_goal_chain"
  BY TopOfStack DEF TypeInv
<1>2. Begun(f) => Seen(f)'
  BY DEF Begun, Seen
<1>3. SeenOn /\ BegunOn
  BY <1>1, <1>2, SeenStep
<1>4. Walked
  BY DEF PassSound
<1> QED BY <1>1, <1>3, <1>4, FilesWalkedStay

LEMMA QuietAlone ==
  ASSUME PlainInv, stack # << >>, Len(stack) = 1, Quiet,
         NEW F, Active' = Rest \cup {F}, F.proc = "update_goal_chain"
  PROVE  /\ FilesSound' /\ FramesSound' /\ SeenOn
         /\ \A g \in Files : FileWalked(g)'
         /\ visited' = visited /\ FirstPass => FirstPass'
PROOF
<1>1. TypeInv /\ StackOK /\ PathSound /\ Top.proc = "update_goal_chain"
  BY TopFacts
<1>2. FilesSound'
  BY QuietFiles DEF PlainInv
<1>3. Rest = {} /\ \A f : ~OnStack(f) /\ ~Making(f) /\ ~Walking(f)
  BY <1>1, Alone
<1>4. FramesSound'
  BY <1>3 DEF FramesSound, FrameSound
<1>5. ASSUME NEW g \in Files PROVE SeenOn /\ FileWalked(g)'
  <2>1. Concerns(g) /\ deps' = deps /\ command_state' = command_state
    BY QuietFiles DEF Quiet, file
  <2>2. PassSound
    BY DEF PlainInv
  <2>3. SeenOn
    <3>1. Begun(g) => Seen(g)'
      BY <2>1 DEF Begun, Seen
    <3> QED BY <1>1, <2>1, <3>1, SeenStep
  <2>4. ASSUME command_state[g] = "deps_running" PROVE WalkedFrom(g, 1)'
    <3>1. WalkedFrom(g, 1)
      BY <1>3, <2>2, <2>4 DEF PassSound, Walked, FileWalked
    <3>2. 1 \in Nat \ {0}
      OBVIOUS
    <3> QED BY <1>1, <2>1, <2>3, <3>1, <3>2, WalkedFromStays
  <2>5. FileWalked(g)'
    BY <2>1, <2>4 DEF FileWalked
  <2> QED BY <2>3, <2>5
<1>6. SeenOn
  BY <1>5 DEF SeenOn
<1>7. ASSUME visited' = visited, FirstPass PROVE FirstPass'
  <2>1. \A x \in visited : Begun(x)
    BY <1>3, <1>7 DEF FirstPass
  <2>2. \A x \in visited' : Begun(x)'
    BY <1>7, <2>1, QuietFiles
  <2> QED BY <2>2 DEF FirstPass, Begun
<1> QED BY <1>2, <1>4, <1>5, <1>6, <1>7

LEMMA LaterAlone ==
  ASSUME TypeInv, NEW F, Active' = {F}, F.proc = "update_goal_chain", SeenOn,
         UNCHANGED goals, \A j \in 1..Len(goals) : Seen(goals[j])
  PROVE  LaterPass'
PROOF
<1>1. \A j \in 1..Len(goals) : goals[j] \in Files
  BY ElementOfSeq DEF TypeInv, TypeOK
<1>2. ASSUME NEW j \in 1..Len(goals) PROVE Seen(goals[j])'
  <2>1. PICK d \in Files : d = goals[j] /\ Seen(d)
    BY <1>1
  <2>2. Seen(d)' /\ goals'[j] = d
    BY <2>1 DEF SeenOn
  <2> QED BY <2>2 DEF Seen, Begun, Making
<1> QED BY <1>2 DEF LaterPass, Seen, Begun, Making

LEMMA PlainEndPass ==
  ASSUME PlainInv, TypeInv', EndPass
  PROVE  PlainInv'
PROOF
<1>1. /\ stack # << >> /\ pc = "call" /\ Top.proc = "update_goal_chain"
      /\ Top.g > Len(goals)
      /\ UNCHANGED <<makefile, file, updating, jobs, recipe, goals, status>>
      /\ IF goals = << >>
         THEN stack' = << >> /\ pc' = "done" /\ ret' = NoRet
         ELSE Goto(Goals(0, 1, FALSE))
  BY DEF EndPass, In
<1>2. /\ TypeInv /\ StackOK /\ PathSound /\ Plain(makefile) /\ Len(stack) = 1
      /\ GoalsSeen(Top) /\ Top \in GoalsFrames
  BY <1>1, TopFacts, FrameTypes
<1>3. Quiet /\ UNCHANGED <<goals, status, updating>> /\ makefile' = makefile
  BY <1>1 DEF Quiet, file
<1>4. goals \in Seq(Files) /\ Len(goals) \in Nat
  BY <1>2, LenProperties DEF TypeInv, TypeOK
<1>5. CASE goals = << >>
  <2>1. stack' = << >> /\ pc' = "done"
    BY <1>1, <1>5
  <2>2. PathSound' /\ PassSound' /\ AnswerSound'
    BY <2>1, PathEnds, NoAnswer DEF PassSound
  <2>3. FilesSound'
    BY <1>3, QuietFiles DEF PlainInv
  <2>4. Active' = {}
    BY <2>1 DEF Active, Depth
  <2>5. FramesSound'
    BY <2>4 DEF FramesSound
  <2>6. GoalsSound'
    BY <1>1, <1>5 DEF PlainInv, GoalsSound, file
  <2> QED BY <1>2, <1>3, <2>2, <2>3, <2>5, <2>6 DEF PlainInv, PathSound, Plain
<1>6. CASE goals # << >>
  <2>1. PICK F \in GoalsFrames :
           F = Goals(0, 1, FALSE) /\ F.g = 0 /\ F.proc = "update_goal_chain"
    BY GoalsFrame
  <2>2. Goto(F) /\ pc' = "call"
    BY <1>1, <1>6, <2>1 DEF Goto
  <2>3. PathSound' /\ AnswerSound'
    BY <1>1, <1>2, <2>2, PathLoneGoto, NoAnswer
  <2>4. Active' = Rest \cup {F} /\ Rest = {}
    BY <1>1, <1>2, <2>2, NextFrames, Alone
  <2>5. FilesSound' /\ FramesSound' /\ SeenOn /\ \A g \in Files : FileWalked(g)'
    BY <1>1, <1>2, <1>3, <2>1, <2>4, QuietAlone
  <2>6. LaterPass'
    <3>1. Top.g \in Nat
      BY <1>2 DEF GoalsFrames
    <3>2. \A j \in 1..Len(goals) : j < Top.g
      BY <1>1, <1>4, <3>1
    <3>3. \A j \in 1..Len(goals) : Seen(goals[j])
      BY <1>1, <1>2, <3>2 DEF GoalsSeen
    <3> QED BY <1>2, <1>3, <2>1, <2>4, <2>5, <3>3, LaterAlone
  <2>7. PassSound'
    BY <2>1, <2>4, <2>5, <2>6, PassAlone
  <2>8. GoalsSound'
    BY <1>1, <2>2 DEF PlainInv, GoalsSound, file
  <2> QED BY <1>2, <1>3, <2>3, <2>5, <2>7, <2>8 DEF PlainInv, PathSound, Plain
<1> QED BY <1>5, <1>6

-----------------------------------------------------------------------------
(* notice_finished_file, of a plain makefile.                              *)
LEMMA NoticeConcerns ==
  ASSUME TypeInv, Plain(makefile), NEW f \in Files, f \notin updated, NEW s \in -1..2,
         NEW ran \in BOOLEAN, NEW touched \in BOOLEAN, Notice(f, s, ran, touched),
         UNCHANGED <<makefile, deps>>,
         \A g \in Files \ {f} : recipe'[g] = recipe[g] /\ (g \in jobs' <=> g \in jobs)
  PROVE  /\ Concerns(f) /\ command_state'[f] = "finished" /\ f \in updated'
         /\ update_status'[f] = IF s = -1 THEN 0 ELSE s
         /\ ~(ran /\ touched) => last_mtime'[f] = last_mtime[f]
PROOF
<1>1. /\ command_state' = [command_state EXCEPT ![f] = "finished"]
      /\ update_status' = [update_status EXCEPT ![f] = IF s = -1 THEN 0 ELSE s]
      /\ updated' = updated \cup {f}
      /\ \A g \in Files \ {f} : last_mtime'[g] = last_mtime[g]
      /\ ~(ran /\ touched) => last_mtime'[f] = last_mtime[f]
  BY PlainNotice
<1>2. command_state'[f] = "finished" /\ update_status'[f] = IF s = -1 THEN 0 ELSE s
  BY <1>1 DEF TypeInv, TypeOK
<1>3. ASSUME NEW g \in Files, g # f PROVE Same(g)
  BY <1>1, <1>3 DEF Same, TypeInv, TypeOK
<1>4. Concerns(f)
  BY <1>3 DEF Concerns
<1> QED BY <1>1, <1>2, <1>4

LEMMA FinishedSound ==
  ASSUME TypeInv, NEW f \in Files, Concerns(f), f \notin updated, f \in updated',
         command_state'[f] = "finished", update_status'[f] \in 0..2, f \notin jobs',
         deps'[f] = deps[f], update_status'[f] = 0 => DepsMade(f),
         makefile.keep_going => \A j \in 1..Len(deps[f]) : DepFile(f, j) \in updated,
         update_status'[f] = 0 /\ makefile.cmds[f] = "commands" /\ recipe'[f] = "idle" =>
            /\ last_mtime'[f] = last_mtime[f] /\ last_mtime[f] > 0
            /\ \A j \in 1..Len(deps[f]) : Recent(f, j, last_mtime[f])
  PROVE  FileSound(f)'
PROOF
<1>1. \A j \in 1..Len(deps[f]) : DepFile(f, j) \in Files /\ DepFile(f, j)' = DepFile(f, j)
  BY DepFiles DEF DepFile
<1>2. Made(f)' <=> update_status'[f] = 0
  BY DEF Made
<1>3. update_status'[f] = 0 => DepsMade(f)'
  <2> SUFFICES ASSUME update_status'[f] = 0, NEW j \in 1..Len(deps[f])
               PROVE  Made(DepFile(f, j))'
    BY DEF DepsMade
  <2>1. Made(DepFile(f, j)) /\ DepFile(f, j) \in Files /\ DepFile(f, j)' = DepFile(f, j)
    BY <1>1 DEF DepsMade
  <2>2. \A d \in Files : Made(d) => Made(d)'
    BY MadeStays
  <2> QED BY <2>1, <2>2 DEF Made
<1>4. (makefile.keep_going /\ f \in updated =>
          \A j \in 1..Len(deps[f]) : DepFile(f, j) \in updated)'
  <2> SUFFICES ASSUME makefile.keep_going, NEW j \in 1..Len(deps[f])
               PROVE  DepFile(f, j)' \in updated'
    BY DEF Concerns
  <2> QED BY <1>1, UpdatedStays
<1>5. (Made(f) /\ makefile.cmds[f] = "commands" /\ recipe[f] = "idle" =>
          /\ last_mtime[f] > 0
          /\ \A j \in 1..Len(deps[f]) : Recent(f, j, last_mtime[f]))'
  <2> SUFFICES ASSUME update_status'[f] = 0, makefile.cmds[f] = "commands",
                      recipe'[f] = "idle"
               PROVE  /\ last_mtime'[f] > 0
                      /\ \A j \in 1..Len(deps[f]) : Recent(f, j, last_mtime[f])'
    BY <1>2 DEF Concerns
  <2>1. /\ last_mtime'[f] = last_mtime[f] /\ last_mtime[f] > 0 /\ DepsMade(f)
        /\ \A j \in 1..Len(deps[f]) : Recent(f, j, last_mtime[f])
    OBVIOUS
  <2>2. ASSUME NEW j \in 1..Len(deps[f]) PROVE Recent(f, j, last_mtime[f])'
    <3>1. Recent(f, j, last_mtime[f]) /\ Made(DepFile(f, j)) /\ DepFile(f, j) \in Files
      BY <1>1, <2>1 DEF DepsMade
    <3>2. Same(DepFile(f, j)) /\ DepFile(f, j)' = DepFile(f, j)
      BY <1>1, <3>1, MadeStays
    <3> QED BY <2>1, <3>1, <3>2 DEF Recent, Same
  <2> QED BY <2>1, <2>2
<1>6. /\ (f \in updated <=> command_state[f] = "finished")'
      /\ (f \in updated <=> update_status[f] # -1)'
      /\ (f \in jobs <=> command_state[f] = "running")'
      /\ (recipe[f] = "started" => command_state[f] \in {"running", "finished"})'
      /\ (recipe[f] = "over" => f \in updated)'
      /\ (command_state[f] = "running" => recipe[f] = "started")'
  BY SMT
<1>7. (command_state[f] = "running" \/ Made(f) => DepsMade(f))'
  BY <1>2, <1>3
<1> QED BY <1>4, <1>5, <1>6, <1>7 DEF FileSound

(* A child of job control ends.                                            *)
LEMMA PlainReap ==
  ASSUME PlainInv, NEW f, NEW result, Reap(f, result), UNCHANGED <<makefile, deps, recipe>>
  PROVE  /\ f \in Files /\ Concerns(f) /\ FilesSound'
         /\ command_state[f] = "running" /\ command_state'[f] = "finished"
PROOF
<1>1. /\ TypeInv /\ Plain(makefile) /\ FilesSound /\ f \in Files /\ f \in jobs
      /\ jobs' = jobs \ {f}
  BY DEF PlainInv, Reap, TypeInv, TypeOK
<1>2. FileSound(f)
  BY <1>1 DEF FilesSound
<1>3. /\ command_state[f] = "running" /\ f \notin updated /\ recipe[f] = "started"
      /\ DepsMade(f)
  BY <1>1, <1>2 DEF FileSound
<1>4. PICK s \in {0, 2}, touched \in BOOLEAN, ran \in BOOLEAN : Notice(f, s, ran, touched)
  <2>1. (command_state[f] = "running") \in BOOLEAN
    OBVIOUS
  <2> QED BY <2>1, Zenon DEF Reap
<1>5. s \in -1..2 /\ UNCHANGED <<makefile, deps>>
  OBVIOUS
<1>6. \A g \in Files \ {f} : recipe'[g] = recipe[g] /\ (g \in jobs' <=> g \in jobs)
  BY <1>1
<1>7. /\ Concerns(f) /\ command_state'[f] = "finished" /\ f \in updated'
      /\ update_status'[f] = IF s = -1 THEN 0 ELSE s
  BY <1>1, <1>3, <1>4, <1>5, <1>6, NoticeConcerns
<1>8. update_status'[f] \in 0..2 /\ f \notin jobs' /\ recipe'[f] # "idle"
  BY <1>1, <1>3, <1>7
<1>9. \A j \in 1..Len(deps[f]) : DepFile(f, j) \in updated
  BY <1>3 DEF DepsMade, Made
<1>10. FileSound(f)'
  BY <1>1, <1>3, <1>7, <1>8, <1>9, FinishedSound
<1>11. FilesSound'
  BY <1>1, <1>7, <1>10, FilesSoundStays
<1> QED BY <1>1, <1>3, <1>7, <1>11

LEMMA ReapAlone ==
  ASSUME PlainInv, TypeInv', stack # << >>, Len(stack) = 1, NEW f, NEW result, Reap(f, result),
         UNCHANGED <<makefile, deps, recipe, walk, goals, status>>, AnswerSound',
         \/ Die
         \/ PathSound' /\ stack' # << >> /\ \E F : /\ F.proc = "update_goal_chain" /\ F.g \in {0, 1}
                                                  /\ Active' = Rest \cup {F}
  PROVE  PlainInv'
PROOF
<1>1. /\ f \in Files /\ Concerns(f) /\ FilesSound'
      /\ command_state[f] = "running" /\ command_state'[f] = "finished"
  BY PlainReap
<1>2. TypeInv /\ PassSound /\ Plain(makefile) /\ StackOK /\ GoalsSound
  BY DEF PlainInv, TypeInv
<1>3. makefile' = makefile /\ visited' = visited
  BY DEF walk
<1>4. CASE Die
  <2>1. stack' = << >> /\ pc' = "die"
    BY <1>4 DEF Die
  <2>2. PathSound' /\ PassSound' /\ Active' = {}
    BY <2>1, PathEnds DEF PassSound, Active, Depth
  <2>3. FramesSound'
    BY <2>2 DEF FramesSound
  <2>4. GoalsSound'
    BY <1>1, <1>2, <2>1, GoalsStay
  <2> QED BY <1>1, <1>2, <1>3, <2>2, <2>3, <2>4 DEF PlainInv, PathSound, Plain
<1>5. CASE PathSound' /\ stack' # << >> /\ \E F : /\ F.proc = "update_goal_chain" /\ F.g \in {0, 1}
                                                 /\ Active' = Rest \cup {F}
  <2>1. PICK F : /\ F.proc = "update_goal_chain" /\ F.g \in {0, 1}
                 /\ Active' = Rest \cup {F}
    BY <1>5
  <2>2. Rest = {} /\ \A g : ~OnStack(g) /\ ~Making(g) /\ ~Walking(g)
    BY <1>2, Alone
  <2>3. FramesSound'
    BY <2>1, <2>2 DEF FramesSound, FrameSound
  <2>4. SeenOn /\ BegunOn /\ \A g \in Files : FileWalked(g)'
    <3>1. FileWalked(f)'
      BY <1>1 DEF FileWalked
    <3>2. deps' = deps
      OBVIOUS
    <3>3. command_state'[f] # "not_started"
      BY <1>1
    <3> QED BY <1>1, <1>2, <2>1, <3>1, <3>2, <3>3, WalkedAlone
  <2>5. FirstPass' \/ LaterPass'
    <3>1. FirstPass => FirstPass'
      BY <1>2, <1>3, <2>4 DEF FirstPass, BegunOn, Begun, OnStack, TypeInv, TypeOK
    <3>2. LaterPass => \A j \in 1..Len(goals) : Seen(goals[j])
      BY DEF LaterPass
    <3>3. LaterPass => LaterPass'
      BY <1>2, <2>1, <2>2, <2>4, <3>2, LaterAlone
    <3> QED BY <1>2, <3>1, <3>3 DEF PassSound
  <2>6. PassSound'
    BY <2>1, <2>2, <2>4, <2>5, PassAlone
  <2>7. GoalsSound'
    BY <1>1, <1>2, <1>5, GoalsStay
  <2> QED BY <1>1, <1>2, <1>3, <1>5, <2>3, <2>6, <2>7 DEF PlainInv, PathSound, Plain
<1> QED BY <1>4, <1>5

LEMMA PlainStartWaitingJobs ==
  ASSUME PlainInv, TypeInv', StartWaitingJobs
  PROVE  PlainInv'
PROOF
<1>1. /\ stack # << >> /\ pc = "call" /\ Top.proc = "update_goal_chain" /\ Top.g = 0
      /\ UNCHANGED <<makefile, deps, recipe, walk, goals, status, stack, pc, ret>>
  BY DEF StartWaitingJobs, In, thread
<1>2. PICK f : Reap(f, "refused")
  BY DEF StartWaitingJobs
<1>3. StackOK /\ PathSound /\ Len(stack) = 1
  BY <1>1, TopFacts
<1>4. PathSound' /\ AnswerSound'
  BY <1>1, <1>3, PathStays, NoAnswer DEF walk
<1>5. Active' = Rest \cup {Top}
  BY <1>1, <1>3, NextFrames
<1> QED BY <1>1, <1>2, <1>3, <1>4, <1>5, ReapAlone

LEMMA PlainReapBeforePass ==
  ASSUME PlainInv, TypeInv', ReapBeforePass
  PROVE  PlainInv'
PROOF
<1>1. /\ stack # << >> /\ pc = "call" /\ Top.proc = "update_goal_chain" /\ Top.g = 0
      /\ UNCHANGED <<makefile, walk, recipe, goals, status>>
  BY DEF ReapBeforePass, In
<1>2. /\ TypeInv /\ StackOK /\ PathSound /\ Plain(makefile) /\ Len(stack) = 1
  BY <1>1, TopFacts
<1>3. PICK F \in GoalsFrames :
         F = Goals(1, 1, FALSE) /\ F.g = 1 /\ F.proc = "update_goal_chain"
  <2>1. 1 \in Nat
    OBVIOUS
  <2> QED BY <2>1, GoalsFrame
<1>4. updating' = updating /\ visited' = visited
  BY <1>1 DEF walk
<1>5. ASSUME Goto(F) PROVE /\ PathSound' /\ stack' # << >> /\ AnswerSound'
                           /\ Active' = Rest \cup {F} /\ pc' = "call"
  <2>1. pc' = "call"
    BY <1>5 DEF Goto
  <2>2. PathSound'
    BY <1>1, <1>2, <1>4, <1>5, PathLoneGoto
  <2>3. stack' # << >> /\ Active' = Rest \cup {F}
    BY <1>1, <1>2, <1>5, GotoStack, NextFrames
  <2> QED BY <2>1, <2>2, <2>3, NoAnswer
<1>6. CASE jobs = {}
  <2>1. Goto(F) /\ UNCHANGED <<jobs, file>>
    BY <1>3, <1>6 DEF ReapBeforePass
  <2>2. Quiet
    BY <1>1, <2>1 DEF Quiet
  <2>3. FilesSound' /\ FramesSound' /\ SeenOn
        /\ (\A g \in Files : FileWalked(g)') /\ (FirstPass => FirstPass')
    BY <1>1, <1>2, <1>3, <1>4, <1>5, <2>1, <2>2, QuietAlone
  <2>4. Rest = {}
    BY <1>1, <1>2, Alone
  <2>5. FirstPass' \/ LaterPass'
    <3>1. LaterPass => \A j \in 1..Len(goals) : Seen(goals[j])
      BY DEF LaterPass
    <3>2. goals' = goals /\ Active' = {F}
      BY <1>1, <1>5, <2>1, <2>4
    <3>3. LaterPass => LaterPass'
      BY <1>2, <1>3, <2>3, <3>1, <3>2, LaterAlone
    <3> QED BY <1>1, <2>3, <3>3 DEF PlainInv, PassSound
  <2>6. PassSound'
    BY <1>3, <1>5, <2>1, <2>3, <2>4, <2>5, PassAlone
  <2>7. GoalsSound'
    BY <1>1, <1>5, <2>1 DEF PlainInv, GoalsSound, file
  <2> QED BY <1>1, <1>2, <1>5, <2>1, <2>3, <2>6, <2>7 DEF PlainInv, PathSound, Plain
<1>7. CASE jobs # {}
  <2>1. PICK f, result : Reap(f, result) /\ (Die \/ Goto(F)) /\ UNCHANGED deps
    BY <1>3, <1>7 DEF ReapBeforePass
  <2>2. CASE Die
    <3>1. AnswerSound'
      BY <2>2, NoAnswer DEF Die
    <3> QED BY <1>1, <1>2, <2>1, <2>2, <3>1, ReapAlone
  <2>3. CASE Goto(F)
    BY <1>1, <1>2, <1>3, <1>5, <2>1, <2>3, ReapAlone
  <2> QED BY <2>1, <2>2, <2>3
<1> QED BY <1>6, <1>7

LEMMA PlainGoalConsidered ==
  ASSUME PlainInv, TypeInv', GoalConsidered
  PROVE  PlainInv'
PROOF
<1>1. /\ stack # << >> /\ pc = "return" /\ Top.proc = "update_goal_chain"
      /\ UNCHANGED <<makefile, file, walk, jobs, recipe>>
  BY DEF GoalConsidered, In
<1>2. /\ TypeInv /\ StackOK /\ TypeOK /\ PathSound /\ makefile \in Makefiles /\ Plain(makefile)
      /\ Len(stack) = 1 /\ Top \in GoalsFrames /\ GoalsSeen(Top) /\ Calls(Top) /\ Placed(Top)
      /\ GoalsSound /\ FilesSound
  BY <1>1, TopFacts, FrameTypes DEF PlainInv
<1>3. Top.g \in 1..Len(goals) /\ goals \in Seq(Files) /\ Len(goals) \in Nat
  BY <1>1, <1>2, LenProperties DEF Calls, TypeOK
<1>4. PICK f \in Files : f = goals[Top.g]
  BY <1>3, ElementOfSeq
<1>5. Entries(f) = <<f>> /\ Len(Entries(f)) = 1 /\ Entries(f)[1] = f
  BY <1>2, PlainEntries
<1>6. Top.n = 1
  <2>1. Top.n \in Nat \ {0}
    BY <1>2 DEF GoalsFrames
  <2> QED BY <1>1, <1>2, <1>3, <1>4, <1>5, <2>1 DEF Placed
<1>7. /\ status' = IF (ret.status # 0 \/ f \in updated) /\ status < 1 /\ update_status[f] # 0
                   THEN update_status[f] ELSE status
      /\ \/ Goto(Goals(Top.g + 1, 1, FALSE)) /\ UNCHANGED goals
         \/ Goto(Goals(Top.g, 1, FALSE)) /\ goals' = RemoveAt(goals, Top.g) /\ f \in updated
  <2> DEFINE e == Entries(goals[Top.g])[Top.n]
  <2>1. e = f
    BY <1>4, <1>5, <1>6, Zenon
  <2>3. Len(Entries(e)) = 1 /\ ~(Top.n < 1)
    BY <1>5, <1>6, <2>1
  <2>2. /\ status' = IF (ret.status # 0 \/ e \in updated) /\ status < 1 /\ update_status[e] # 0
                     THEN update_status[e] ELSE status
        /\ \/ Top.n < Len(Entries(e))
           \/ Goto(Goals(Top.g + 1, 1, FALSE)) /\ UNCHANGED goals
           \/ /\ Goto(Goals(Top.g, 1, FALSE)) /\ goals' = RemoveAt(goals, Top.g)
              /\ e \in updated
    BY Zenon DEF GoalConsidered
  <2> HIDE DEF e
  <2> QED BY <2>1, <2>2, <2>3
<1>8. Answers(f)
  BY <1>1, <1>4 DEF PlainInv, AnswerSound
<1>9. Begun(f)
  <2>1. f \in updated => command_state[f] = "finished"
    BY <1>2 DEF FilesSound, FileSound
  <2> QED BY <1>8, <2>1 DEF Answers, Begun, Busy
<1>10. Quiet /\ updating' = updating /\ visited' = visited /\ makefile' = makefile
       /\ updated' = updated /\ update_status' = update_status
  BY <1>1 DEF Quiet, walk, file
<1>11. Rest = {}
  BY <1>1, <1>2, Alone
<1>12. ASSUME NEW F \in GoalsFrames, Goto(F), F.proc = "update_goal_chain"
       PROVE  /\ PathSound' /\ AnswerSound' /\ stack' # << >> /\ Active' = Rest \cup {F}
              /\ FilesSound' /\ FramesSound' /\ SeenOn
              /\ \A g \in Files : FileWalked(g)'
              /\ FirstPass => FirstPass'
  <2>1. pc' = "call"
    BY <1>12 DEF Goto
  <2>2. PathSound'
    BY <1>1, <1>2, <1>10, <1>12, PathLoneGoto
  <2>3. stack' # << >> /\ Active' = Rest \cup {F}
    BY <1>1, <1>2, <1>12, GotoStack, NextFrames
  <2>4. AnswerSound'
    BY <2>1, NoAnswer
  <2>5. FilesSound' /\ FramesSound' /\ SeenOn
        /\ (\A g \in Files : FileWalked(g)') /\ (FirstPass => FirstPass')
    BY <1>1, <1>2, <1>10, <1>12, <2>3, QuietAlone
  <2> QED BY <2>2, <2>3, <2>4, <2>5
<1>13. \A i \in 1..Len(makefile.goals) :
          /\ makefile.goals[i] \in updated /\ (update_status[makefile.goals[i]] > 0 => status > 0)
          => (update_status[makefile.goals[i]] > 0 => status' > 0)
  <2>1. status \in -1..2 /\ status > 0 => status' = status
    BY <1>7
  <2> QED BY <1>2, <2>1 DEF TypeOK
<1>14. /\ f \in updated => (update_status[f] > 0 => status' > 0)
       /\ status' > 0 => status' = status \/ (f \in updated /\ update_status[f] > 0)
  <2>1. /\ status \in -1..2 /\ update_status[f] \in -1..2
        /\ f \in updated <=> update_status[f] # -1
    BY <1>2 DEF TypeOK, FilesSound, FileSound
  <2> QED BY <1>7, <2>1
<1>15. PICK i0 \in 1..Len(makefile.goals) : makefile.goals[i0] = f
  BY <1>2, <1>3, <1>4 DEF GoalsSound
<1>16. status' > 0 => \E i \in 1..Len(makefile.goals) :
          makefile.goals[i] \in updated /\ update_status[makefile.goals[i]] > 0
  BY <1>2, <1>14, <1>15 DEF GoalsSound
<1>17. CASE Goto(Goals(Top.g + 1, 1, FALSE)) /\ UNCHANGED goals
  <2>1. PICK F \in GoalsFrames :
           F = Goals(Top.g + 1, 1, FALSE) /\ F.g = Top.g + 1 /\ F.proc = "update_goal_chain"
    <3>1. Top.g + 1 \in Nat
      BY <1>3
    <3> QED BY <3>1, GoalsFrame
  <2>2. /\ PathSound' /\ AnswerSound' /\ stack' # << >> /\ Active' = Rest \cup {F}
        /\ FilesSound' /\ FramesSound' /\ SeenOn
        /\ \A g \in Files : FileWalked(g)'
        /\ FirstPass => FirstPass'
    BY <1>12, <1>17, <2>1
  <2>3. FirstPass' \/ LaterPass'
    <3>1. LaterPass => \A j \in 1..Len(goals) : Seen(goals[j])
      BY DEF LaterPass
    <3>2. goals' = goals /\ Active' = {F}
      BY <1>11, <1>17, <2>2
    <3>3. LaterPass => LaterPass'
      BY <1>2, <2>1, <2>2, <3>1, <3>2, LaterAlone
    <3> QED BY <1>1, <2>2, <3>3 DEF PlainInv, PassSound
  <2>4. GoalsSeen(F)'
    <3> SUFFICES ASSUME NEW j \in 1..Len(goals), j < Top.g + 1 PROVE Seen(goals[j])'
      BY <1>17, <2>1 DEF GoalsSeen, Seen, Begun, Making
    <3>1. PICK d \in Files : d = goals[j]
      BY <1>3, ElementOfSeq
    <3>2. Seen(d)
      <4>1. CASE j = Top.g
        BY <1>4, <1>9, <3>1, <4>1 DEF Seen
      <4>2. CASE j # Top.g
        <5>1. j < Top.g
          BY <1>3, <4>2
        <5> QED BY <1>1, <1>2, <3>1, <5>1 DEF GoalsSeen
      <4> QED BY <4>1, <4>2
    <3>3. Seen(d)' /\ goals'[j] = d
      BY <1>17, <2>2, <3>1, <3>2 DEF SeenOn
    <3> QED BY <3>3 DEF Seen, Begun, Making
  <2>5. PassSound'
    BY <1>11, <2>1, <2>2, <2>3, <2>4, PassAlone
  <2>6. GoalsSound'
    BY <1>2, <1>10, <1>13, <1>16, <1>17, <2>2 DEF GoalsSound
  <2> QED BY <1>2, <1>10, <2>2, <2>5, <2>6 DEF PlainInv, PathSound, Plain
<1>18. CASE Goto(Goals(Top.g, 1, FALSE)) /\ goals' = RemoveAt(goals, Top.g) /\ f \in updated
  <2>1. PICK F \in GoalsFrames :
           F = Goals(Top.g, 1, FALSE) /\ F.g = Top.g /\ F.proc = "update_goal_chain"
    <3>1. Top.g \in Nat
      BY <1>3
    <3> QED BY <3>1, GoalsFrame
  <2>2. /\ PathSound' /\ AnswerSound' /\ stack' # << >> /\ Active' = Rest \cup {F}
        /\ FilesSound' /\ FramesSound' /\ SeenOn
        /\ \A g \in Files : FileWalked(g)'
        /\ FirstPass => FirstPass'
    BY <1>12, <1>18, <2>1
  <2>3. /\ Len(goals') = Len(goals) - 1
        /\ \A j \in 1..(Len(goals) - 1) :
              goals'[j] = IF j < Top.g THEN goals[j] ELSE goals[j + 1]
    BY <1>3, <1>18, RemoveAtProperties
  <2>4. \A j \in 1..Len(goals') : /\ \E q \in 1..Len(goals) : goals'[j] = goals[q]
                                  /\ j < Top.g => j \in 1..Len(goals) /\ goals'[j] = goals[j]
    <3> TAKE j \in 1..Len(goals')
    <3>1. j \in 1..(Len(goals) - 1) /\ j \in 1..Len(goals) /\ j + 1 \in 1..Len(goals)
      BY <1>3, <2>3
    <3> QED BY <2>3, <3>1
  <2>5. \A q \in 1..Len(goals) : \/ goals[q] = f
                                 \/ \E j \in 1..Len(goals') : goals'[j] = goals[q]
    <3> TAKE q \in 1..Len(goals)
    <3>1. CASE q < Top.g
      <4>1. q \in 1..(Len(goals) - 1)
        BY <1>3, <3>1
      <4> QED BY <2>3, <3>1, <4>1
    <3>2. CASE q = Top.g
      BY <1>4, <3>2
    <3>3. CASE q > Top.g
      <4>1. q - 1 \in 1..(Len(goals) - 1) /\ ~(q - 1 < Top.g) /\ (q - 1) + 1 = q
        BY <1>3, <3>3
      <4> QED BY <2>3, <4>1
    <3> QED BY <1>3, <3>1, <3>2, <3>3
  <2>6. ASSUME NEW j \in 1..Len(goals'), Seen(goals'[j]) PROVE Seen(goals[j])'
    <3>1. PICK d \in Files : d = goals'[j] /\ Seen(d)
      BY <1>3, <2>4, <2>6, ElementOfSeq
    <3>2. Seen(d)'
      BY <2>2, <3>1 DEF SeenOn
    <3> QED BY <3>1, <3>2 DEF Seen, Begun, Making
  <2>7. FirstPass' \/ LaterPass'
    <3>1. ASSUME LaterPass PROVE LaterPass'
      <4>1. \A j \in 1..Len(goals') : Seen(goals'[j])
        BY <2>4, <3>1 DEF LaterPass
      <4>2. \A j \in 1..Len(goals') : Seen(goals[j])'
        BY <2>6, <4>1
      <4> QED BY <1>11, <2>1, <2>2, <4>2 DEF LaterPass, Seen, Begun, Making
    <3> QED BY <1>1, <2>2, <3>1 DEF PlainInv, PassSound
  <2>8. GoalsSeen(F)'
    <3> SUFFICES ASSUME NEW j \in 1..Len(goals'), j < Top.g PROVE Seen(goals[j])'
      BY <2>1 DEF GoalsSeen, Seen, Begun, Making
    <3>1. Seen(goals'[j])
      BY <1>1, <1>2, <2>4 DEF GoalsSeen
    <3> QED BY <2>6, <3>1
  <2>9. PassSound'
    BY <1>11, <2>1, <2>2, <2>7, <2>8, PassAlone
  <2>10. GoalsSound'
    <3>1. (\A j \in 1..Len(goals) : \E i \in 1..Len(makefile.goals) :
             makefile.goals[i] = goals[j])'
      BY <1>2, <1>10, <2>4 DEF GoalsSound
    <3>2. (\A i \in 1..Len(makefile.goals) :
             \/ \E j \in 1..Len(goals) : goals[j] = makefile.goals[i]
             \/ /\ makefile.goals[i] \in updated
                /\ update_status[makefile.goals[i]] > 0 => status > 0)'
      <4> SUFFICES ASSUME NEW i \in 1..Len(makefile.goals)
                   PROVE  \/ \E j \in 1..Len(goals') : goals'[j] = makefile.goals[i]
                          \/ /\ makefile.goals[i] \in updated
                             /\ update_status[makefile.goals[i]] > 0 => status' > 0
        BY <1>10
      <4>1. CASE \E j \in 1..Len(goals) : goals[j] = makefile.goals[i]
        BY <1>14, <1>18, <2>5, <4>1
      <4>2. CASE /\ makefile.goals[i] \in updated
                 /\ update_status[makefile.goals[i]] > 0 => status > 0
        BY <1>13, <4>2
      <4> QED BY <1>2, <4>1, <4>2 DEF GoalsSound
    <3> QED BY <1>10, <1>16, <2>2, <3>1, <3>2 DEF GoalsSound
  <2> QED BY <1>2, <1>10, <2>2, <2>9, <2>10 DEF PlainInv, PathSound, Plain
<1> QED BY <1>7, <1>17, <1>18

-----------------------------------------------------------------------------
(* update_file_1 of a plain makefile goes over the prerequisites.          *)
LEMMA WalkFacts ==
  ASSUME PlainInv, stack # << >>, Top.proc = "update_file_1"
  PROVE  /\ Top \in UpdateFile1Frames /\ Top.file \in Files
         /\ WalkSound(Top) /\ WalkSeen(Top) /\ Top.file \in visited
         /\ Top.at = "deps" => Top.file \in updating
         /\ \A F \in Rest : F.proc = "update_file_1" => F.file # Top.file
         /\ \A k \in 2..Len(stack) : Considering(k) => stack[k].file # Top.file
         /\ Walking(Top.file) => Top.at = "deps"
         /\ LaterPass => Seen(Top.file)
         /\ FileSound(Top.file)
PROOF
<1>1. /\ Top \in Frames /\ Top \in Active /\ FrameSound(Top) /\ WalkSeen(Top)
      /\ Top = stack[1] /\ 1 \in Depth /\ PathSound /\ StackOK /\ Top.file \in visited
  BY TopFacts
<1>2. Top \in UpdateFile1Frames /\ Top.file \in Files
  BY <1>1, FrameTypes DEF UpdateFile1Frames
<1>3. WalkSound(Top)
  BY <1>1 DEF FrameSound
<1>4. Top.at = "deps" => Top.file \in updating
  BY <1>1 DEF PathSound, Marked, Considering
<1>5. \A k \in 2..Len(stack) : Considering(k) => stack[k].file # Top.file
  <2>1. \A k \in 2..Len(stack) : 1 < k /\ k \in Depth
    BY DEF Depth
  <2> QED BY <1>1, <2>1 DEF PathSound, Apart
<1>6. \A F \in Rest : F.proc = "update_file_1" => F.file # Top.file
  BY <1>5 DEF Rest, Considering
<1>7. Walking(Top.file) => Top.at = "deps"
  <2>1. Active = Rest \cup {Top}
    BY <1>1, ActiveFrames
  <2> QED BY <1>6, <2>1 DEF Walking, Of
<1>8. LaterPass => Seen(Top.file)
  BY <1>1 DEF LaterPass
<1>9. FileSound(Top.file)
  BY <1>2 DEF PlainInv, FilesSound
<1> QED BY <1>1, <1>2, <1>3, <1>4, <1>5, <1>6, <1>7, <1>8, <1>9

LEMMA QuietWalk ==
  ASSUME PlainInv, TypeInv', stack # << >>, Top.proc = "update_file_1", Quiet,
         Top.at \in {"entry", "deps", "intermediates"},
         NEW f \in Files, f = Top.file, NEW F \in UpdateFile1Frames, F.file = f,
         F.at \in {"deps", "intermediates", "decide"}, Goto(F), UNCHANGED <<goals, status, visited>>,
         updating \subseteq updating', updating' \subseteq updating \cup {f},
         F.at = "deps" => f \in updating',
         WalkSound(F), WalkSeen(F)
  PROVE  PlainInv'
PROOF
<1>1. /\ TypeInv /\ StackOK /\ PathSound
  BY TopFacts
<1>2. /\ WalkSound(Top) /\ WalkSeen(Top) /\ (LaterPass => Seen(Top.file))
  BY WalkFacts
<1>3. F \in Frames /\ F.proc = "update_file_1"
  BY DEF Frames, UpdateFile1Frames
<1>4. pc' = "call" /\ stack' # << >> /\ Active' = Rest \cup {F}
  BY <1>1, GotoStack, NextFrames DEF Goto
<1>5. PathSound'
  <2>1. Replaces(F, Top) /\ Runs(F)
    BY <1>3 DEF Replaces, Runs
  <2>2. DepsBelow /\ UNCHANGED <<goals, visited>>
    BY QuietFiles
  <2>3. updating \ {F.file} \subseteq updating' /\ updating' \subseteq updating \cup {F.file}
    OBVIOUS
  <2> QED BY <1>1, <1>3, <2>1, <2>2, <2>3, PathGoto
<1>6. AnswerSound'
  BY <1>4, NoAnswer
<1>7. Top.at = "deps" /\ F.at # "deps" => WalkedFrom(f, 1)
  BY DEF WalkSeen
<1>8. PICK N : N = {F}
  OBVIOUS
<1>9. Active' = Rest \cup N /\ N \subseteq Frames
  BY <1>3, <1>4, <1>8
<1>10. \A G \in N : /\ FrameSound(G) /\ WalkSeen(G) /\ GoalsSeen(G)
                    /\ G.file \in Files /\ (LaterPass => Seen(G.file))
  BY <1>2, <1>3, <1>8 DEF FrameSound, GoalsSeen
<1>11. \E G \in N : /\ Of(G, f)
                    /\ Top.at \in {"make", "made"} => G.at \in {"make", "made"}
  BY <1>3, <1>8 DEF Of
<1>12. \A x \in visited' : x \in visited \/ OnStack(x)'
  OBVIOUS
<1>13. /\ Top.proc = "update_file_1" /\ Top.at = "deps"
       /\ command_state[f] = "deps_running"
       /\ ~\E G \in N : Of(G, f) /\ G.at = "deps"
       => WalkedFrom(f, 1)
  BY <1>3, <1>7, <1>8 DEF Of
<1> QED BY <1>4, <1>5, <1>6, <1>9, <1>10, <1>11, <1>12, <1>13, QuietStep

LEMMA PlainConsiderTarget ==
  ASSUME PlainInv, TypeInv', ConsiderTarget
  PROVE  PlainInv'
PROOF
<1>1. /\ stack # << >> /\ pc = "call" /\ Top.proc = "update_file_1" /\ Top.at = "entry"
      /\ UNCHANGED <<makefile, file, visited, jobs, recipe, goals, status>>
  BY DEF ConsiderTarget, At, In
<1>2. /\ TypeInv /\ StackOK /\ TypeOK /\ PathSound
      /\ makefile \in Makefiles /\ Plain(makefile)
  BY <1>1, TopFacts
<1>3. PICK f \in Files : f = Top.file
  BY <1>1, WalkFacts
<1>4. /\ Top \in UpdateFile1Frames /\ WalkSound(Top) /\ FileSound(f) /\ ~Walking(f)
  BY <1>1, <1>3, WalkFacts
<1>5. Quiet /\ UNCHANGED <<goals, status, visited, deps, command_state, updated, update_status>>
  BY <1>1 DEF Quiet, file
<1>6. FirstEntry(f) = f
  BY <1>2, PlainEntries
<1>7. CASE f \in updated \/ command_state[f] \in {"running", "finished"}
  <2>1. PICK s : s = IF f \in updated \/ command_state[f] = "finished"
                     THEN Max({update_status[f], 0}) ELSE 0
    OBVIOUS
  <2>2. Return(s, FALSE) /\ updating' = updating
    BY <1>3, <1>7, <2>1 DEF ConsiderTarget
  <2>3. \/ f \in updated' /\ s = update_status'[f]
        \/ command_state'[f] \in Busy /\ s = 0
    <3>1. CASE f \in updated
      <4>1. update_status[f] \in 0..2
        BY <1>2, <1>4, <3>1 DEF FileSound, TypeOK
      <4>2. PICK S : S = {update_status[f], 0}
        OBVIOUS
      <4>3. S \in SUBSET Nat /\ S # {} /\ 2 \in Nat /\ \A x \in S : x <= 2
        BY <4>1, <4>2
      <4>4. Max(S) \in S /\ \A x \in S : x <= Max(S)
        BY <4>3, Greatest
      <4>5. Max({update_status[f], 0}) = update_status[f]
        BY <4>1, <4>2, <4>4
      <4> QED BY <1>5, <2>1, <3>1, <4>5
    <3>2. CASE f \notin updated
      BY <1>4, <1>5, <1>7, <2>1, <3>2 DEF FileSound, Busy
    <3> QED BY <3>1, <3>2
  <2>4. PathSound'
    BY <1>1, <1>2, <1>5, <2>2, PathReturn
  <2>5. AnswerSound'
    BY <1>1, <1>3, <1>5, <2>2, <2>3, FileAnswered
  <2>6. pc' = "return" /\ Active' = Rest \cup {} /\ {} \subseteq Frames
    BY <1>1, <1>2, <2>2, NextFrames DEF Return
  <2>7. Begun(f)
    BY <1>4, <1>7 DEF Begun, FileSound
  <2>8. PICK N : N = {}
    OBVIOUS
  <2>9. /\ Active' = Rest \cup N /\ N \subseteq Frames /\ \A F \in N : FALSE
        /\ \A x \in visited' : x \in visited \/ OnStack(x)'
    BY <1>5, <2>6, <2>8
  <2> QED BY <1>1, <1>3, <1>5, <2>4, <2>5, <2>6, <2>7, <2>9, QuietStep
<1>8. CASE ~(f \in updated \/ command_state[f] \in {"running", "finished"})
  <2>1. PICK F : F = [Top EXCEPT !.at = "deps"]
    OBVIOUS
  <2>2. Goto(F) /\ updating' = updating \cup {f}
    BY <1>3, <1>6, <1>8, <2>1 DEF ConsiderTarget
  <2>3. /\ F \in UpdateFile1Frames /\ F.file = f /\ F.at = "deps" /\ F.i = Top.i
        /\ F.mtime = Top.mtime /\ F.must_make = Top.must_make /\ F.status = Top.status
        /\ F.running = Top.running
    BY <1>3, <1>4, <2>1 DEF UpdateFile1Frames
  <2>4. command_state[f] \in {"not_started", "deps_running"}
    BY <1>2, <1>8 DEF TypeOK, Busy
  <2>5. F.i = 1 /\ Asked(F) = {}
    <3>1. F.i = 1
      BY <1>1, <1>4, <2>3 DEF WalkSound
    <3>2. Len(deps[f]) \in Nat
      BY <1>2, LenProperties DEF TypeOK
    <3>3. \A j \in 1..Len(deps[f]) : ~(j < 1)
      BY <3>2
    <3> QED BY <2>3, <3>1, <3>3 DEF Asked
  <2>6. WalkSound(F)
    BY <1>1, <1>3, <1>4, <2>3, <2>4, <2>5 DEF WalkSound
  <2>7. WalkSeen(F)
    <3>1. command_state[f] = "deps_running" => WalkedFrom(f, 1)
      BY <1>1, <1>4 DEF PlainInv, PassSound, Walked, FileWalked
    <3> QED BY <2>3, <2>5, <3>1 DEF WalkSeen
  <2> QED BY <1>1, <1>3, <1>5, <2>2, <2>3, <2>6, <2>7, QuietWalk
<1> QED BY <1>7, <1>8

LEMMA PlainConsiderIntermediate ==
  ASSUME PlainInv, TypeInv', ConsiderIntermediate
  PROVE  PlainInv'
PROOF
<1>1. /\ stack # << >> /\ pc = "call" /\ Top.proc = "update_file_1" /\ Top.at = "intermediates"
      /\ UNCHANGED <<makefile, file, walk, jobs, recipe, goals, status>>
  BY DEF ConsiderIntermediate, At, In
<1>2. /\ TypeInv /\ TypeOK /\ makefile \in Makefiles /\ Plain(makefile)
  BY <1>1, TopFacts
<1>3. PICK f \in Files : f = Top.file
  BY <1>1, WalkFacts
<1>4. /\ Top \in UpdateFile1Frames /\ WalkSound(Top) /\ WalkSeen(Top)
  BY <1>1, WalkFacts
<1>5. Quiet /\ UNCHANGED <<goals, status, visited, updating>>
  BY <1>1 DEF Quiet, walk
<1>6. PICK F : /\ F \in UpdateFile1Frames /\ Goto(F) /\ F.file = f
               /\ F.at \in {"intermediates", "decide"}
               /\ F.mtime = Top.mtime /\ F.must_make = Top.must_make /\ F.status = Top.status
               /\ F.running = Top.running
  <2>1. CASE Top.i > Len(deps[Top.file])
    <3>1. PICK F : F = [Top EXCEPT !.at = "decide"]
      OBVIOUS
    <3>2. Goto(F)
      BY <2>1, <3>1 DEF ConsiderIntermediate
    <3>3. /\ F \in UpdateFile1Frames /\ F.file = f /\ F.at = "decide"
          /\ F.mtime = Top.mtime /\ F.must_make = Top.must_make /\ F.status = Top.status
          /\ F.running = Top.running
      BY <1>3, <1>4, <3>1 DEF UpdateFile1Frames
    <3> QED BY <3>2, <3>3
  <2>2. CASE ~(Top.i > Len(deps[Top.file]))
    <3>1. PICK F : F = [Top EXCEPT !.i = @ + 1]
      OBVIOUS
    <3>2. DepFile(f, Top.i) \notin makefile.intermediate
      BY <1>2 DEF Plain
    <3>3. Goto(F)
      BY <1>3, <2>2, <3>1, <3>2 DEF ConsiderIntermediate, DepFile
    <3>4. /\ F \in UpdateFile1Frames /\ F.file = f /\ F.at = "intermediates"
          /\ F.mtime = Top.mtime /\ F.must_make = Top.must_make /\ F.status = Top.status
          /\ F.running = Top.running
      BY <1>1, <1>3, <1>4, <3>1 DEF UpdateFile1Frames
    <3> QED BY <3>3, <3>4
  <2> QED BY <2>1, <2>2
<1>7. Asked(F) = Asked(Top)
  BY <1>1, <1>3, <1>6 DEF Asked
<1>8. WalkSound(F)
  BY <1>1, <1>3, <1>4, <1>6, <1>7 DEF WalkSound
<1>9. WalkSeen(F)
  BY <1>1, <1>3, <1>4, <1>6 DEF WalkSeen
<1> QED BY <1>1, <1>3, <1>5, <1>6, <1>8, <1>9, QuietWalk

LEMMA AfterDepsFrame ==
  ASSUME NEW F \in UpdateFile1Frames
  PROVE  \E G \in UpdateFile1Frames :
            /\ G = AfterDeps(F) /\ G.file = F.file /\ G.at \in {"intermediates", "decide"}
            /\ G.mtime = F.mtime /\ G.must_make = F.must_make /\ G.status = F.status
            /\ G.running = F.running
PROOF
<1>1. PICK at \in {"intermediates", "decide"} :
         at = IF F.must_make THEN "intermediates" ELSE "decide"
  OBVIOUS
<1>2. PICK H : H = [F EXCEPT !.i = 1]
  OBVIOUS
<1>3. /\ H \in UpdateFile1Frames /\ H.file = F.file
      /\ H.mtime = F.mtime /\ H.must_make = F.must_make /\ H.status = F.status
      /\ H.running = F.running
  BY <1>2 DEF UpdateFile1Frames
<1>4. PICK G : G = [H EXCEPT !.at = at]
  OBVIOUS
<1>5. /\ G \in UpdateFile1Frames /\ G.file = F.file /\ G.at \in {"intermediates", "decide"}
      /\ G.mtime = F.mtime /\ G.must_make = F.must_make /\ G.status = F.status
      /\ G.running = F.running
  BY <1>1, <1>3, <1>4 DEF UpdateFile1Frames
<1>6. G = AfterDeps(F)
  BY <1>1, <1>2, <1>4 DEF AfterDeps
<1> QED BY <1>5, <1>6

LEMMA PlainRemakeFile ==
  ASSUME PlainInv, TypeInv', RemakeFile
  PROVE  PlainInv'
PROOF
<1>1. /\ stack # << >> /\ pc = "call" /\ Top.proc = "update_file_1" /\ Top.at = "make"
      /\ Call([Top EXCEPT !.at = "made"], NewJob(Top.file))
      /\ UNCHANGED <<makefile, file, walk, jobs, recipe, goals, status>>
  BY DEF RemakeFile, At, In
<1>2. /\ TypeInv /\ StackOK /\ TypeOK /\ FilesOK /\ RestOK /\ PathSound
  BY <1>1, TopFacts
<1>3. PICK f \in Files : f = Top.file
  BY <1>1, WalkFacts
<1>4. /\ Top \in UpdateFile1Frames /\ WalkSound(Top) /\ (LaterPass => Seen(f))
  BY <1>1, <1>3, WalkFacts
<1>5. Quiet /\ UNCHANGED <<goals, status, visited, updating, deps>>
  BY <1>1 DEF Quiet, walk, file
<1>6. PICK F : F = [Top EXCEPT !.at = "made"]
  OBVIOUS
<1>7. /\ F \in UpdateFile1Frames /\ F.proc = "update_file_1" /\ F.file = f /\ F.at = "made"
      /\ F.mtime = Top.mtime /\ F.must_make = Top.must_make /\ F.status = Top.status
      /\ F.running = Top.running /\ F \in Frames
  BY <1>3, <1>4, <1>6 DEF UpdateFile1Frames, Frames
<1>8. PICK G : G = NewJob(f)
  OBVIOUS
<1>9. G \in Frames /\ G.proc = "new_job" /\ G.file = f /\ G.started = FALSE
  BY <1>2, <1>3, <1>8, NewFrames DEF NewJob
<1>10. Call(F, G)
  BY <1>1, <1>3, <1>6, <1>8
<1>11. PathSound'
  <2>1. Replaces(F, Top) /\ Waits(F) /\ Link(G, F) /\ Runs(G)
    BY <1>1, <1>3, <1>7, <1>9 DEF Replaces, Waits, Link, Runs
  <2>2. F.at # "deps" /\ Top.at \notin {"deps", "intermediates", "decide"}
    BY <1>1, <1>7
  <2> QED BY <1>1, <1>2, <1>5, <1>7, <1>9, <1>10, <2>1, <2>2, PathCall
<1>12. pc' = "call" /\ stack' # << >>
  BY <1>1, <1>2, <1>10, CallStack DEF Call
<1>13. AnswerSound'
  BY <1>12, NoAnswer
<1>14. PICK N : N = {F, G}
  OBVIOUS
<1>15. Active' = Rest \cup N /\ N \subseteq Frames
  BY <1>1, <1>2, <1>7, <1>9, <1>10, <1>14, NextFrames
<1>16. Asked(F) = Asked(Top)
  BY <1>1, <1>3, <1>7 DEF Asked
<1>17. WalkSound(F)
  BY <1>1, <1>3, <1>4, <1>7, <1>16 DEF WalkSound
<1>18. WalkSeen(F)
  BY <1>7 DEF WalkSeen
<1>19. JobSound(G)
  BY <1>1, <1>3, <1>4, <1>9 DEF WalkSound, JobSound
<1>20. \A H \in N : /\ FrameSound(H) /\ GoalsSeen(H) /\ (H.proc = "update_file_1" => WalkSeen(H))
                    /\ H.file \in Files /\ (LaterPass => Seen(H.file))
  BY <1>4, <1>7, <1>9, <1>14, <1>17, <1>18, <1>19 DEF FrameSound, GoalsSeen
<1>21. \E H \in N : /\ Of(H, f)
                    /\ Top.at \in {"make", "made"} => H.at \in {"make", "made"}
  BY <1>7, <1>14 DEF Of
<1>22. \A x \in visited' : x \in visited \/ OnStack(x)'
  BY <1>5
<1> QED BY <1>1, <1>3, <1>5, <1>11, <1>12, <1>13, <1>15, <1>20, <1>21, <1>22, QuietStep

LEMMA PlainDepsConsidered ==
  ASSUME PlainInv, TypeInv', stack # << >>, pc = "call", Top.proc = "update_file_1",
         Top.at = "deps", Top.i > Len(deps[Top.file]), ConsiderDep
  PROVE  PlainInv'
PROOF
<1>1. /\ Goto(AfterDeps(Top)) /\ UNCHANGED deps
      /\ UNCHANGED <<makefile, command_state, update_status, updated, last_mtime,
                     walk, jobs, recipe, goals, status>>
  BY DEF ConsiderDep
<1>2. PICK f \in Files : f = Top.file
  BY WalkFacts
<1>3. /\ Top \in UpdateFile1Frames /\ WalkSound(Top) /\ WalkSeen(Top)
  BY WalkFacts
<1>4. Quiet /\ UNCHANGED <<goals, status, visited, updating>>
  BY <1>1 DEF Quiet, walk, file
<1>5. PICK F \in UpdateFile1Frames :
            /\ F = AfterDeps(Top) /\ F.file = Top.file /\ F.at \in {"intermediates", "decide"}
            /\ F.mtime = Top.mtime /\ F.must_make = Top.must_make /\ F.status = Top.status
            /\ F.running = Top.running
  BY <1>3, AfterDepsFrame
<1>6. Len(deps[f]) \in Nat /\ Top.i \in Nat
  BY <1>3, LenProperties, TopFacts DEF TypeOK, UpdateFile1Frames
<1>7. Asked(F) = 1..Len(deps[f]) /\ Asked(Top) = 1..Len(deps[f])
  <2>1. \A j \in 1..Len(deps[f]) : j < Top.i
    BY <1>2, <1>6
  <2> QED BY <1>2, <1>5, <2>1 DEF Asked
<1>8. WalkSound(F)
  BY <1>2, <1>3, <1>5, <1>7 DEF WalkSound
<1>9. WalkedFrom(f, 1)
  <2>1. \A j \in 1..Len(deps[f]) : Seen(DepFile(f, j))
    BY <1>2, <1>3, <1>7 DEF WalkSeen
  <2>2. Len(deps[f]) \in 0..Len(deps[f]) /\ 1 - 1 <= Len(deps[f])
    BY <1>6
  <2> QED BY <2>1, <2>2 DEF WalkedFrom
<1>10. WalkSeen(F)
  BY <1>2, <1>5, <1>9 DEF WalkSeen
<1> QED BY <1>1, <1>2, <1>4, <1>5, <1>8, <1>10, QuietWalk

(* In a later pass the prerequisite a walk comes to has been seen to.      *)
LEMMA NextSeen ==
  ASSUME PlainInv, stack # << >>, Top.proc = "update_file_1", Top.at = "deps",
         LaterPass, NEW f, f = Top.file, Top.i \in 1..Len(deps[f])
  PROVE  Seen(DepFile(f, Top.i))
PROOF
<1>1. /\ WalkSound(Top) /\ WalkSeen(Top) /\ Seen(f) /\ f \in Files
      /\ \A F \in Rest : F.proc = "update_file_1" => F.file # f
  BY WalkFacts
<1>2. Active = Rest \cup {Top}
  BY ActiveFrames, TopFacts
<1>3. ~Making(f)
  BY <1>1, <1>2 DEF Making, Of
<1>4. command_state[f] = "deps_running"
  BY <1>1, <1>3 DEF Seen, Begun, WalkSound
<1>5. WalkedFrom(f, Top.i)
  BY <1>1, <1>4 DEF WalkSeen
<1>6. PICK m \in 0..Len(deps[f]) :
          /\ \A j \in 1..m : Seen(DepFile(f, j))
          /\ m = Len(deps[f]) \/ Top.i <= m
  BY <1>5 DEF WalkedFrom
<1>7. Len(deps[f]) \in Nat
  BY <1>1, LenProperties, TopFacts DEF TypeOK
<1>8. Top.i \in 1..m
  BY <1>6, <1>7
<1> QED BY <1>6, <1>8

LEMMA PlainCheckDep ==
  ASSUME PlainInv, TypeInv', stack # << >>, pc = "call", Top.proc = "update_file_1",
         Top.at = "deps", ~(Top.i > Len(deps[Top.file])),
         ~Circular(deps[Top.file][Top.i]), ConsiderDep
  PROVE  PlainInv'
PROOF
<1>1. /\ Call(Top, CheckDep(DepFile(Top.file, Top.i), Top.mtime, Top.must_make))
      /\ UNCHANGED deps
      /\ UNCHANGED <<makefile, command_state, update_status, updated, last_mtime,
                     walk, jobs, recipe, goals, status>>
  BY DEF ConsiderDep, DepFile
<1>2. PICK f \in Files : f = Top.file
  BY WalkFacts
<1>3. /\ Top \in UpdateFile1Frames /\ WalkSound(Top) /\ WalkSeen(Top)
      /\ f \in updating /\ (LaterPass => Seen(f))
  BY <1>2, WalkFacts
<1>4. /\ TypeInv /\ StackOK /\ TypeOK /\ FilesOK /\ RestOK /\ PathSound /\ Top \in Frames
      /\ makefile \in Makefiles /\ Plain(makefile) /\ Top = stack[1] /\ FrameSound(Top)
      /\ Len(stack) \in Nat \ {0} /\ GoalsSeen(Top)
  BY TopFacts
<1>5. Quiet /\ UNCHANGED <<goals, status, visited, updating, deps>>
  BY <1>1 DEF Quiet, walk, file
<1>6. Len(deps[f]) \in Nat /\ Top.i \in 1..Len(deps[f])
  BY <1>2, <1>3, <1>4, LenProperties DEF TypeOK, UpdateFile1Frames
<1>7. PICK d \in Files : d = DepFile(f, Top.i)
  BY <1>4, <1>6, DepFiles
<1>8. d \notin updating
  BY <1>2, <1>4, <1>7, PlainEntries DEF Circular, DepFile
<1>9. Top.mtime \in Nat /\ Top.must_make \in BOOLEAN
  BY <1>3 DEF UpdateFile1Frames
<1>10. PICK G : G = CheckDep(d, Top.mtime, Top.must_make)
  OBVIOUS
<1>11. /\ G \in Frames /\ G.proc = "check_dep" /\ G.file = d /\ G.at = "entry"
       /\ G.mtime = Top.mtime /\ G.must_make = Top.must_make
  BY <1>4, <1>9, <1>10, NewFrames DEF CheckDep
<1>12. Call(Top, G)
  BY <1>1, <1>2, <1>7, <1>10
<1>13. \A k \in Depth : Considering(k) => stack[k].file # G.file
  <2> SUFFICES ASSUME NEW k \in Depth, Considering(k) PROVE stack[k].file \in updating
    BY <1>8, <1>11
  <2>1. CASE k = 1
    BY <1>2, <1>3, <1>4, <2>1
  <2>2. CASE k # 1
    <3>1. k \in 2..Len(stack)
      BY <1>4, <2>2 DEF Depth
    <3> QED BY <3>1, RestWalking
  <2> QED BY <2>1, <2>2
<1>14. PathSound'
  <2>1. Replaces(Top, Top) /\ Waits(Top) /\ Link(G, Top) /\ Runs(G)
    BY <1>2, <1>6, <1>7, <1>11 DEF Replaces, Waits, Link, Runs
  <2> QED BY <1>4, <1>5, <1>11, <1>12, <1>13, <2>1, PathCall
<1>15. pc' = "call" /\ stack' # << >>
  BY <1>4, <1>12, CallStack DEF Call
<1>16. AnswerSound'
  BY <1>15, NoAnswer
<1>17. PICK N : N = {Top, G}
  OBVIOUS
<1>18. Active' = Rest \cup N /\ N \subseteq Frames
  BY <1>4, <1>11, <1>12, <1>17, NextFrames
<1>19. LaterPass => Seen(d)
  BY <1>2, <1>6, <1>7, NextSeen
<1>20. \A H \in N : /\ FrameSound(H) /\ GoalsSeen(H) /\ (H.proc = "update_file_1" => WalkSeen(H))
                    /\ H.file \in Files /\ (LaterPass => Seen(H.file))
  BY <1>2, <1>3, <1>4, <1>11, <1>17, <1>19, <1>7 DEF FrameSound, GoalsSeen
<1>21. Of(Top, f) /\ Top \in N
  BY <1>2, <1>17 DEF Of
<1>22. \A x \in visited' : x \in visited \/ OnStack(x)'
  BY <1>5
<1>23. PICK T \in N : Of(T, f) /\ T.at = "deps"
  BY <1>21
<1> QED BY <1>2, <1>5, <1>14, <1>15, <1>16, <1>18, <1>20, <1>22, <1>23, QuietStep

-----------------------------------------------------------------------------
(* A step that changes something about one file.                           *)
LEMMA FileStep ==
  ASSUME PlainInv, TypeInv', PathSound', AnswerSound', FilesSound', stack # << >>,
         NEW f \in Files, Concerns(f), RestSame, UNCHANGED <<goals, status>>,
         Top.proc = "update_file_1" => f = Top.file,
         NEW N, Active' = Rest \cup N, \A F \in N : FrameSound(F)',
         Begun(f) => Seen(f)',
         Top.proc = "update_file_1" =>
            \/ command_state'[Top.file] # "not_started"
            \/ \E F \in N : /\ Of(F, Top.file)
                            /\ Top.at \in {"make", "made"} => F.at \in {"make", "made"},
         SeenOn => FileWalked(f)',
         \A x \in visited' : x \in visited \/ OnStack(x)',
         SeenOn => \A F \in N : F.proc = "update_file_1" => WalkSeen(F)',
         \A F \in N : F.proc # "update_goal_chain" =>
            F.file \in Files /\ (LaterPass => Seen(F.file)),
         \A F \in N : GoalsSeen(F),
         stack' = << >> /\ pc' = "done" => goals = << >>
  PROVE  PlainInv'
PROOF
<1>1. /\ TypeInv /\ Plain(makefile) /\ PathSound /\ FramesSound /\ PassSound /\ GoalsSound
  BY DEF PlainInv, PathSound
<1>2. makefile' = makefile
  BY DEF Concerns
<1>3. FramesSound'
  BY <1>1, FramesStep
<1>4. SeenOn /\ BegunOn
  BY <1>1, SeenStep
<1>5. PassSound'
  BY <1>1, <1>4, PassStep
<1>6. GoalsSound'
  BY <1>1, GoalsStay
<1> QED BY <1>1, <1>2, <1>3, <1>5, <1>6 DEF PlainInv, PathSound, Plain

LEMMA DieStep ==
  ASSUME PlainInv, TypeInv', Die, NEW f \in Files, Concerns(f), FilesSound',
         UNCHANGED <<goals, status>>
  PROVE  PlainInv'
PROOF
<1>1. TypeInv /\ Plain(makefile) /\ GoalsSound
  BY DEF PlainInv
<1>2. stack' = << >> /\ pc' = "die" /\ makefile' = makefile
  BY DEF Die, Concerns
<1>3. PathSound' /\ PassSound' /\ Active' = {}
  BY <1>2, PathEnds DEF PassSound, Active, Depth
<1>4. FramesSound'
  BY <1>3 DEF FramesSound
<1>5. GoalsSound'
  BY <1>1, <1>2, GoalsStay
<1>6. AnswerSound'
  BY <1>2, NoAnswer
<1> QED BY <1>1, <1>2, <1>3, <1>4, <1>5, <1>6 DEF PlainInv, PathSound, Plain

-----------------------------------------------------------------------------
(* A circular prerequisite is dropped: it is still being looked at.        *)
LEMMA CheckedBelow ==
  ASSUME PlainInv, Top.proc = "update_file_1", NEW k \in 2..Len(stack),
         stack[k].proc = "check_dep"
  PROVE  k - 2 \in Depth /\ Considering(k - 2) /\ stack[k - 2].file = stack[k].file
PROOF
<1>0. stack # << >>
  BY EmptySeq
<1>1. /\ Linked /\ StackOK /\ Top = stack[1] /\ Len(stack) \in Nat \ {0}
  BY <1>0, TopFacts DEF PathSound
<1>2. k \in Depth /\ k - 1 \in Depth /\ k - 1 < Len(stack) /\ (k - 1) + 1 = k
  BY <1>1 DEF Depth
<1>3. Link(stack[k - 1], stack[k])
  BY <1>1, <1>2 DEF Linked
<1>4. \A q \in Depth : q < Len(stack) =>
         stack[q].proc \in {"update_file", "update_file_1", "check_dep", "new_job"}
  <2> TAKE q \in Depth
  <2> HAVE q < Len(stack)
  <2>1. stack[q] \in Frames /\ stack[q].proc # "update_goal_chain"
    BY <1>1, ElementOfSeq DEF StackOK, Depth
  <2> QED BY <2>1 DEF Frames, GoalsFrames, UpdateFileFrames, UpdateFile1Frames,
                      CheckDepFrames, NewJobFrames
<1>5. stack[k - 1].proc = "update_file" /\ stack[k - 1].file = stack[k].file
  BY <1>2, <1>3, <1>4 DEF Link
<1>6. k - 1 # 1
  BY <1>1, <1>5
<1>7. k - 2 \in Depth /\ k - 2 < Len(stack) /\ (k - 2) + 1 = k - 1
  BY <1>1, <1>2, <1>6 DEF Depth
<1>8. Link(stack[k - 2], stack[k - 1])
  BY <1>1, <1>7 DEF Linked
<1>9. stack[k - 2].proc = "update_file_1" /\ stack[k - 2].file = stack[k - 1].file
  BY <1>4, <1>5, <1>7, <1>8 DEF Link
<1> QED BY <1>5, <1>7, <1>9 DEF Considering

LEMMA UpdatingOpen ==
  ASSUME PlainInv, stack # << >>, Top.proc = "update_file_1", Top.at = "deps",
         NEW d \in updating
  PROVE  d \notin updated
PROOF
<1>1. /\ OnPath /\ FramesSound /\ FilesSound /\ StackOK
      /\ Top = stack[1] /\ Len(stack) \in Nat \ {0}
  BY TopFacts DEF PathSound, PlainInv
<1>2. \A k \in Depth : k = 1 \/ k \in 2..Len(stack)
  BY <1>1 DEF Depth
<1>3. PICK k \in Depth :
        /\ stack[k].file = d
        /\ \/ Considering(k) /\ stack[k].at \in {"deps", "intermediates", "decide"}
           \/ stack[k].proc = "check_dep" /\ stack[k].at = "updated"
  BY <1>1 DEF OnPath
<1>4. PICK q \in Depth : Considering(q) /\ stack[q].file = d
  <2>1. CASE Considering(k)
    BY <1>3, <2>1
  <2>2. CASE stack[k].proc = "check_dep"
    <3>1. k \in 2..Len(stack)
      BY <1>1, <1>2, <2>2
    <3> QED BY <1>3, <2>2, <3>1, CheckedBelow
  <2> QED BY <1>3, <2>1, <2>2
<1>5. stack[q].at = "deps"
  <2>1. CASE q = 1
    BY <1>1, <2>1
  <2>2. CASE q \in 2..Len(stack)
    BY <1>4, <2>2, RestWalking
  <2> QED BY <1>2, <2>1, <2>2
<1>6. WalkSound(stack[q]) /\ d \in Files
  BY <1>1, <1>4, FrameOfStack DEF FramesSound, FrameSound, Active, Considering, Depth
<1>7. command_state[d] \in {"not_started", "deps_running"}
  BY <1>4, <1>5, <1>6 DEF WalkSound
<1> QED BY <1>1, <1>6, <1>7 DEF FilesSound, FileSound

LEMMA PlainDropDep ==
  ASSUME PlainInv, TypeInv', stack # << >>, pc = "call", Top.proc = "update_file_1",
         Top.at = "deps", ~(Top.i > Len(deps[Top.file])),
         Circular(deps[Top.file][Top.i]), ConsiderDep
  PROVE  PlainInv'
PROOF
<1>1. /\ Goto(Top) /\ DropDep(Top.file, Top.i)
      /\ UNCHANGED <<makefile, command_state, update_status, updated, last_mtime,
                     walk, jobs, recipe, goals, status>>
  BY DEF ConsiderDep
<1>2. PICK f \in Files, T \in UpdateFile1Frames : f = Top.file /\ T = Top
  BY WalkFacts
<1>3. /\ TypeInv /\ StackOK /\ TypeOK /\ PathSound /\ T \in Frames
      /\ makefile \in Makefiles /\ Plain(makefile) /\ FilesSound /\ FramesSound
  BY <1>2, TopFacts DEF PlainInv
<1>4. /\ T.proc = "update_file_1" /\ T.at = "deps" /\ T.file = f /\ T.i \in Nat \ {0}
      /\ WalkSound(T) /\ WalkSeen(T) /\ f \in updating /\ (LaterPass => Seen(f))
      /\ FileSound(f)
  BY <1>2, WalkFacts DEF UpdateFile1Frames
<1>5. deps[f] \in Seq(Dep) /\ Len(deps[f]) \in Nat /\ T.i \in 1..Len(deps[f])
  BY <1>2, <1>3, <1>4, LenProperties DEF TypeOK
<1>6. PICK d \in Files : d = DepFile(f, T.i)
  BY <1>3, <1>5, DepFiles
<1>7. d \in updating /\ d \notin updated
  <2>1. d \in updating
    BY <1>2, <1>3, <1>6, PlainEntries DEF Circular, DepFile
  <2> QED BY <1>2, <1>4, <2>1, UpdatingOpen
<1>8. /\ deps'[f] = RemoveAt(deps[f], T.i)
      /\ \A g \in Files \ {f} : deps'[g] = deps[g]
  BY <1>1, <1>2, <1>3 DEF DropDep, TypeOK
<1>9. /\ Len(deps'[f]) = Len(deps[f]) - 1
      /\ \A j \in 1..(Len(deps[f]) - 1) :
            deps'[f][j] = IF j < T.i THEN deps[f][j] ELSE deps[f][j + 1]
  BY <1>5, <1>8, RemoveAtProperties
<1>10. UNCHANGED <<command_state, updated, update_status, last_mtime, jobs, recipe, makefile,
                   visited, updating, goals, status>>
  BY <1>1 DEF walk
<1>11. command_state[f] \in {"not_started", "deps_running"} /\ f \notin updated
  BY <1>4 DEF WalkSound, FileSound
<1>12. Concerns(f)
  BY <1>8, <1>10, <1>11 DEF Concerns, Same
<1>13. FileSound(f)'
  BY <1>4, <1>10, <1>11 DEF FileSound, Made
<1>14. FilesSound'
  BY <1>3, <1>12, <1>13, FilesSoundStays
<1>15. DepsBelow
  <2> SUFFICES ASSUME NEW k \in 2..Len(stack), Considering(k)
               PROVE  deps'[stack[k].file] = deps[stack[k].file]
    BY DEF DepsBelow
  <2>1. stack[k].file # f /\ stack[k].file \in Files
    <3>1. k \in 1..Len(stack)
      BY <1>3, LenProperties DEF StackOK
    <3> QED BY <1>2, <1>3, <3>1, WalkFacts, FrameOfStack
  <2> QED BY <1>8, <2>1
<1>16. RestSame
  BY <1>2, <1>3, <1>12, <1>15, RestStays
<1>17. Goto(T)
  BY <1>1, <1>2
<1>18. PathSound'
  <2>1. Replaces(T, Top) /\ Runs(T)
    BY <1>2, <1>4 DEF Replaces, Runs
  <2> QED BY <1>3, <1>4, <1>10, <1>15, <1>17, <2>1, PathGoto
<1>19. AnswerSound' /\ stack' # << >>
  BY <1>3, <1>17, NoAnswer, GotoStack DEF Goto
<1>20. PICK N : N = {T}
  OBVIOUS
<1>21. Active' = Rest \cup N
  BY <1>3, <1>17, <1>20, NextFrames
<1>22. Asked(T)' \subseteq Asked(T)
       /\ \A j \in Asked(T)' : deps'[f][j] = deps[f][j] /\ j \in 1..Len(deps[f])
  BY <1>4, <1>5, <1>9 DEF Asked
<1>23. WalkSound(T)'
  BY <1>4, <1>10, <1>22 DEF WalkSound, DepFile, Made, Recent, Fatal
<1>24. SeenOn => WalkSeen(T)'
  <2> SUFFICES ASSUME SeenOn PROVE WalkSeen(T)'
    OBVIOUS
  <2>1. \A g : g \in Files /\ Seen(g) => Seen(g)'
    BY DEF SeenOn
  <2>2. \A j \in Asked(T)' : Seen(DepFile(f, j))'
    <3> TAKE j \in Asked(T)'
    <3>1. j \in Asked(T) /\ DepFile(f, j)' = DepFile(f, j) /\ DepFile(f, j) \in Files
      BY <1>3, <1>22, DepFiles DEF DepFile
    <3>2. Seen(DepFile(f, j))
      BY <1>4, <3>1 DEF WalkSeen
    <3> QED BY <2>1, <3>1, <3>2 DEF Seen, Begun, Making, Active, Depth, Of
  <2>3. ASSUME command_state[f] = "deps_running" PROVE WalkedFrom(f, T.i)'
    <3>1. PICK m \in 0..Len(deps[f]) :
              /\ T.i - 1 <= m
              /\ \A j \in 1..m : Seen(DepFile(f, j))
              /\ \/ m = Len(deps[f])
                 \/ /\ T.i <= m /\ ~makefile.keep_going
                    /\ DepFile(f, m) \in updated /\ update_status[DepFile(f, m)] > 0
      BY <1>4, <2>3 DEF WalkSeen, WalkedFrom
    <3>2. PICK n \in 0..Len(deps'[f]) : n = m - 1 /\ m \in Nat /\ m >= T.i
      BY <1>5, <1>9, <3>1
    <3>3. \A j \in 1..n : Seen(DepFile(f, j))'
      <4> TAKE j \in 1..n
      <4>1. PICK q \in 1..m : q = IF j < T.i THEN j ELSE j + 1
        BY <3>2
      <4>2. deps'[f][j] = deps[f][q] /\ q \in 1..Len(deps[f])
        BY <1>5, <1>9, <3>2, <4>1
      <4>3. PICK e : e = DepFile(f, q)
        OBVIOUS
      <4>4. e \in Files /\ DepFile(f, j)' = e /\ Seen(e)
        BY <1>3, <3>1, <4>1, <4>2, <4>3, DepFiles DEF DepFile
      <4>5. Seen(e)'
        BY <2>1, <4>4
      <4> QED BY <4>4, <4>5 DEF Seen, Begun, Making, Active, Depth, Of
    <3>4. \/ n = Len(deps'[f])
          \/ /\ T.i <= n /\ ~makefile'.keep_going
             /\ DepFile(f, n)' \in updated' /\ update_status'[DepFile(f, n)'] > 0
      <4>1. CASE m = Len(deps[f])
        BY <1>9, <3>2, <4>1
      <4>2. CASE m # Len(deps[f])
        <5>1. ~makefile.keep_going /\ DepFile(f, m) \in updated
              /\ update_status[DepFile(f, m)] > 0
          BY <3>1, <4>2
        <5>2. m # T.i
          BY <1>6, <1>7, <5>1
        <5>3. T.i <= n /\ n \in 1..(Len(deps[f]) - 1) /\ ~(n < T.i) /\ n + 1 = m
          BY <1>4, <1>9, <3>2, <5>2
        <5>4. deps'[f][n] = deps[f][m]
          BY <1>9, <5>3
        <5>5. DepFile(f, n)' = DepFile(f, m)
          BY <5>4 DEF DepFile
        <5> QED BY <1>10, <5>1, <5>3, <5>5
      <4> QED BY <4>1, <4>2
    <3>5. T.i - 1 <= n
      BY <1>4, <3>2
    <3> QED BY <3>2, <3>3, <3>4, <3>5 DEF WalkedFrom
  <2> QED BY <1>4, <1>10, <2>2, <2>3 DEF WalkSeen
<1>25. \A F \in N : /\ FrameSound(F)' /\ GoalsSeen(F) /\ F.file \in Files
                    /\ (LaterPass => Seen(F.file)) /\ (SeenOn => WalkSeen(F)')
  BY <1>4, <1>20, <1>23, <1>24 DEF FrameSound, GoalsSeen
<1>26. Of(T, f) /\ T \in N
  BY <1>4, <1>20 DEF Of
<1>27. FileWalked(f)'
  <2>1. Walking(f)'
    BY <1>4, <1>21, <1>26 DEF Walking, Of
  <2> QED BY <2>1 DEF FileWalked
<1>28. Begun(f) => Seen(f)'
  BY <1>10 DEF Begun, Seen
<1>29. \E F \in N : /\ Of(F, Top.file)
                    /\ Top.at \in {"make", "made"} => F.at \in {"make", "made"}
  BY <1>2, <1>26
<1>30. \A x \in visited' : x \in visited \/ OnStack(x)'
  BY <1>10
<1> QED BY <1>2, <1>10, <1>12, <1>14, <1>16, <1>18, <1>19, <1>21, <1>25, <1>27, <1>28,
           <1>29, <1>30, FileStep

LEMMA PlainConsiderDep ==
  ASSUME PlainInv, TypeInv', ConsiderDep
  PROVE  PlainInv'
PROOF
<1>1. /\ stack # << >> /\ pc = "call" /\ Top.proc = "update_file_1" /\ Top.at = "deps"
  BY DEF ConsiderDep, At, In
<1> QED BY <1>1, PlainDepsConsidered, PlainCheckDep, PlainDropDep

LEMMA PlainDepConsidered ==
  ASSUME PlainInv, TypeInv', DepConsidered
  PROVE  PlainInv'
PROOF
<1>1. /\ stack # << >> /\ pc = "return" /\ Top.proc = "update_file_1" /\ Top.at = "deps"
      /\ UNCHANGED <<makefile, file, walk, jobs, recipe, goals, status>>
  BY DEF DepConsidered, At, In
<1>2. PICK f \in Files, T \in UpdateFile1Frames : f = Top.file /\ T = Top
  BY <1>1, WalkFacts
<1>3. /\ TypeInv /\ StackOK /\ TypeOK /\ Waits(Top)
      /\ makefile \in Makefiles /\ Plain(makefile) /\ FilesSound /\ AnswerSound
  BY <1>1, TopFacts DEF PlainInv
<1>4. /\ T.proc = "update_file_1" /\ T.at = "deps" /\ T.file = f /\ T.i \in Nat \ {0}
      /\ T.status \in 0..2 /\ T.must_make \in BOOLEAN /\ T.running \in BOOLEAN
      /\ T.mtime \in Nat
      /\ WalkSound(T) /\ WalkSeen(T) /\ f \in updating
  BY <1>1, <1>2, WalkFacts DEF UpdateFile1Frames
<1>5. Len(deps[f]) \in Nat /\ T.i \in 1..Len(deps[f])
  BY <1>1, <1>2, <1>3, <1>4, LenProperties DEF TypeOK, Waits
<1>6. PICK d \in Files : d = DepFile(f, T.i)
  BY <1>3, <1>5, DepFiles
<1>7. /\ Answers(d)
      /\ ~ret.must_make => ~T.must_make /\ last_mtime[d] \in 1..T.mtime
      /\ ret.status \in 0..2 /\ ret.must_make \in BOOLEAN
  BY <1>1, <1>2, <1>3, <1>6 DEF AnswerSound, TypeOK
<1>8. Quiet /\ UNCHANGED <<goals, status, visited, updating>>
  BY <1>1 DEF Quiet, walk
<1>9. PICK s \in 0..2, b \in BOOLEAN, r \in BOOLEAN, i \in Nat \ {0} :
        /\ s = Or(T.status, ret.status)
        /\ b = IF deps[f][T.i].ignore_mtime THEN T.must_make ELSE ret.must_make
        /\ r = (T.running \/ AnyBusy(d))
        /\ i = T.i + 1
  <2>1. Or(T.status, ret.status) \in 0..2
    BY <1>4, <1>7 DEF Or
  <2>2. (IF deps[f][T.i].ignore_mtime THEN T.must_make ELSE ret.must_make) \in BOOLEAN
    BY <1>4, <1>7
  <2>3. (T.running \/ AnyBusy(d)) \in BOOLEAN
    OBVIOUS
  <2>4. T.i + 1 \in Nat \ {0}
    BY <1>4
  <2> QED BY <2>1, <2>2, <2>3, <2>4, Zenon
<1>10. PICK G \in UpdateFile1Frames :
            /\ G = [T EXCEPT !.status = s, !.must_make = b, !.running = r, !.i = i]
            /\ G.file = T.file /\ G.at = T.at /\ G.mtime = T.mtime
            /\ G.status = s /\ G.must_make = b /\ G.running = r /\ G.i = i
  <2>1. PICK G : G = [T EXCEPT !.status = s, !.must_make = b, !.running = r, !.i = i]
    OBVIOUS
  <2>2. /\ G \in UpdateFile1Frames
        /\ G.file = T.file /\ G.at = T.at /\ G.mtime = T.mtime
        /\ G.status = s /\ G.must_make = b /\ G.running = r /\ G.i = i
    BY <2>1 DEF UpdateFile1Frames
  <2> QED BY <2>1, <2>2
<1>11. Goto(IF Fatal(G.status) THEN AfterDeps(G) ELSE G)
  <2> DEFINE e == deps[Top.file][Top.i]
             s1 == Or(Top.status, ret.status)
             b1 == IF e.ignore_mtime THEN Top.must_make ELSE ret.must_make
             r1 == (Top.running \/ AnyBusy(e.file))
             i1 == Top.i + 1
             next == [Top EXCEPT !.status = s1, !.must_make = b1, !.running = r1, !.i = i1]
  <2>1. Goto(IF Fatal(next.status) THEN AfterDeps(next) ELSE next)
    BY Zenon DEF DepConsidered
  <2>2. s1 = s /\ b1 = b /\ i1 = i
    BY <1>2, <1>9
  <2>3. e.file = d
    BY <1>2, <1>6 DEF DepFile
  <2>4. r1 = r
    BY <1>2, <1>9, <2>3
  <2> HIDE DEF s1, b1, r1, i1
  <2>5. next = G
    BY <1>2, <1>10, <2>2, <2>4
  <2> QED BY <2>1, <2>5
<1>12. r <=> T.running \/ command_state[d] \in Busy
  <2>1. AnyBusy(d) <=> command_state[d] \in Busy
    BY <1>3, PlainEntries
  <2> QED BY <1>9, <2>1
<1>13. /\ d \in updated => /\ ret.status = update_status[d] /\ Begun(d)
                           /\ command_state[d] = "finished"
       /\ d \notin updated => ret.status = 0 /\ command_state[d] \in Busy /\ Begun(d)
  <2>1. FileSound(d)
    BY <1>3 DEF FilesSound
  <2> QED BY <1>7, <2>1 DEF Answers, Busy, Begun, FileSound
<1>14. /\ s = 0 <=> T.status = 0 /\ ret.status = 0
       /\ Fatal(s) => ~makefile.keep_going /\ ret.status > 0
       /\ ~Fatal(s) => s = 0 \/ makefile.keep_going
       /\ ~Fatal(T.status)
  <2>1. ~Fatal(T.status)
    BY <1>4 DEF WalkSound
  <2> QED BY <1>4, <1>7, <1>9, <2>1 DEF Or, Fatal
<1>15. \A j \in 1..T.i : Seen(DepFile(f, j))
  <2> TAKE j \in 1..T.i
  <2>1. CASE j = T.i
    BY <1>6, <1>13, <2>1 DEF Seen
  <2>2. CASE j # T.i
    <3>1. j \in Asked(T)
      BY <1>4, <1>5, <2>2 DEF Asked
    <3> QED BY <1>4, <3>1 DEF WalkSeen
  <2> QED BY <2>1, <2>2
<1>16. CASE Fatal(s)
  <2>1. PICK F \in UpdateFile1Frames :
            /\ F = AfterDeps(G) /\ F.file = G.file /\ F.at \in {"intermediates", "decide"}
            /\ F.mtime = G.mtime /\ F.must_make = G.must_make /\ F.status = G.status
            /\ F.running = G.running
    BY AfterDepsFrame
  <2>2. Goto(F)
    BY <1>10, <1>11, <1>16, <2>1
  <2>3. ~F.must_make => F.mtime > 0
    BY <1>4, <1>7, <1>9, <1>10, <2>1 DEF WalkSound
  <2>4. WalkSound(F)
    BY <1>4, <1>10, <1>16, <2>1, <2>3 DEF WalkSound
  <2>5. WalkedFrom(f, 1)
    <3>1. d \in updated /\ update_status[d] > 0 /\ ~makefile.keep_going
      BY <1>13, <1>14, <1>16
    <3>2. T.i \in 0..Len(deps[f]) /\ 1 - 1 <= T.i /\ 1 <= T.i
      BY <1>5
    <3> QED BY <1>6, <1>15, <3>1, <3>2 DEF WalkedFrom
  <2>6. WalkSeen(F)
    BY <1>4, <1>10, <2>1, <2>5 DEF WalkSeen
  <2>7. F.file = f /\ F.at \in {"deps", "intermediates", "decide"} /\ F.at # "deps"
    BY <1>4, <1>10, <2>1
  <2> QED BY <1>1, <1>2, <1>8, <2>2, <2>4, <2>6, <2>7, QuietWalk
<1>17. CASE ~Fatal(s)
  <2>1. Goto(G) /\ G.file = f /\ G.at = "deps" /\ G.i = T.i + 1
    BY <1>4, <1>9, <1>10, <1>11, <1>17
  <2>2. \A j \in Asked(G) : j = T.i \/ j \in Asked(T)
    BY <1>4, <1>5, <2>1 DEF Asked
  <2>3. ~G.must_make => ~T.must_make
    BY <1>7, <1>9, <1>10
  <2>4. ASSUME ~r, NEW j \in Asked(G)
        PROVE  /\ DepFile(f, j) \in updated
               /\ s = 0 => Made(DepFile(f, j))
               /\ ~b => Recent(f, j, T.mtime)
    <3>1. ~T.running /\ command_state[d] \notin Busy
      BY <1>12, <2>4
    <3>2. CASE j = T.i
      <4>1. d \in updated /\ ret.status = update_status[d]
        BY <1>13, <3>1
      <4>2. s = 0 => Made(d)
        BY <1>14, <4>1 DEF Made
      <4>3. ~b => Recent(f, j, T.mtime)
        BY <1>6, <1>7, <1>9, <3>2 DEF Recent
      <4> QED BY <1>6, <3>2, <4>1, <4>2, <4>3
    <3>3. CASE j \in Asked(T)
      BY <1>4, <1>10, <1>14, <2>3, <3>1, <3>3 DEF WalkSound
    <3> QED BY <2>2, <3>2, <3>3
  <2>5. WalkSound(G)
    BY <1>4, <1>10, <1>17, <2>1, <2>3, <2>4 DEF WalkSound
  <2>6. command_state[f] = "deps_running" => WalkedFrom(f, i)
    <3> SUFFICES ASSUME command_state[f] = "deps_running" PROVE WalkedFrom(f, i)
      OBVIOUS
    <3>1. PICK m \in 0..Len(deps[f]) :
              /\ T.i - 1 <= m
              /\ \A j \in 1..m : Seen(DepFile(f, j))
              /\ \/ m = Len(deps[f])
                 \/ /\ T.i <= m /\ ~makefile.keep_going
                    /\ DepFile(f, m) \in updated /\ update_status[DepFile(f, m)] > 0
      BY <1>4 DEF WalkSeen, WalkedFrom
    <3>2. m # Len(deps[f]) => m # T.i
      <4>1. d \in updated /\ update_status[d] > 0 => ret.status > 0
        BY <1>13
      <4> QED BY <1>6, <1>7, <1>14, <1>17, <3>1, <4>1
    <3>3. i - 1 <= m /\ (m # Len(deps[f]) => i <= m)
      BY <1>5, <1>9, <3>1, <3>2
    <3>4. \/ m = Len(deps[f])
          \/ /\ i <= m /\ ~makefile.keep_going
             /\ DepFile(f, m) \in updated /\ update_status[DepFile(f, m)] > 0
      BY <3>1, <3>3
    <3> HIDE DEF Seen, DepFile
    <3> QED BY <3>1, <3>3, <3>4 DEF WalkedFrom
  <2>7. \A j \in Asked(G) : Seen(DepFile(f, j))
    <3>1. \A j \in Asked(G) : j \in 1..T.i
      BY <1>4, <1>5, <2>1 DEF Asked
    <3> QED BY <1>15, <3>1
  <2>8. WalkSeen(G)
    BY <1>10, <2>1, <2>6, <2>7 DEF WalkSeen
  <2> QED BY <1>1, <1>2, <1>4, <1>8, <2>1, <2>5, <2>8, QuietWalk
<1> QED BY <1>16, <1>17

-----------------------------------------------------------------------------
(* update_file_1 of a plain makefile decides, and is done with the target. *)
LEMMA AllAsked ==
  ASSUME PlainInv, stack # << >>, Top.proc = "update_file_1", NEW f, f = Top.file,
         Top.at \notin {"entry", "deps"}, ~Top.running
  PROVE  /\ makefile.keep_going \/ Top.status = 0 =>
               \A j \in 1..Len(deps[f]) : DepFile(f, j) \in updated
         /\ Top.status = 0 => DepsMade(f)
         /\ Top.status = 0 /\ ~Top.must_make =>
               /\ Top.mtime > 0
               /\ \A j \in 1..Len(deps[f]) : Recent(f, j, Top.mtime)
         /\ Top.at # "made" => Top.mtime = last_mtime[f]
PROOF
<1>1. WalkSound(Top)
  BY WalkFacts
<1>2. Asked(Top) = 1..Len(deps[f])
  BY DEF Asked
<1>3. makefile.keep_going \/ Top.status = 0 => ~Fatal(Top.status)
  BY DEF Fatal
<1> QED BY <1>1, <1>2, <1>3 DEF WalkSound, DepsMade

LEMMA FileReturns ==
  ASSUME PlainInv, TypeInv', stack # << >>, Top.proc = "update_file_1",
         NEW f \in Files, f = Top.file, Concerns(f), f \notin updated => FileSound(f)',
         UNCHANGED <<deps, goals, status, visited>>,
         NEW s, Return(s, FALSE),
         updating \ {f} \subseteq updating', updating' \subseteq updating,
         Top.at \in {"deps", "intermediates", "decide"} => f \notin updating',
         command_state'[f] # "not_started",
         \/ f \in updated' /\ s = update_status'[f]
         \/ command_state'[f] \in Busy /\ s = 0,
         SeenOn => FileWalked(f)'
  PROVE  PlainInv'
PROOF
<1>1. /\ TypeInv /\ StackOK /\ PathSound /\ FilesSound
  BY TopFacts DEF PlainInv
<1>2. FilesSound'
  BY <1>1, FilesSoundStays
<1>3. DepsBelow
  BY DEF DepsBelow
<1>4. RestSame
  BY <1>1, <1>3, RestStays
<1>5. PathSound'
  BY <1>1, PathReturn
<1>6. AnswerSound'
  BY FileAnswered
<1>7. PICK N : N = {}
  OBVIOUS
<1>8. Active' = Rest \cup N /\ pc' = "return"
  BY <1>1, <1>7, NextFrames DEF Return
<1>9. \A F \in N : FALSE
  BY <1>7
<1>10. Begun(f) => Seen(f)'
  BY DEF Seen, Begun
<1>11. \A x \in visited' : x \in visited \/ OnStack(x)'
  OBVIOUS
<1>12. command_state'[Top.file] # "not_started"
  OBVIOUS
<1> QED BY <1>2, <1>4, <1>5, <1>6, <1>8, <1>9, <1>10, <1>11, <1>12, FileStep

LEMMA NoticeUnmadeSound ==
  ASSUME PlainInv, stack # << >>, Top.proc = "update_file_1", Top.at \in {"decide", "make"},
         NEW f \in Files, f = Top.file, NEW s \in -1..2, NoticeUnmade(f, s), ~Top.running,
         UNCHANGED <<makefile, deps, jobs, recipe>>,
         s <= 0 => /\ Top.status = 0
                   /\ makefile.cmds[f] = "commands" => ~Top.must_make,
         makefile.keep_going \/ Top.status = 0 \/ s > 0
  PROVE  /\ f \notin updated /\ Concerns(f) /\ FileSound(f)'
         /\ command_state'[f] = "finished" /\ f \in updated'
         /\ update_status'[f] = IF s = -1 THEN 0 ELSE s
PROOF
<1>1. TypeInv /\ Plain(makefile)
  BY DEF PlainInv
<1>2. WalkSound(Top) /\ FileSound(f)
  BY WalkFacts
<1>3. f \notin updated /\ f \notin jobs
  BY <1>2 DEF WalkSound, FileSound
<1>4. PICK ran \in BOOLEAN, touched \in BOOLEAN : Notice(f, s, ran, touched) /\ touched = FALSE
  <2>1. (command_state[f] = "running") \in BOOLEAN /\ FALSE \in BOOLEAN
    OBVIOUS
  <2> QED BY <2>1, Zenon DEF NoticeUnmade
<1>5. \A g \in Files \ {f} : recipe'[g] = recipe[g] /\ (g \in jobs' <=> g \in jobs)
  OBVIOUS
<1>6. /\ Concerns(f) /\ command_state'[f] = "finished" /\ f \in updated'
      /\ update_status'[f] = IF s = -1 THEN 0 ELSE s
      /\ ~(ran /\ touched) => last_mtime'[f] = last_mtime[f]
  BY <1>1, <1>3, <1>4, <1>5, NoticeConcerns
<1>7. update_status'[f] \in 0..2 /\ (update_status'[f] = 0 => s <= 0)
  BY <1>6
<1>8. last_mtime'[f] = last_mtime[f] /\ f \notin jobs'
  BY <1>3, <1>4, <1>6
<1>9. /\ makefile.keep_going => \A j \in 1..Len(deps[f]) : DepFile(f, j) \in updated
      /\ Top.status = 0 => DepsMade(f)
      /\ Top.status = 0 /\ ~Top.must_make =>
            /\ last_mtime[f] > 0
            /\ \A j \in 1..Len(deps[f]) : Recent(f, j, last_mtime[f])
  BY AllAsked
<1>10. deps'[f] = deps[f]
  OBVIOUS
<1>11. FileSound(f)'
  BY <1>1, <1>3, <1>6, <1>7, <1>8, <1>9, <1>10, FinishedSound
<1> QED BY <1>3, <1>6, <1>11

LEMMA PlainNoNeed ==
  ASSUME PlainInv, TypeInv', NoNeedToRemake
  PROVE  PlainInv'
PROOF
<1>1. /\ stack # << >> /\ Top.proc = "update_file_1" /\ Top.at = "make" /\ ~MustMake
      /\ NoticeUnmade(Top.file, update_status[Top.file]) /\ Return(0, FALSE)
      /\ UNCHANGED <<makefile, deps, walk, jobs, recipe, goals, status>>
  BY DEF NoNeedToRemake, At, In
<1>2. PICK f \in Files : f = Top.file
  BY <1>1, WalkFacts
<1>3. WalkSound(Top) /\ FileSound(f)
  BY <1>1, <1>2, WalkFacts
<1>4. ~Top.running /\ Top.status = 0 /\ ~Top.must_make
  BY <1>1, <1>3 DEF WalkSound, MustMake
<1>5. update_status[f] = -1
  BY <1>1, <1>2, <1>3 DEF WalkSound, FileSound
<1>6. PICK s \in -1..2 : s = -1
  OBVIOUS
<1>7. NoticeUnmade(f, s)
  BY <1>1, <1>2, <1>5, <1>6
<1>8. /\ f \notin updated /\ Concerns(f) /\ FileSound(f)'
      /\ command_state'[f] = "finished" /\ f \in updated'
      /\ update_status'[f] = 0
  BY <1>1, <1>2, <1>4, <1>6, <1>7, NoticeUnmadeSound
<1>9. UNCHANGED <<visited, updating>>
  BY <1>1 DEF walk
<1>10. FileWalked(f)'
  BY <1>8 DEF FileWalked
<1>11. PICK r : r = 0
  OBVIOUS
<1>12. Return(r, FALSE) /\ r = update_status'[f]
  BY <1>1, <1>8, <1>11
<1>13. command_state'[f] # "not_started" /\ updating \ {f} \subseteq updating'
  BY <1>8, <1>9
<1> QED BY <1>1, <1>2, <1>8, <1>9, <1>10, <1>12, <1>13, FileReturns

LEMMA PlainWithoutCommands ==
  ASSUME PlainInv, TypeInv', RemakeWithoutCommands
  PROVE  PlainInv'
PROOF
<1>1. /\ stack # << >> /\ Top.proc = "update_file_1" /\ Top.at = "make"
      /\ makefile.cmds[Top.file] = "none"
      /\ UNCHANGED <<makefile, deps, walk, jobs, recipe, goals, status>>
  BY DEF RemakeWithoutCommands, At, In
<1>2. PICK f \in Files : f = Top.file
  BY <1>1, WalkFacts
<1>3. WalkSound(Top) /\ FileSound(f) /\ TypeInv /\ FilesSound /\ UNCHANGED <<visited, updating>>
  BY <1>1, <1>2, WalkFacts DEF walk, PlainInv
<1>4. ~Top.running /\ Top.status = 0
  BY <1>1, <1>3 DEF WalkSound
<1>5. CASE \E s \in {0, 2} : NoticeUnmade(f, s) /\ Return(s, FALSE)
  <2>1. PICK s \in {0, 2} : NoticeUnmade(f, s) /\ Return(s, FALSE)
    BY <1>5
  <2>2. s \in -1..2 /\ s # -1
    OBVIOUS
  <2>3. /\ f \notin updated /\ Concerns(f) /\ FileSound(f)'
        /\ command_state'[f] = "finished" /\ f \in updated'
        /\ update_status'[f] = s
    BY <1>1, <1>2, <1>4, <2>1, <2>2, NoticeUnmadeSound
  <2>4. FileWalked(f)'
    BY <2>3 DEF FileWalked
  <2>5. command_state'[f] # "not_started" /\ updating \ {f} \subseteq updating'
    BY <1>3, <2>3
  <2> QED BY <1>1, <1>2, <1>3, <2>1, <2>3, <2>4, <2>5, FileReturns
<1>6. CASE Die /\ UNCHANGED <<command_state, update_status, updated, last_mtime>>
  <2>1. Concerns(f)
    BY <1>1, <1>6 DEF Concerns, Same
  <2>2. Quiet
    BY <1>1, <1>6 DEF Quiet, file
  <2>3. FilesSound'
    BY <1>3, <2>2, QuietFiles
  <2> QED BY <1>1, <1>6, <2>1, <2>3, DieStep
<1>7. \/ \E s \in {0, 2} : NoticeUnmade(f, s) /\ Return(s, FALSE)
      \/ Die /\ UNCHANGED <<command_state, update_status, updated, last_mtime>>
  BY <1>2, Zenon DEF RemakeWithoutCommands
<1> QED BY <1>5, <1>6, <1>7

LEMMA PlainRemakeBlank ==
  ASSUME PlainInv, TypeInv', RemakeBlank
  PROVE  PlainInv'
PROOF
<1>1. /\ stack # << >> /\ Top.proc = "update_file_1" /\ Top.at = "make"
      /\ Notice(Top.file, 0, TRUE, FALSE) /\ Return(0, FALSE)
      /\ recipe' = [recipe EXCEPT ![Top.file] = "over"]
      /\ UNCHANGED <<makefile, deps, walk, jobs, goals, status>>
  BY DEF RemakeBlank, At, In
<1>2. PICK f \in Files : f = Top.file
  BY <1>1, WalkFacts
<1>3. /\ WalkSound(Top) /\ FileSound(f) /\ TypeInv /\ TypeOK /\ Plain(makefile)
      /\ UNCHANGED <<visited, updating>>
  BY <1>1, <1>2, WalkFacts DEF walk, PlainInv, TypeInv
<1>4. ~Top.running /\ Top.status = 0 /\ f \notin updated /\ f \notin jobs
  BY <1>1, <1>2, <1>3 DEF WalkSound, FileSound
<1>5. PICK s \in -1..2, ran \in BOOLEAN, touched \in BOOLEAN :
         s = 0 /\ Notice(f, s, ran, touched)
  <2>1. 0 \in -1..2 /\ TRUE \in BOOLEAN /\ FALSE \in BOOLEAN
    OBVIOUS
  <2> QED BY <1>1, <1>2, <2>1, Zenon
<1>6. recipe'[f] = "over" /\ \A g \in Files \ {f} : recipe'[g] = recipe[g]
  BY <1>1, <1>2, <1>3 DEF TypeOK
<1>7. \A g \in Files \ {f} : recipe'[g] = recipe[g] /\ (g \in jobs' <=> g \in jobs)
  BY <1>1, <1>6
<1>8. /\ Concerns(f) /\ command_state'[f] = "finished" /\ f \in updated'
      /\ update_status'[f] = IF s = -1 THEN 0 ELSE s
  BY <1>1, <1>3, <1>4, <1>5, <1>7, NoticeConcerns
<1>9. update_status'[f] = 0
  BY <1>5, <1>8
<1>10. /\ makefile.keep_going => \A j \in 1..Len(deps[f]) : DepFile(f, j) \in updated
       /\ DepsMade(f)
  BY <1>1, <1>2, <1>4, AllAsked
<1>11. FileSound(f)'
  <2>1. update_status'[f] \in 0..2 /\ f \notin jobs' /\ deps'[f] = deps[f]
        /\ recipe'[f] # "idle"
    BY <1>1, <1>4, <1>6, <1>9
  <2> QED BY <1>3, <1>4, <1>8, <1>10, <2>1, FinishedSound
<1>12. FileWalked(f)'
  BY <1>8 DEF FileWalked
<1>13. PICK r : r = 0
  OBVIOUS
<1>14. Return(r, FALSE) /\ r = update_status'[f]
  BY <1>1, <1>9, <1>13
<1>15. command_state'[f] # "not_started" /\ updating \ {f} \subseteq updating'
  BY <1>3, <1>8
<1> QED BY <1>1, <1>2, <1>3, <1>8, <1>11, <1>12, <1>14, <1>15, FileReturns

LEMMA PlainFileRemade ==
  ASSUME PlainInv, TypeInv', FileRemade
  PROVE  PlainInv'
PROOF
<1>1. /\ stack # << >> /\ pc = "return" /\ Top.proc = "update_file_1" /\ Top.at = "made"
      /\ UNCHANGED <<makefile, deps, command_state, update_status, last_mtime, walk,
                     jobs, recipe, goals, status>>
  BY DEF FileRemade, At, In
<1>2. PICK f \in Files : f = Top.file
  BY <1>1, WalkFacts
<1>3. FileSound(f) /\ TypeInv /\ FilesSound /\ UNCHANGED <<visited, updating>>
  BY <1>1, <1>2, WalkFacts DEF walk, PlainInv
<1>4. command_state[f] \in {"running", "finished"}
  BY <1>1, <1>2 DEF PlainInv, AnswerSound
<1>5. command_state[f] = "finished" => f \in updated
  BY <1>3 DEF FileSound
<1>6. PICK s : /\ Return(s, FALSE) /\ updated' = updated
               /\ \/ f \in updated' /\ s = update_status'[f]
                  \/ command_state'[f] \in Busy /\ s = 0
  <2>1. CASE command_state[f] # "finished"
    <3>1. Return(0, FALSE) /\ updated' = updated
      BY <1>2, <2>1 DEF FileRemade
    <3>2. command_state'[f] \in Busy
      BY <1>1, <1>4, <2>1 DEF Busy
    <3> QED BY <3>1, <3>2
  <2>2. CASE command_state[f] = "finished"
    <3>1. Return(update_status[f], FALSE) /\ updated' = updated \cup {f}
      BY <1>2, <2>2 DEF FileRemade
    <3> QED BY <1>1, <1>5, <2>2, <3>1
  <2> QED BY <2>1, <2>2
<1>7. Quiet
  BY <1>1, <1>6 DEF Quiet, file
<1>8. Concerns(f) /\ FileSound(f)'
  BY <1>3, <1>7, QuietFiles DEF FilesSound
<1>9. command_state'[f] # "not_started" /\ command_state'[f] # "deps_running"
  BY <1>1, <1>4
<1>10. FileWalked(f)' /\ updating \ {f} \subseteq updating'
  BY <1>3, <1>9 DEF FileWalked
<1> QED BY <1>1, <1>2, <1>3, <1>6, <1>8, <1>9, <1>10, FileReturns

LEMMA PlainDecide ==
  ASSUME PlainInv, TypeInv', Decide
  PROVE  PlainInv'
PROOF
<1>1. /\ stack # << >> /\ pc = "call" /\ Top.proc = "update_file_1" /\ Top.at = "decide"
      /\ UNCHANGED <<makefile, deps, visited, jobs, recipe, goals, status>>
  BY DEF Decide, At, In
<1>2. PICK f \in Files, T \in UpdateFile1Frames : f = Top.file /\ T = Top
  BY <1>1, WalkFacts
<1>3. /\ WalkSound(T) /\ WalkSeen(T) /\ FileSound(f) /\ (LaterPass => Seen(f))
      /\ \A F \in Rest : F.proc = "update_file_1" => F.file # f
  BY <1>1, <1>2, WalkFacts
<1>4. /\ TypeInv /\ TypeOK /\ StackOK /\ PathSound /\ makefile \in Makefiles /\ Plain(makefile)
      /\ FilesSound
  BY <1>1, TopFacts DEF PlainInv
<1>5. updating' = updating \ {f}
  BY <1>2, <1>4, PlainEntries DEF Decide
<1>6. /\ T.proc = "update_file_1" /\ T.at = "decide" /\ T.file = f /\ T.status \in 0..2
      /\ T.running \in BOOLEAN
  BY <1>1, <1>2 DEF UpdateFile1Frames
<1>7. /\ f \notin updated /\ f \notin jobs /\ recipe[f] = "idle"
      /\ command_state[f] \in {"not_started", "deps_running"} /\ update_status[f] = -1
  BY <1>3, <1>4, <1>6 DEF WalkSound, FileSound, TypeOK
<1>8. WalkedFrom(f, 1)
  BY <1>3, <1>6 DEF WalkSeen
<1>9. ASSUME UNCHANGED <<update_status, updated, last_mtime>>,
             \A g \in Files \ {f} : command_state'[g] = command_state[g],
             command_state'[f] \in {"not_started", "deps_running"}
      PROVE  Concerns(f) /\ FileSound(f)'
  <2>1. Concerns(f)
    BY <1>1, <1>7, <1>9 DEF Concerns, Same
  <2>2. FileSound(f)'
    BY <1>1, <1>7, <1>9 DEF FileSound, Made
  <2> QED BY <2>1, <2>2
<1>10. CASE /\ T.running /\ SetCommandState(f, "deps_running") /\ Return(0, FALSE)
            /\ UNCHANGED <<update_status, updated, last_mtime>>
  <2>1. command_state' = [command_state EXCEPT ![f] = "deps_running"]
    BY <1>4, <1>10, PlainSet
  <2>2. /\ command_state'[f] = "deps_running"
        /\ \A g \in Files \ {f} : command_state'[g] = command_state[g]
    BY <1>4, <2>1 DEF TypeOK
  <2>3. Concerns(f) /\ FileSound(f)'
    BY <1>9, <1>10, <2>2
  <2>4. SeenOn => FileWalked(f)'
    <3>1. 1 \in Nat \ {0} /\ deps'[f] = deps[f]
      BY <1>1
    <3>2. SeenOn => WalkedFrom(f, 1)'
      BY <1>4, <1>8, <2>3, <3>1, WalkedFromStays
    <3> QED BY <3>2 DEF FileWalked
  <2>5. PICK s : s = 0
    OBVIOUS
  <2>6. Return(s, FALSE) /\ command_state'[f] \in Busy /\ s = 0
    BY <1>10, <2>2, <2>5 DEF Busy
  <2>7. command_state'[f] # "not_started" /\ f \notin updating'
        /\ updating \ {f} \subseteq updating' /\ updating' \subseteq updating
    BY <1>5, <2>2
  <2> QED BY <1>1, <1>2, <2>3, <2>4, <2>6, <2>7, FileReturns
<1>11. CASE ~T.running /\ T.status # 0 /\ NoticeUnmade(f, T.status) /\ Return(T.status, FALSE)
  <2>1. PICK s \in -1..2 : s = T.status
    BY <1>6
  <2>2. NoticeUnmade(f, s) /\ Return(s, FALSE) /\ s > 0
    <3>1. NoticeUnmade(f, s) /\ Return(s, FALSE)
      BY <1>11, <2>1, Zenon
    <3>2. s > 0
      BY <1>6, <1>11, <2>1
    <3> QED BY <3>1, <3>2
  <2>3. /\ Concerns(f) /\ FileSound(f)'
        /\ command_state'[f] = "finished" /\ f \in updated'
        /\ update_status'[f] = IF s = -1 THEN 0 ELSE s
    BY <1>1, <1>2, <1>11, <2>2, NoticeUnmadeSound
  <2>4. FileWalked(f)' /\ s = update_status'[f]
    BY <2>2, <2>3 DEF FileWalked
  <2>5. command_state'[f] # "not_started" /\ f \notin updating'
        /\ updating \ {f} \subseteq updating' /\ updating' \subseteq updating
    BY <1>5, <2>3
  <2> QED BY <1>1, <1>2, <2>2, <2>3, <2>4, <2>5, FileReturns
<1>12. CASE /\ ~T.running /\ T.status = 0
            /\ IF command_state[f] = "deps_running"
               THEN SetCommandState(f, "not_started")
               ELSE UNCHANGED command_state
            /\ Goto([T EXCEPT !.at = "make"])
            /\ UNCHANGED <<update_status, updated, last_mtime>>
  <2>1. /\ command_state'[f] = "not_started"
        /\ \A g \in Files \ {f} : command_state'[g] = command_state[g]
    <3>1. CASE command_state[f] = "deps_running"
      <4>1. command_state' = [command_state EXCEPT ![f] = "not_started"]
        BY <1>4, <1>12, <3>1, PlainSet
      <4> QED BY <1>4, <4>1 DEF TypeOK
    <3>2. CASE command_state[f] # "deps_running"
      BY <1>7, <1>12, <3>2
    <3> QED BY <3>1, <3>2
  <2>2. Concerns(f) /\ FileSound(f)'
    BY <1>9, <1>12, <2>1
  <2>3. FilesSound'
    BY <1>4, <2>2, FilesSoundStays
  <2>4. DepsBelow
    BY <1>1 DEF DepsBelow
  <2>5. RestSame
    BY <1>1, <1>2, <1>4, <2>2, <2>4, RestStays
  <2>6. PICK F \in UpdateFile1Frames :
            /\ Goto(F) /\ F.file = f /\ F.at = "make" /\ F.mtime = T.mtime
            /\ F.must_make = T.must_make /\ F.status = 0 /\ ~F.running
    <3>1. PICK F : F = [T EXCEPT !.at = "make"]
      OBVIOUS
    <3>2. /\ F \in UpdateFile1Frames /\ F.file = f /\ F.at = "make" /\ F.mtime = T.mtime
          /\ F.must_make = T.must_make /\ F.status = T.status /\ F.running = T.running
      BY <1>6, <3>1 DEF UpdateFile1Frames
    <3> QED BY <1>12, <3>1, <3>2
  <2>7. F \in Frames /\ F.proc = "update_file_1"
    BY DEF Frames, UpdateFile1Frames
  <2>8. PathSound'
    <3>1. Replaces(F, Top) /\ Runs(F)
      BY <1>1, <1>2, <2>6, <2>7 DEF Replaces, Runs
    <3>2. updating \ {F.file} \subseteq updating' /\ updating' \subseteq updating \cup {F.file}
          /\ F.file \notin updating'
      BY <1>5, <2>6
    <3> QED BY <1>1, <1>4, <2>4, <2>6, <2>7, <3>1, <3>2, PathGoto
  <2>9. AnswerSound' /\ stack' # << >>
    BY <1>1, <1>4, <2>6, <2>7, NoAnswer, GotoStack DEF Goto
  <2>10. PICK N : N = {F}
    OBVIOUS
  <2>11. Active' = Rest \cup N
    BY <1>1, <1>4, <2>6, <2>7, <2>10, NextFrames
  <2>12. Asked(F)' = 1..Len(deps[f]) /\ Asked(T) = 1..Len(deps[f])
    BY <1>1, <1>6, <2>6 DEF Asked
  <2>13. WalkSound(F)'
    BY <1>1, <1>3, <1>6, <1>12, <2>1, <2>6, <2>12
       DEF WalkSound, DepFile, Made, Recent, Fatal
  <2>14. WalkSeen(F)'
    BY <2>6 DEF WalkSeen
  <2>15. \A G \in N : /\ FrameSound(G)' /\ GoalsSeen(G) /\ G.file \in Files
                      /\ (LaterPass => Seen(G.file)) /\ WalkSeen(G)'
    BY <1>3, <2>6, <2>7, <2>10, <2>13, <2>14 DEF FrameSound, GoalsSeen
  <2>16. Of(F, f) /\ F \in N
    BY <2>6, <2>7, <2>10 DEF Of
  <2>17. FileWalked(f)'
    BY <2>1 DEF FileWalked
  <2>18. Seen(f)'
    BY <2>6, <2>11, <2>16 DEF Seen, Making
  <2>19. \E G \in N : /\ Of(G, Top.file)
                      /\ Top.at \in {"make", "made"} => G.at \in {"make", "made"}
    BY <1>2, <2>6, <2>16
  <2>20. \A x \in visited' : x \in visited \/ OnStack(x)'
    BY <1>1
  <2> QED BY <1>1, <1>2, <2>2, <2>3, <2>5, <2>8, <2>9, <2>11, <2>15, <2>17, <2>18,
             <2>19, <2>20, FileStep
<1>13. \/ /\ T.running /\ SetCommandState(f, "deps_running") /\ Return(0, FALSE)
          /\ UNCHANGED <<update_status, updated, last_mtime>>
       \/ ~T.running /\ T.status # 0 /\ NoticeUnmade(f, T.status) /\ Return(T.status, FALSE)
       \/ /\ ~T.running /\ T.status = 0
          /\ IF command_state[f] = "deps_running"
             THEN SetCommandState(f, "not_started")
             ELSE UNCHANGED command_state
          /\ Goto([T EXCEPT !.at = "make"])
          /\ UNCHANGED <<update_status, updated, last_mtime>>
  BY <1>2 DEF Decide
<1> QED BY <1>10, <1>11, <1>12, <1>13

-----------------------------------------------------------------------------
(* check_dep of a plain makefile.                                          *)
LEMMA CheckFacts ==
  ASSUME PlainInv, stack # << >>, Top.proc = "check_dep"
  PROVE  /\ Top \in CheckDepFrames /\ Top.file \in Files
         /\ Top.file \notin makefile.intermediate /\ FirstEntry(Top.file) = Top.file
         /\ pc = "call" => Top.at = "entry"
         /\ pc = "return" => Top.at = "updated"
         /\ LaterPass => Seen(Top.file)
PROOF
<1>1. /\ Top \in Frames /\ Top \in Active /\ makefile \in Makefiles /\ Plain(makefile)
      /\ (pc = "call" => Runs(Top)) /\ (pc = "return" => Waits(Top))
  BY TopFacts
<1>2. Top \in CheckDepFrames /\ Top.file \in Files
  BY <1>1, FrameTypes DEF CheckDepFrames
<1>3. Top.file \notin makefile.intermediate /\ FirstEntry(Top.file) = Top.file
  BY <1>1, <1>2, PlainEntries
<1>4. LaterPass => Seen(Top.file)
  BY <1>1 DEF LaterPass
<1> QED BY <1>1, <1>2, <1>3, <1>4 DEF Runs, Waits

LEMMA PlainCheckDepStart ==
  ASSUME PlainInv, TypeInv', CheckDepStart
  PROVE  PlainInv'
PROOF
<1>1. /\ stack # << >> /\ pc = "call" /\ Top.proc = "check_dep" /\ Top.at = "entry"
      /\ UNCHANGED <<makefile, file, visited, jobs, recipe, goals, status>>
  BY DEF CheckDepStart, Checking, In
<1>2. PICK f \in Files, T \in CheckDepFrames : f = Top.file /\ T = Top
  BY <1>1, CheckFacts
<1>3. /\ TypeInv /\ StackOK /\ TypeOK /\ FilesOK /\ RestOK /\ PathSound
  BY <1>1, TopFacts
<1>4. f \notin makefile.intermediate /\ FirstEntry(f) = f /\ (LaterPass => Seen(f))
  BY <1>1, <1>2, CheckFacts
<1>5. /\ updating' = updating \cup {f}
      /\ Call([T EXCEPT !.at = "updated"], UpdateFile(f))
  BY <1>2, <1>4 DEF CheckDepStart
<1>6. PICK F \in CheckDepFrames :
          /\ F = [T EXCEPT !.at = "updated"]
          /\ F.proc = "check_dep" /\ F.file = f /\ F.at = "updated" /\ F.mtime = T.mtime
          /\ F.must_make = T.must_make
  <2>1. PICK F : F = [T EXCEPT !.at = "updated"]
    OBVIOUS
  <2>2. /\ F \in CheckDepFrames
        /\ F.proc = "check_dep" /\ F.file = f /\ F.at = "updated" /\ F.mtime = T.mtime
        /\ F.must_make = T.must_make
    BY <1>2, <2>1 DEF CheckDepFrames
  <2> QED BY <2>1, <2>2
<1>7. PICK G \in Frames : /\ G = UpdateFile(f)
                          /\ G.proc = "update_file" /\ G.file = f /\ G.n = 0 /\ G.d = 0
                          /\ G.status = 0
  BY <1>3, NewFrames DEF UpdateFile
<1>8. Call(F, G) /\ F \in Frames
  BY <1>5, <1>6, <1>7 DEF Frames
<1>9. Quiet /\ UNCHANGED <<goals, status, visited, deps>>
  BY <1>1 DEF Quiet, file
<1>10. PathSound'
  <2>1. Replaces(F, Top) /\ Waits(F) /\ Link(G, F) /\ Runs(G)
    BY <1>1, <1>2, <1>6, <1>7 DEF Replaces, Waits, Link, Runs
  <2>2. updating' = updating \cup {F.file} /\ visited \subseteq visited'
        /\ updating \subseteq updating'
    BY <1>5, <1>6, <1>9
  <2> QED BY <1>1, <1>3, <1>6, <1>7, <1>8, <1>9, <2>1, <2>2, PathCall
<1>11. AnswerSound' /\ stack' # << >>
  BY <1>1, <1>3, <1>7, <1>8, NoAnswer, CallStack DEF Call
<1>12. PICK N : N = {F, G}
  OBVIOUS
<1>13. Active' = Rest \cup N /\ N \subseteq Frames
  BY <1>1, <1>3, <1>7, <1>8, <1>12, NextFrames
<1>14. \A H \in N : /\ FrameSound(H) /\ GoalsSeen(H) /\ H.file \in Files
                    /\ (LaterPass => Seen(H.file)) /\ H.proc # "update_file_1"
  BY <1>4, <1>6, <1>7, <1>12 DEF FrameSound, GoalsSeen
<1>15. \A x \in visited' : x \in visited \/ OnStack(x)'
  BY <1>9
<1>16. Top.proc # "update_file_1"
  BY <1>1
<1> QED BY <1>1, <1>9, <1>10, <1>11, <1>13, <1>14, <1>15, <1>16, QuietStep

LEMMA PlainCheckedFile ==
  ASSUME PlainInv, TypeInv', CheckedFileUpdated
  PROVE  PlainInv'
PROOF
<1>1. /\ stack # << >> /\ pc = "return" /\ Top.proc = "check_dep" /\ Top.at = "updated"
      /\ UNCHANGED <<makefile, file, visited, jobs, recipe, goals, status>>
  BY DEF CheckedFileUpdated, Checking, In
<1>2. PICK f \in Files, T \in CheckDepFrames : f = Top.file /\ T = Top
  BY <1>1, CheckFacts
<1>3. /\ TypeInv /\ StackOK /\ TypeOK /\ PathSound
  BY <1>1, TopFacts
<1>4. PICK s, b : /\ s = ret.status
                  /\ b = (\/ T.must_make \/ last_mtime[f] = 0 \/ Newer(f, T.mtime))
  OBVIOUS
<1>5. Return(s, b) /\ updating' = updating \ {f}
  <2>1. FinishCheck(s, b)
    BY <1>2, <1>4 DEF CheckedFileUpdated
  <2>2. FirstEntry(f) = f
    BY <1>1, <1>2, CheckFacts
  <2> QED BY <1>2, <2>1, <2>2 DEF FinishCheck
<1>6. Quiet /\ UNCHANGED <<goals, status, visited, deps, command_state, updated,
                           update_status, last_mtime>>
  BY <1>1 DEF Quiet, file
<1>7. PathSound'
  <2>1. /\ updating \ {Top.file} \subseteq updating' /\ updating' \subseteq updating
        /\ Top.file \notin updating'
    BY <1>2, <1>5
  <2> QED BY <1>1, <1>3, <1>5, <1>6, <2>1, PathReturn
<1>8. AnswerSound'
  <2>1. PICK C : C = stack[2] /\ Link(Top, C) /\ Head(stack') = C /\ stack' # << >>
    BY <1>1, <1>5, Caller
  <2>2. /\ C.proc = "update_file_1" /\ C.at = "deps" /\ DepFile(C.file, C.i) = f
        /\ C.mtime = T.mtime /\ C.must_make = T.must_make
    BY <1>1, <1>2, <2>1 DEF Link
  <2>3. Answers(f) /\ ret' = [status |-> s, must_make |-> b]
    BY <1>1, <1>2, <1>5 DEF PlainInv, AnswerSound, Return
  <2>4. ret'.status = ret.status /\ ret'.must_make = b
    BY <1>4, <2>3
  <2>5. Answers(f)'
    BY <1>6, <2>3, <2>4 DEF Answers
  <2>6. ~ret'.must_make => ~C.must_make /\ last_mtime'[f] \in 1..C.mtime
    <3>1. last_mtime[f] \in Nat /\ T.mtime \in Nat
      BY <1>3 DEF TypeOK, CheckDepFrames
    <3> QED BY <1>4, <1>6, <2>2, <2>4, <3>1 DEF Newer
  <2>7. DepFile(C.file, C.i)' = f
    BY <1>6, <2>2 DEF DepFile
  <2> QED BY <2>1, <2>2, <2>5, <2>6, <2>7 DEF AnswerSound, Top, Answers
<1>9. PICK N : N = {}
  OBVIOUS
<1>10. Active' = Rest \cup N /\ N \subseteq Frames /\ pc' = "return"
  BY <1>1, <1>3, <1>5, <1>9, NextFrames DEF Return
<1>11. \A H \in N : FALSE
  BY <1>9
<1>12. \A x \in visited' : x \in visited \/ OnStack(x)'
  BY <1>6
<1>13. Top.proc # "update_file_1"
  BY <1>1
<1> QED BY <1>1, <1>6, <1>7, <1>8, <1>10, <1>11, <1>12, <1>13, QuietStep

(* What plain makefiles have no occasion for: double-colon entries that    *)
(* wait, and intermediate files.                                           *)
LEMMA PlainNever ==
  ASSUME PlainInv
  PROVE  /\ ~StartRemainingDeps /\ ~RemainingDepStarted
         /\ ~IntermediateConsidered
         /\ ~CheckDepOfIntermediate /\ ~DepOfIntermediateChecked
PROOF
<1>1. stack # << >> => /\ pc = "call" => Runs(Top)
                       /\ pc = "return" => Waits(Top)
  BY TopFacts
<1>2. ~StartRemainingDeps
  <2> SUFFICES ASSUME StartRemainingDeps PROVE FALSE
    OBVIOUS
  <2>1. stack # << >> /\ Top.proc = "update_file" /\ pc = "call" /\ Top.d > 0
    BY DEF StartRemainingDeps, In
  <2>2. Top.d = 0
    BY <1>1, <2>1 DEF Runs
  <2> QED BY <2>1, <2>2
<1>3. ~RemainingDepStarted
  BY <1>1 DEF RemainingDepStarted, In, Waits
<1>4. ~IntermediateConsidered
  BY <1>1 DEF IntermediateConsidered, At, In, Waits
<1>5. ~CheckDepOfIntermediate
  BY <1>1 DEF CheckDepOfIntermediate, Checking, In, Runs
<1>6. ~DepOfIntermediateChecked
  BY <1>1 DEF DepOfIntermediateChecked, Checking, In, Waits
<1> QED BY <1>2, <1>3, <1>4, <1>5, <1>6

-----------------------------------------------------------------------------
(* new_job of a plain makefile.                                            *)
LEMMA JobFacts ==
  ASSUME PlainInv, stack # << >>, Top.proc = "new_job"
  PROVE  /\ Top \in NewJobFrames /\ Top.file \in Files /\ JobSound(Top)
         /\ DepsMade(Top.file) /\ FileSound(Top.file)
         /\ LaterPass => Seen(Top.file)
         /\ stack[2].proc = "update_file_1" /\ stack[2].at = "made"
         /\ stack[2].file = Top.file
PROOF
<1>1. /\ Top \in Frames /\ Top \in Active /\ FrameSound(Top) /\ TypeInv /\ StackOK
      /\ PathSound /\ FramesSound
  BY TopFacts DEF PlainInv
<1>2. Top \in NewJobFrames /\ Top.file \in Files
  BY <1>1 DEF Frames, GoalsFrames, UpdateFileFrames, UpdateFile1Frames, CheckDepFrames,
              NewJobFrames
<1>3. PICK C \in Rest : C = stack[2] /\ Link(Top, C)
  BY Caller
<1>4. C.proc = "update_file_1" /\ C.at = "made" /\ C.file = Top.file
  BY <1>3 DEF Link
<1>5. WalkSound(C)
  <2>1. C \in Active
    BY <1>1, <1>3, RestOfStack
  <2> QED BY <1>1, <1>4, <2>1 DEF FramesSound, FrameSound
<1>6. ~C.running /\ C.status = 0 /\ ~Fatal(C.status)
  BY <1>4, <1>5 DEF WalkSound, Fatal
<1>7. Asked(C) = 1..Len(deps[Top.file])
  BY <1>4 DEF Asked
<1>8. DepsMade(Top.file)
  BY <1>4, <1>5, <1>6, <1>7 DEF WalkSound, DepsMade
<1>9. FileSound(Top.file) /\ JobSound(Top) /\ (LaterPass => Seen(Top.file))
  BY <1>1, <1>2 DEF PlainInv, FilesSound, FrameSound, LaterPass
<1> QED BY <1>2, <1>3, <1>4, <1>8, <1>9

LEMMA JobReturns ==
  ASSUME PlainInv, TypeInv', stack # << >>, Top.proc = "new_job",
         NEW f \in Files, f = Top.file, Concerns(f), f \notin updated => FileSound(f)',
         UNCHANGED <<deps, goals, status, walk>>, Return(0, FALSE),
         command_state'[f] \in {"running", "finished"}
  PROVE  PlainInv'
PROOF
<1>1. /\ TypeInv /\ StackOK /\ PathSound /\ FilesSound
  BY TopFacts DEF PlainInv
<1>2. FilesSound' /\ UNCHANGED <<visited, updating>>
  BY <1>1, FilesSoundStays DEF walk
<1>3. DepsBelow
  BY DEF DepsBelow
<1>4. RestSame
  BY <1>1, <1>3, RestStays
<1>5. PICK s, b : s = 0 /\ b = FALSE
  OBVIOUS
<1>6. Return(s, b)
  BY <1>5
<1>7. PathSound'
  <2>1. /\ updating \ {Top.file} \subseteq updating' /\ updating' \subseteq updating
        /\ Top.proc \notin {"update_file_1", "check_dep"}
    BY <1>2
  <2> QED BY <1>1, <1>2, <1>6, <2>1, PathReturn
<1>8. AnswerSound'
  <2>1. PICK C : C = stack[2] /\ Head(stack') = C
    BY <1>6, Caller
  <2>2. C.proc = "update_file_1" /\ C.at = "made" /\ C.file = f
    BY <2>1, JobFacts
  <2> QED BY <2>1, <2>2 DEF AnswerSound, Top
<1>9. PICK N : N = {}
  OBVIOUS
<1>10. Active' = Rest \cup N /\ pc' = "return" /\ \A F \in N : FALSE
  BY <1>1, <1>6, <1>9, NextFrames DEF Return
<1>11. command_state'[f] # "not_started" /\ FileWalked(f)'
  BY DEF FileWalked
<1>12. Begun(f) => Seen(f)'
  BY <1>11 DEF Seen, Begun
<1>13. \A x \in visited' : x \in visited \/ OnStack(x)'
  BY <1>2
<1>14. Top.proc # "update_file_1"
  OBVIOUS
<1> QED BY <1>2, <1>4, <1>7, <1>8, <1>10, <1>11, <1>12, <1>13, <1>14, FileStep

LEMMA ReapInJob ==
  ASSUME PlainInv, TypeInv', stack # << >>, pc = "call", Top.proc = "new_job",
         NEW g, NEW result, Reap(g, result),
         UNCHANGED <<makefile, deps, walk, recipe, goals, status>>,
         Die \/ UNCHANGED <<stack, pc, ret>>
  PROVE  PlainInv'
PROOF
<1>1. /\ g \in Files /\ Concerns(g) /\ FilesSound'
      /\ command_state[g] = "running" /\ command_state'[g] = "finished"
  BY PlainReap
<1>2. CASE Die
  BY <1>1, <1>2, DieStep
<1>3. CASE UNCHANGED <<stack, pc, ret>>
  <2>1. /\ TypeInv /\ StackOK /\ PathSound /\ FramesSound
        /\ UNCHANGED <<visited, updating>>
    BY TopFacts DEF PlainInv, walk
  <2>2. DepsBelow
    BY DEF DepsBelow
  <2>3. RestSame
    BY <1>1, <2>1, <2>2, RestStays
  <2>4. PathSound'
    BY <1>3, <2>1, PathStays
  <2>5. AnswerSound' /\ stack' # << >>
    BY <1>3, NoAnswer
  <2>6. PICK T \in NewJobFrames : /\ T = Top /\ T.file \in Files /\ JobSound(T)
                                  /\ LaterPass => Seen(T.file)
    BY JobFacts
  <2>7. PICK N : N = {T}
    OBVIOUS
  <2>8. Active' = Rest \cup N
    BY <1>3, <2>1, <2>6, <2>7, NextFrames
  <2>9. JobSound(T)'
    <3>1. T.file # g => command_state'[T.file] = command_state[T.file]
      BY <1>1, <2>6 DEF Concerns, Same
    <3> QED BY <1>1, <2>6, <3>1 DEF JobSound
  <2>10. T.proc = "new_job"
    BY <2>6
  <2>11. \A F \in N : /\ FrameSound(F)' /\ GoalsSeen(F) /\ F.file \in Files
                      /\ (LaterPass => Seen(F.file)) /\ F.proc # "update_file_1"
    BY <2>6, <2>7, <2>9, <2>10 DEF FrameSound, GoalsSeen
  <2>12. Begun(g) => Seen(g)'
    BY <1>1 DEF Seen, Begun
  <2>13. FileWalked(g)'
    BY <1>1 DEF FileWalked
  <2>14. \A x \in visited' : x \in visited \/ OnStack(x)'
    BY <2>1
  <2>15. Top.proc # "update_file_1"
    OBVIOUS
  <2> QED BY <1>1, <2>3, <2>4, <2>5, <2>8, <2>11, <2>12, <2>13, <2>14, <2>15, FileStep
<1> QED BY <1>2, <1>3

LEMMA PlainReapInNewJob ==
  ASSUME PlainInv, TypeInv', ReapInNewJob
  PROVE  PlainInv'
PROOF
<1>1. /\ stack # << >> /\ pc = "call" /\ Top.proc = "new_job"
      /\ UNCHANGED <<makefile, deps, walk, recipe, goals, status>>
  BY DEF ReapInNewJob, In
<1>2. PICK g, result : Reap(g, result) /\ (Die \/ UNCHANGED <<stack, pc, ret>>)
  BY Zenon DEF ReapInNewJob
<1> QED BY <1>1, <1>2, ReapInJob

LEMMA PlainLinearWait ==
  ASSUME PlainInv, TypeInv', LinearWait
  PROVE  PlainInv'
PROOF
<1>1. /\ stack # << >> /\ pc = "call" /\ Top.proc = "new_job" /\ Top.started
      /\ UNCHANGED <<makefile, deps, walk, recipe, goals, status>>
  BY DEF LinearWait, In
<1>2. CASE command_state[Top.file] = "running"
  <2>1. PICK g, result : Reap(g, result) /\ (Die \/ UNCHANGED <<stack, pc, ret>>)
    BY <1>2, Zenon DEF LinearWait
  <2> QED BY <1>1, <2>1, ReapInJob
<1>3. CASE command_state[Top.file] # "running"
  <2>1. /\ Return(0, FALSE)
        /\ UNCHANGED <<jobs, command_state, update_status, updated, last_mtime>>
    BY <1>3 DEF LinearWait
  <2>2. PICK f \in Files : f = Top.file /\ JobSound(Top) /\ FileSound(f)
    BY <1>1, JobFacts
  <2>3. command_state'[f] \in {"running", "finished"}
    BY <1>1, <2>1, <2>2 DEF JobSound
  <2>4. Quiet
    BY <1>1, <2>1 DEF Quiet, file
  <2>5. Concerns(f) /\ FileSound(f)'
    BY <2>2, <2>4, QuietFiles DEF PlainInv, FilesSound
  <2> QED BY <1>1, <2>1, <2>2, <2>3, <2>5, JobReturns
<1> QED BY <1>2, <1>3

LEMMA PlainStartJob ==
  ASSUME PlainInv, TypeInv', StartJob
  PROVE  PlainInv'
PROOF
<1>1. /\ stack # << >> /\ pc = "call" /\ Top.proc = "new_job" /\ ~Top.started
      /\ jobs' = jobs \cup {Top.file}
      /\ recipe' = [recipe EXCEPT ![Top.file] = "started"]
      /\ SetCommandState(Top.file, "running")
      /\ UNCHANGED <<makefile, deps, update_status, updated, last_mtime, walk, goals, status>>
  BY DEF StartJob, In
<1>2. PICK f \in Files, T \in NewJobFrames :
         /\ f = Top.file /\ T = Top /\ JobSound(T) /\ DepsMade(f) /\ FileSound(f)
         /\ LaterPass => Seen(f)
  BY <1>1, JobFacts
<1>3. /\ TypeInv /\ TypeOK /\ StackOK /\ PathSound /\ Plain(makefile) /\ FilesSound
      /\ UNCHANGED <<visited, updating>>
  BY <1>1, TopFacts DEF PlainInv, walk
<1>4. command_state[f] = "not_started" /\ f \notin updated /\ update_status[f] = -1
  BY <1>1, <1>2 DEF JobSound, FileSound
<1>5. /\ command_state'[f] = "running" /\ recipe'[f] = "started" /\ f \in jobs'
      /\ \A g \in Files \ {f} : /\ command_state'[g] = command_state[g]
                                /\ recipe'[g] = recipe[g]
                                /\ g \in jobs' <=> g \in jobs
  <2>1. command_state' = [command_state EXCEPT ![f] = "running"]
    BY <1>1, <1>2, <1>3, PlainSet
  <2> QED BY <1>1, <1>2, <1>3, <2>1 DEF TypeOK
<1>6. Concerns(f)
  BY <1>1, <1>4, <1>5 DEF Concerns, Same
<1>7. FileSound(f)'
  <2>1. DepsMade(f)'
    <3> SUFFICES ASSUME NEW j \in 1..Len(deps[f]) PROVE Made(DepFile(f, j))'
      BY <1>1 DEF DepsMade
    <3>1. PICK d \in Files : d = DepFile(f, j) /\ Made(d) /\ DepFile(f, j)' = d
      BY <1>1, <1>2, <1>3, DepFiles DEF DepsMade, DepFile
    <3>2. Made(d)'
      BY <1>6, <3>1, MadeStays
    <3> QED BY <3>1, <3>2 DEF Made
  <2> QED BY <1>1, <1>4, <1>5, <2>1 DEF FileSound, Made
<1>8. CASE Return(0, FALSE)
  <2>1. command_state'[f] \in {"running", "finished"}
    BY <1>5
  <2> QED BY <1>1, <1>2, <1>6, <1>7, <1>8, <2>1, JobReturns
<1>9. CASE Goto([T EXCEPT !.started = TRUE])
  <2>1. PICK F \in NewJobFrames : /\ Goto(F) /\ F.proc = "new_job" /\ F.file = f
                                  /\ F.started = TRUE
    <3>1. PICK F : F = [T EXCEPT !.started = TRUE]
      OBVIOUS
    <3>2. F \in NewJobFrames /\ F.proc = "new_job" /\ F.file = f /\ F.started = TRUE
      BY <1>2, <3>1 DEF NewJobFrames
    <3> QED BY <1>9, <3>1, <3>2
  <2>2. F \in Frames
    BY DEF Frames
  <2>3. FilesSound'
    BY <1>3, <1>6, <1>7, FilesSoundStays
  <2>4. DepsBelow
    BY <1>1 DEF DepsBelow
  <2>5. RestSame
    BY <1>1, <1>2, <1>3, <1>6, <2>4, RestStays
  <2>6. PathSound'
    <3>1. Replaces(F, Top) /\ Runs(F)
      BY <1>1, <1>2, <2>1 DEF Replaces, Runs
    <3>2. updating \ {F.file} \subseteq updating' /\ updating' \subseteq updating \cup {F.file}
      BY <1>3
    <3> QED BY <1>1, <1>3, <2>1, <2>2, <2>4, <3>1, <3>2, PathGoto
  <2>7. AnswerSound' /\ stack' # << >>
    BY <1>1, <1>3, <2>1, <2>2, NoAnswer, GotoStack DEF Goto
  <2>8. PICK N : N = {F}
    OBVIOUS
  <2>9. Active' = Rest \cup N
    BY <1>1, <1>3, <2>1, <2>2, <2>8, NextFrames
  <2>10. \A G \in N : /\ FrameSound(G)' /\ GoalsSeen(G) /\ G.file \in Files
                      /\ (LaterPass => Seen(G.file)) /\ G.proc # "update_file_1"
    BY <1>2, <1>5, <2>1, <2>8 DEF FrameSound, GoalsSeen, JobSound
  <2>11. Begun(f) => Seen(f)'
    BY <1>5 DEF Seen, Begun
  <2>12. FileWalked(f)'
    BY <1>5 DEF FileWalked
  <2>13. \A x \in visited' : x \in visited \/ OnStack(x)'
    BY <1>3
  <2>14. Top.proc # "update_file_1"
    BY <1>1
  <2> QED BY <1>1, <1>2, <1>6, <2>3, <2>5, <2>6, <2>7, <2>9, <2>10, <2>11, <2>12, <2>13,
             <2>14, FileStep
<1>10. Return(0, FALSE) \/ Goto([T EXCEPT !.started = TRUE])
  BY <1>2, Zenon DEF StartJob
<1> QED BY <1>8, <1>9, <1>10

LEMMA PlainJobOver ==
  ASSUME PlainInv, TypeInv', JobOverAtOnce
  PROVE  PlainInv'
PROOF
<1>1. /\ stack # << >> /\ pc = "call" /\ Top.proc = "new_job" /\ ~Top.started
      /\ recipe' = [recipe EXCEPT ![Top.file] = "over"]
      /\ Return(0, FALSE)
      /\ UNCHANGED <<makefile, deps, walk, jobs, goals, status>>
  BY DEF JobOverAtOnce, In
<1>2. PICK f \in Files : f = Top.file
  BY <1>1, JobFacts
<1>3. JobSound(Top) /\ DepsMade(f) /\ FileSound(f)
  BY <1>1, <1>2, JobFacts
<1>4. TypeInv /\ TypeOK /\ Plain(makefile)
  BY <1>1, TopFacts
<1>5. command_state[f] = "not_started" /\ f \notin updated /\ f \notin jobs
  BY <1>1, <1>2, <1>3 DEF JobSound, FileSound
<1>6. PICK s \in -1..2, ran \in BOOLEAN, touched \in BOOLEAN :
         s \in {0, 2} /\ Notice(f, s, ran, touched)
  <2>1. /\ 0 \in -1..2 /\ 2 \in -1..2 /\ TRUE \in BOOLEAN /\ FALSE \in BOOLEAN
        /\ (command_state[f] = "running") \in BOOLEAN
    OBVIOUS
  <2>2. \/ Notice(f, 0, TRUE, FALSE)
        \/ Notice(f, 2, command_state[f] = "running", FALSE)
    BY <1>2, Zenon DEF JobOverAtOnce
  <2>3. 0 \in {0, 2} /\ 2 \in {0, 2}
    OBVIOUS
  <2> QED BY <2>1, <2>2, <2>3, Zenon
<1>7. recipe'[f] = "over" /\ \A g \in Files \ {f} : recipe'[g] = recipe[g]
  BY <1>1, <1>2, <1>4 DEF TypeOK
<1>8. \A g \in Files \ {f} : recipe'[g] = recipe[g] /\ (g \in jobs' <=> g \in jobs)
  BY <1>1, <1>7
<1>9. /\ Concerns(f) /\ command_state'[f] = "finished" /\ f \in updated'
      /\ update_status'[f] = IF s = -1 THEN 0 ELSE s
  BY <1>1, <1>4, <1>5, <1>6, <1>8, NoticeConcerns
<1>10. FileSound(f)'
  <2>1. /\ update_status'[f] \in 0..2 /\ f \notin jobs' /\ deps'[f] = deps[f]
        /\ recipe'[f] # "idle"
    BY <1>1, <1>5, <1>6, <1>7, <1>9
  <2>2. \A j \in 1..Len(deps[f]) : DepFile(f, j) \in updated
    BY <1>3 DEF DepsMade, Made
  <2> QED BY <1>3, <1>4, <1>5, <1>9, <2>1, <2>2, FinishedSound
<1>11. command_state'[f] \in {"running", "finished"}
  BY <1>9
<1> QED BY <1>1, <1>2, <1>9, <1>10, <1>11, JobReturns

-----------------------------------------------------------------------------
(* The invariant of plain makefiles.                                       *)
LEMMA PlainStart ==
  ASSUME Init, Plain(makefile)
  PROVE  PlainInv
PROOF
<1>1. TypeInv
  BY InitTypes
<1>2. PICK F : F = Goals(0, 1, FALSE)
  OBVIOUS
<1>3. F.proc = "update_goal_chain" /\ F.g = 0
  BY <1>2 DEF Goals
<1>4. stack = <<F>> /\ pc = "call" /\ updating = {} /\ visited = {} /\ goals = makefile.goals
      /\ status = -1
  BY <1>2 DEF Init
<1>5. Len(stack) = 1 /\ stack[1] = F /\ stack # << >> /\ Top = F /\ Depth = {1} /\ Active = {F}
  <2>1. Len(stack) = 1 /\ stack[1] = F /\ stack # << >> /\ Head(stack) = F
    BY <1>4
  <2>2. Depth = {1}
    BY <2>1 DEF Depth
  <2> QED BY <2>1, <2>2 DEF Active, Top
<1>6. Linked /\ Apart /\ Marked /\ OnPath
  <2>1. Linked
    BY <1>3, <1>4, <1>5 DEF Linked, Runs
  <2>2. Apart /\ Marked /\ OnPath
    BY <1>3, <1>4, <1>5 DEF Apart, Marked, OnPath, Considering
  <2> QED BY <2>1, <2>2
<1>7. /\ updated = {} /\ jobs = {}
      /\ \A f \in Files : /\ command_state[f] = "not_started" /\ update_status[f] = -1
                          /\ recipe[f] = "idle"
  BY DEF Init
<1>8. FilesSound
  BY <1>7 DEF FilesSound, FileSound, Made
<1>9. FramesSound
  BY <1>3, <1>5 DEF FramesSound, FrameSound
<1>10. AnswerSound
  BY <1>4 DEF AnswerSound
<1>11. PassSound
  <2>1. FirstPass
    BY <1>4 DEF FirstPass
  <2>2. \A f \in Files : FileWalked(f)
    BY <1>7 DEF FileWalked
  <2>3. Walked
    BY <1>3, <1>5, <2>2 DEF Walked
  <2>4. GoalsSeen(F)
    <3>1. \A j \in 1..Len(goals) : ~(j < 0)
      BY <1>1, LenProperties DEF TypeInv, TypeOK
    <3> QED BY <1>3, <3>1 DEF GoalsSeen
  <2> QED BY <1>5, <2>1, <2>3, <2>4 DEF PassSound
<1>12. GoalsSound
  BY <1>4, <1>5 DEF GoalsSound
<1> QED BY <1>1, <1>6, <1>8, <1>9, <1>10, <1>11, <1>12 DEF PlainInv

LEMMA PlainStutter ==
  ASSUME PlainInv, UNCHANGED vars
  PROVE  PlainInv'
PROOF
<1>1. /\ UNCHANGED <<makefile, deps, command_state, update_status, updated, last_mtime>>
      /\ UNCHANGED <<updating, visited, jobs, recipe, goals, status, stack, pc, ret>>
  BY DEF vars, file, walk, thread
<1>2. /\ TypeInv /\ Plain(makefile) /\ PathSound /\ FilesSound /\ FramesSound
      /\ AnswerSound /\ PassSound /\ GoalsSound
  BY DEF PlainInv, PathSound
<1>3. TypeInv' /\ Plain(makefile)'
  <2>1. StackOK'
    BY <1>1, <1>2, StaysPut DEF TypeInv
  <2> QED BY <1>1, <1>2, <2>1 DEF TypeInv, TypeOK, Bounded, Noticed, Plain
<1>4. PathSound'
  BY <1>1, <1>2, PathStays
<1>5. Quiet
  BY <1>1 DEF Quiet, file
<1>6. FilesSound' /\ \A F : FrameSound(F) => FrameSound(F)'
  BY <1>2, <1>5, QuietFiles
<1>7. Active' = Active /\ Top' = Top
  BY <1>1 DEF Active, Depth, Top
<1>8. FramesSound'
  BY <1>2, <1>6, <1>7 DEF FramesSound, FrameSound, WalkSound, JobSound
<1>9. AnswerSound'
  <2>1. \A f : Answers(f)' <=> Answers(f)
    BY <1>1 DEF Answers
  <2> QED BY <1>1, <1>2, <1>7, <2>1, SMTT(30) DEF AnswerSound, Answers, DepFile
<1>10. PassSound'
  BY <1>1, <1>2, SMTT(30)
     DEF PassSound, FirstPass, LaterPass, Walked, WalkSeen, FileWalked, WalkedFrom, GoalsSeen,
         Seen, Begun, Making, Walking, OnStack, Of, Active, Depth, Asked, DepFile
<1>11. GoalsSound'
  BY <1>1, <1>2 DEF GoalsSound
<1> QED BY <1>3, <1>4, <1>6, <1>8, <1>9, <1>10, <1>11 DEF PlainInv, PathSound

LEMMA PlainNext ==
  ASSUME PlainInv, [Next]_vars
  PROVE  PlainInv'
PROOF
<1>1. CASE UNCHANGED vars
  BY <1>1, PlainStutter
<1>2. CASE Next
  <2>1. TypeInv'
    <3>1. TypeInv
      BY DEF PlainInv
    <3> QED BY <1>2, <3>1, TypesStay
  <2>2. CASE UpdateGoalChain
    BY <2>1, <2>2, PlainStartWaitingJobs, PlainReapBeforePass, PlainConsiderGoal,
       PlainGoalConsidered, PlainEndPass DEF UpdateGoalChain
  <2>3. CASE UpdateFileSteps
    BY <2>1, <2>3, PlainPrune, PlainConsiderFirstEntry, PlainEntryConsidered, PlainNever
       DEF UpdateFileSteps
  <2>4. CASE UpdateFile1Steps
    BY <2>1, <2>4, PlainConsiderTarget, PlainConsiderDep, PlainDepConsidered,
       PlainConsiderIntermediate, PlainNever, PlainDecide, PlainNoNeed, PlainWithoutCommands,
       PlainRemakeBlank, PlainRemakeFile, PlainFileRemade DEF UpdateFile1Steps
  <2>5. CASE CheckDepSteps
    BY <2>1, <2>5, PlainCheckDepStart, PlainCheckedFile, PlainNever DEF CheckDepSteps
  <2>6. CASE NewJobSteps
    BY <2>1, <2>6, PlainReapInNewJob, PlainStartJob, PlainJobOver, PlainLinearWait
       DEF NewJobSteps
  <2> QED BY <1>2, <2>2, <2>3, <2>4, <2>5, <2>6 DEF Next
<1> QED BY <1>1, <1>2

(* The dependency engine on plain makefiles: what it knows of each target  *)
(* and of each procedure it is in is true, throughout every pass.          *)
THEOREM PlainInvariance == Spec /\ Plain(makefile) => []PlainInv
PROOF
<1>1. Init /\ Plain(makefile) => PlainInv
  BY PlainStart
<1>2. PlainInv /\ [Next]_vars => PlainInv'
  BY PlainNext
<1> QED BY <1>1, <1>2, PTL DEF Spec

-----------------------------------------------------------------------------
(* What follows for plain makefiles.                                       *)
LEMMA PlainNeeds ==
  ASSUME TypeInv, Plain(makefile), NEW f \in Files, NEW d \in Needed(f)
  PROVE  \E j \in 1..Len(deps[f]) : d = DepFile(f, j)
PROOF
<1>1. PICK j \in 1..Len(deps[f]) : d \in ToSet(Entries(deps[f][j].file))
  BY DEF Needed, Prerequisites
<1>2. DepFile(f, j) \in Files /\ makefile \in Makefiles
  BY DepFiles DEF TypeInv, TypeOK
<1>3. ToSet(Entries(DepFile(f, j))) = {DepFile(f, j)}
  BY <1>2, PlainEntries
<1> QED BY <1>1, <1>3 DEF DepFile

LEMMA JobsStart ==
  ASSUME PlainInv, [Next]_vars, NEW f \in jobs' \ jobs
  PROVE  StartJob /\ f = Top.file
PROOF
<1>1. UNCHANGED vars => FALSE
  BY DEF vars
<1>2. \A g, result : Reap(g, result) => FALSE
  BY DEF Reap
<1>3. UpdateGoalChain => FALSE
  BY <1>2 DEF UpdateGoalChain, StartWaitingJobs, ReapBeforePass, ConsiderGoal,
              GoalConsidered, EndPass
<1>4. UpdateFileSteps => FALSE
  BY DEF UpdateFileSteps, Prune, ConsiderFirstEntry, EntryConsidered,
         StartRemainingDeps, RemainingDepStarted
<1>5. UpdateFile1Steps => FALSE
  BY DEF UpdateFile1Steps, ConsiderTarget, ConsiderDep, DepConsidered, ConsiderIntermediate,
         IntermediateConsidered, Decide, NoNeedToRemake, RemakeWithoutCommands, RemakeBlank,
         RemakeFile, FileRemade
<1>6. CheckDepSteps => FALSE
  BY DEF CheckDepSteps, CheckDepStart, CheckedFileUpdated, CheckDepOfIntermediate,
         DepOfIntermediateChecked
<1>7. ReapInNewJob \/ JobOverAtOnce \/ LinearWait => FALSE
  BY <1>2 DEF ReapInNewJob, JobOverAtOnce, LinearWait
<1>8. StartJob => f = Top.file
  BY DEF StartJob
<1> QED BY <1>1, <1>3, <1>4, <1>5, <1>6, <1>7, <1>8 DEF Next, NewJobSteps

(* No recipe of a plain makefile is started before all that its target     *)
(* depends on has been brought up to date, order-only prerequisites        *)
(* included: however the jobs of a parallel make end in between, and in    *)
(* whichever pass the target is taken up again.                            *)
THEOREM ReadyHolds == Spec /\ Plain(makefile) => Ready
PROOF
<1>1. ASSUME PlainInv, [Next]_vars, NEW f \in jobs' \ jobs
      PROVE  \A d \in Needed(f) : Made(d)
  <2>1. StartJob /\ f = Top.file
    BY <1>1, JobsStart
  <2>2. stack # << >> /\ Top.proc = "new_job"
    BY <2>1 DEF StartJob, In
  <2>3. f \in Files /\ DepsMade(f) /\ TypeInv /\ Plain(makefile)
    BY <1>1, <2>1, <2>2, JobFacts DEF PlainInv
  <2> QED BY <2>3, PlainNeeds DEF DepsMade
<1>2. PlainInv /\ [Next]_vars =>
         [\A f \in jobs' \ jobs : \A d \in Needed(f) : Made(d)]_vars
  BY <1>1
<1> QED BY <1>2, PlainInvariance, PTL DEF Spec, Ready

(* The recipe of a target of a plain makefile is started at most once, and *)
(* not for a target that has been dealt with.                              *)
THEOREM StartedOnceHolds == Spec /\ Plain(makefile) => StartedOnce
PROOF
<1>1. ASSUME PlainInv, [Next]_vars, NEW f \in jobs' \ jobs
      PROVE  /\ f \notin updated
             /\ \A g \in {f} \cup makefile.also_make[f] : recipe[g] # "started"
  <2>1. StartJob /\ f = Top.file
    BY <1>1, JobsStart
  <2>2. stack # << >> /\ Top.proc = "new_job" /\ ~Top.started
    BY <2>1 DEF StartJob, In
  <2>3. f \in Files /\ JobSound(Top) /\ FileSound(f)
    BY <1>1, <2>1, <2>2, JobFacts
  <2>4. command_state[f] = "not_started"
    BY <2>1, <2>2, <2>3 DEF JobSound
  <2>5. f \notin updated /\ recipe[f] # "started"
    BY <2>3, <2>4 DEF FileSound
  <2>6. makefile.also_make[f] = {}
    BY <1>1, <2>3 DEF PlainInv, Plain
  <2> QED BY <2>5, <2>6
<1>2. PlainInv /\ [Next]_vars =>
         [\A f \in jobs' \ jobs :
             /\ f \notin updated
             /\ \A g \in {f} \cup makefile.also_make[f] : recipe[g] # "started"]_vars
  BY <1>1
<1> QED BY <1>2, PlainInvariance, PTL DEF Spec, StartedOnce

LEMMA PlainGoals ==
  ASSUME PlainInv, NEW i \in 1..Len(makefile.goals)
  PROVE  /\ makefile.goals[i] \in Files
         /\ ToSet(Entries(makefile.goals[i])) = {makefile.goals[i]}
PROOF
<1>1. makefile \in Makefiles /\ Plain(makefile) /\ makefile.goals \in Seq(Files)
  BY RuleTypes DEF PlainInv, TypeInv, TypeOK
<1>2. makefile.goals[i] \in Files
  BY <1>1, ElementOfSeq
<1> QED BY <1>1, <1>2, PlainEntries

LEMMA PlainDone ==
  ASSUME PlainInv, pc = "done", NEW i \in 1..Len(makefile.goals)
  PROVE  /\ makefile.goals[i] \in updated
         /\ update_status[makefile.goals[i]] > 0 => status > 0
PROOF
<1>1. stack = << >> /\ GoalsSound
  BY DEF PlainInv, TypeInv, StackOK
<1>2. goals = << >>
  BY <1>1 DEF GoalsSound
<1>3. \A j \in 1..Len(goals) : FALSE
  BY <1>2
<1> QED BY <1>1, <1>3 DEF GoalsSound

(* With plain makefiles a failure is not lost on its way to the goals and  *)
(* the exit status, nor made up.                                           *)
THEOREM FailureReachesTheGoalHolds ==
  Spec /\ Plain(makefile) => []FailureReachesTheGoal
PROOF
<1>1. ASSUME PlainInv PROVE FailureReachesTheGoal
  <2>1. /\ TypeInv /\ Plain(makefile) /\ FilesSound /\ GoalsSound
    BY <1>1 DEF PlainInv
  <2>2. ASSUME NEW f \in updated, NEW d \in Needed(f), update_status[d] > 0
        PROVE  update_status[f] > 0
    <3>1. f \in Files /\ FileSound(f) /\ update_status[f] \in -1..2
      BY <2>1 DEF TypeInv, TypeOK, FilesSound
    <3>2. PICK j \in 1..Len(deps[f]) : d = DepFile(f, j)
      BY <2>1, <2>2, <3>1, PlainNeeds
    <3>3. ~Made(d)
      BY <2>2 DEF Made
    <3>4. ~Made(f)
      BY <3>1, <3>2, <3>3 DEF FileSound, DepsMade
    <3> QED BY <3>1, <3>4 DEF FileSound, Made
  <2>3. ASSUME pc = "done"
        PROVE  status > 0 <=> \E i \in 1..Len(makefile.goals) :
                                  \E e \in ToSet(Entries(makefile.goals[i])) :
                                      update_status[e] > 0
    <3>1. status > 0 => \E i \in 1..Len(makefile.goals) :
                           update_status[makefile.goals[i]] > 0
      BY <2>1 DEF GoalsSound
    <3>2. \A i \in 1..Len(makefile.goals) :
             update_status[makefile.goals[i]] > 0 => status > 0
      BY <1>1, <2>3, PlainDone
    <3>3. \A i \in 1..Len(makefile.goals) :
             ToSet(Entries(makefile.goals[i])) = {makefile.goals[i]}
      BY <1>1, PlainGoals
    <3> QED BY <3>1, <3>2, <3>3
  <2> QED BY <2>2, <2>3 DEF FailureReachesTheGoal
<1> QED BY <1>1, PlainInvariance, PTL

(* A target of a plain makefile whose recipe was not run was up to date,   *)
(* and none of its prerequisites has been made since.                      *)
THEOREM UpToDateHolds == Spec /\ Plain(makefile) => []UpToDate
PROOF
<1>1. ASSUME PlainInv PROVE UpToDate
  <2> SUFFICES ASSUME NEW f \in updated, Made(f), makefile.cmds[f] = "commands",
                      recipe[f] = "idle"
               PROVE  /\ last_mtime[f] > 0
                      /\ \A i \in 1..Len(deps[f]) :
                            LET d == deps[f][i] IN
                            d.ignore_mtime \/ d.file \in makefile.intermediate
                               \/ last_mtime[d.file] \in 1..last_mtime[f]
    BY DEF UpToDate
  <2>1. f \in Files /\ FileSound(f)
    BY <1>1 DEF PlainInv, TypeInv, TypeOK, FilesSound
  <2>2. /\ last_mtime[f] > 0
        /\ \A j \in 1..Len(deps[f]) : Recent(f, j, last_mtime[f])
    BY <2>1 DEF FileSound
  <2> QED BY <2>2 DEF Recent, DepFile
<1> QED BY <1>1, PlainInvariance, PTL

-----------------------------------------------------------------------------
(* Nothing is taken up that the goals do not need, by the prerequisites    *)
(* that are left: a circular one is dropped only when there is another way *)
(* to it, the path make is on.                                             *)
Closed(S) ==
    /\ \A i \in 1..Len(makefile.goals) : makefile.goals[i] \in S
    /\ \A g \in S : \A j \in 1..Len(deps[g]) : DepFile(g, j) \in S
Reached(f) == \A S \in SUBSET Files : Closed(S) => f \in S
BegunReached == \A f \in Files : Begun(f) => Reached(f)

(* The path leads from the goals to each procedure on it.                  *)
LEMMA PathIn ==
  ASSUME PlainInv, NEW S, \A i \in 1..Len(makefile.goals) : makefile.goals[i] \in S,
         NEW m \in Nat,
         \A j \in Depth : j > m /\ Considering(j) /\ stack[j].at = "deps"
                          /\ j > 1 /\ stack[j].file \in S
                          => DepFile(stack[j].file, stack[j].i) \in S,
         NEW k \in Depth, m <= k, k < Len(stack)
  PROVE  stack[k].file \in S
PROOF
<1> DEFINE Bad == {q \in Depth : m <= q /\ q < Len(stack) /\ stack[q].file \notin S}
<1> SUFFICES ASSUME Bad # {} PROVE FALSE
  OBVIOUS
<1>1. /\ TypeInv /\ StackOK /\ Linked /\ GoalsSound /\ stack \in Seq(Frames)
      /\ Len(stack) \in Nat
  BY LenProperties DEF PlainInv, TypeInv, StackOK
<1>2. Bad \in SUBSET Nat /\ \A q \in Bad : q <= Len(stack)
  BY <1>1 DEF Depth
<1>3. PICK q \in Bad : \A r \in Bad : r <= q
  BY <1>1, <1>2, Greatest
<1>4. /\ q \in Depth /\ q + 1 \in Depth /\ q < Len(stack) /\ m <= q + 1 /\ q + 1 > m /\ q + 1 > 1
      /\ ~(q + 1 <= q) /\ q \in Nat
  BY <1>1, <1>3 DEF Depth
<1>5. PICK G, F : G = stack[q] /\ F = stack[q + 1]
  OBVIOUS
<1>6. Link(G, F) /\ Waits(F) /\ Calls(F) /\ G \in Frames /\ F \in Frames
  BY <1>1, <1>4, <1>5, ElementOfSeq DEF Linked, StackOK, Depth
<1>7. G.proc \in {"update_file", "update_file_1", "check_dep", "new_job"}
  <2>1. G.proc # "update_goal_chain"
    BY <1>1, <1>4, <1>5 DEF StackOK, Depth
  <2> QED BY <1>6, <2>1 DEF Frames, GoalsFrames, UpdateFileFrames, UpdateFile1Frames,
                            CheckDepFrames, NewJobFrames
<1>8. F.proc = "update_goal_chain" <=> q + 1 = Len(stack)
  BY <1>1, <1>4, <1>5 DEF StackOK, Depth
<1>9. CASE q + 1 = Len(stack)
  <2>1. G.file = goals[F.g] /\ F.g \in 1..Len(goals)
    BY <1>6, <1>7, <1>8, <1>9 DEF Link, Calls
  <2>2. G.file \in S
    BY <1>1, <2>1 DEF GoalsSound
  <2> QED BY <1>3, <1>5, <2>2
<1>10. CASE q + 1 # Len(stack)
  <2>1. q + 1 < Len(stack)
    BY <1>1, <1>4, <1>10
  <2>2. F.file \in S
    BY <1>3, <1>4, <1>5, <2>1
  <2>3. G.file = F.file \/ (F.proc = "update_file_1" /\ F.at = "deps"
                            /\ G.file = DepFile(F.file, F.i))
    BY <1>6, <1>7, <1>8, <1>10 DEF Link
  <2>4. F.proc = "update_file_1" /\ F.at = "deps" => DepFile(F.file, F.i) \in S
    BY <1>4, <1>5, <2>2 DEF Considering
  <2> QED BY <1>3, <1>5, <2>2, <2>3, <2>4
<1> QED BY <1>9, <1>10

LEMMA PathReached ==
  ASSUME PlainInv, NEW k \in Depth, k < Len(stack)
  PROVE  Reached(stack[k].file)
PROOF
<1> SUFFICES ASSUME NEW S \in SUBSET Files, Closed(S) PROVE stack[k].file \in S
  BY DEF Reached
<1>1. Linked /\ StackOK /\ k \in Nat /\ Len(stack) \in Nat
  BY LenProperties DEF PlainInv, TypeInv, StackOK, Depth
<1>2. ASSUME NEW j \in Depth, Considering(j), stack[j].at = "deps", j > 1, stack[j].file \in S
      PROVE  DepFile(stack[j].file, stack[j].i) \in S
  <2>1. PICK F : F = stack[j]
    OBVIOUS
  <2>2. F \in Frames /\ Waits(F) /\ F.proc = "update_file_1" /\ F.at = "deps" /\ F.file \in S
    BY <1>1, <1>2, <2>1, FrameOfStack DEF Linked, Considering, Depth
  <2>3. F \in UpdateFile1Frames
    BY <2>2, FrameTypes
  <2>4. F.i \in 1..Len(deps[F.file])
    <3>1. deps \in [Files -> Seq(Dep)] /\ F.file \in Files /\ F.i \in Nat \ {0}
      BY <2>3 DEF PlainInv, TypeInv, TypeOK, UpdateFile1Frames
    <3> QED BY <2>2, <3>1, LenProperties DEF Waits
  <2> QED BY <2>1, <2>2, <2>4 DEF Closed
<1>3. \A i \in 1..Len(makefile.goals) : makefile.goals[i] \in S
  BY DEF Closed
<1>4. 0 \in Nat /\ 0 <= k
  BY <1>1
<1> QED BY <1>2, <1>3, <1>4, PathIn

(* Who is taken up is the target make is at.                               *)
LEMMA BegunAtTop ==
  ASSUME PlainInv, [Next]_vars, NEW f \in Files, ~Begun(f), Begun(f)'
  PROVE  /\ stack # << >> /\ f = Top.file
         /\ Top.proc \in {"update_file_1", "new_job"}
PROOF
<1>1. TypeInv /\ Plain(makefile) /\ FilesSound
  BY DEF PlainInv
<1>2. command_state[f] = "not_started" /\ command_state'[f] # "not_started"
  BY DEF Begun
<1>3. UNCHANGED command_state => FALSE
  BY <1>2
<1>4. \A g, result : Reap(g, result) => FALSE
  <2> SUFFICES ASSUME NEW g, NEW result, Reap(g, result) PROVE FALSE
    OBVIOUS
  <2>1. g \in jobs /\ g \in Files
    BY <1>1 DEF Reap, TypeInv, TypeOK
  <2>2. PICK touched \in BOOLEAN :
           Notice(g, IF result = "won" THEN 0 ELSE 2, command_state[g] = "running", touched)
    BY DEF Reap
  <2>3. PICK s \in -1..2 : s = IF result = "won" THEN 0 ELSE 2
    OBVIOUS
  <2>4. PICK ran \in BOOLEAN : ran = (command_state[g] = "running")
    OBVIOUS
  <2>5. Notice(g, s, ran, touched)
    BY <2>2, <2>3, <2>4
  <2>6. command_state' = [command_state EXCEPT ![g] = "finished"]
    BY <1>1, <2>1, <2>5, PlainNotice
  <2>7. command_state[g] = "running"
    BY <1>1, <2>1 DEF FilesSound, FileSound
  <2> QED BY <1>1, <1>2, <2>1, <2>6, <2>7 DEF TypeInv, TypeOK
<1>5. \A g \in Files, s \in -1..2, ran \in BOOLEAN, touched \in BOOLEAN :
         Notice(g, s, ran, touched) => f = g
  BY <1>1, <1>2, PlainNotice DEF TypeInv, TypeOK
<1>6. \A s : \A g \in Files : SetCommandState(g, s) => f = g
  BY <1>1, <1>2, PlainSet DEF TypeInv, TypeOK
<1>7. \A g \in Files : Notice(g, 0, TRUE, FALSE) => f = g
  <2>1. 0 \in -1..2 /\ TRUE \in BOOLEAN /\ FALSE \in BOOLEAN
    OBVIOUS
  <2> QED BY <1>5, <2>1, Zenon
<1>8. stack # << >> => Top.file \in Files \/ Top.proc = "update_goal_chain"
  BY TopFacts, ActiveFrames
<1>9. \A g, s, touched : g \in Files /\ s \in -1..2 /\ touched \in BOOLEAN /\ NoticeUnmade(g, s)
                         => f = g
  BY <1>5 DEF NoticeUnmade
<1>10. UNCHANGED vars \/ UpdateGoalChain \/ UpdateFileSteps \/ CheckDepSteps => FALSE
  <2>1. UNCHANGED vars => FALSE
    BY <1>3 DEF vars, file
  <2>2. UpdateGoalChain => FALSE
    BY <1>3, <1>4 DEF UpdateGoalChain, StartWaitingJobs, ReapBeforePass, ConsiderGoal,
                      GoalConsidered, EndPass, file
  <2>3. UpdateFileSteps => FALSE
    BY <1>3 DEF UpdateFileSteps, Prune, ConsiderFirstEntry, EntryConsidered,
                StartRemainingDeps, RemainingDepStarted, file
  <2>4. CheckDepSteps => FALSE
    BY <1>3, PlainNever DEF CheckDepSteps, CheckDepStart, CheckedFileUpdated, file
  <2> QED BY <2>1, <2>2, <2>3, <2>4
<1>11. CASE UpdateFile1Steps
  <2>1. stack # << >> /\ Top.proc = "update_file_1"
    BY <1>11 DEF UpdateFile1Steps, ConsiderTarget, ConsiderDep, DepConsidered,
                 ConsiderIntermediate, IntermediateConsidered, Decide, NoNeedToRemake,
                 RemakeWithoutCommands, RemakeBlank, RemakeFile, FileRemade, At, In
  <2>2. PICK T \in UpdateFile1Frames : T = Top /\ T.file \in Files /\ T.status \in -1..2
    BY <2>1, WalkFacts DEF UpdateFile1Frames
  <2>3. update_status[T.file] \in -1..2
    BY <1>1, <2>2 DEF TypeInv, TypeOK
  <2>4. \A s \in -1..2 : NoticeUnmade(T.file, s) => f = T.file
    BY <1>9, <2>2
  <2>5. ConsiderTarget \/ ConsiderDep \/ DepConsidered \/ ConsiderIntermediate
        \/ IntermediateConsidered \/ RemakeFile \/ FileRemade => FALSE
    BY <1>3 DEF ConsiderTarget, ConsiderDep, DepConsidered, ConsiderIntermediate,
                IntermediateConsidered, RemakeFile, FileRemade, file
  <2>6. Decide => f = T.file
    <3> SUFFICES ASSUME Decide PROVE f = T.file
      OBVIOUS
    <3>1. \/ \E s : SetCommandState(T.file, s)
          \/ NoticeUnmade(T.file, T.status)
          \/ UNCHANGED command_state
      BY <2>2 DEF Decide
    <3> QED BY <1>3, <1>6, <2>2, <2>4, <3>1
  <2>7. NoNeedToRemake => f = T.file
    BY <2>2, <2>3, <2>4 DEF NoNeedToRemake
  <2>8. RemakeWithoutCommands => f = T.file
    <3>1. RemakeWithoutCommands => \/ NoticeUnmade(T.file, 0) \/ NoticeUnmade(T.file, 2)
                                   \/ UNCHANGED command_state
      BY <2>2 DEF RemakeWithoutCommands
    <3> QED BY <1>3, <2>4, <3>1
  <2>9. RemakeBlank => f = T.file
    BY <1>7, <2>2 DEF RemakeBlank
  <2> QED BY <1>11, <2>1, <2>2, <2>5, <2>6, <2>7, <2>8, <2>9 DEF UpdateFile1Steps
<1>12. CASE NewJobSteps
  <2>1. stack # << >> /\ Top.proc = "new_job"
    BY <1>12 DEF NewJobSteps, ReapInNewJob, StartJob, JobOverAtOnce, LinearWait, In
  <2>2. PICK g \in Files : g = Top.file
    BY <1>8, <2>1
  <2>3. ReapInNewJob \/ LinearWait => FALSE
    BY <1>3, <1>4 DEF ReapInNewJob, LinearWait
  <2>4. StartJob => f = g
    BY <1>6, <2>2 DEF StartJob
  <2>5. JobOverAtOnce => f = g
    <3>1. JobOverAtOnce => \/ Notice(g, 0, TRUE, FALSE) \/ NoticeUnmade(g, 2)
      BY <2>2 DEF JobOverAtOnce, NoticeUnmade
    <3>2. 2 \in -1..2 /\ FALSE \in BOOLEAN
      OBVIOUS
    <3>3. NoticeUnmade(g, 2) => f = g
      BY <1>9, <3>2, Zenon
    <3> QED BY <1>7, <3>1, <3>3
  <2> QED BY <1>12, <2>1, <2>2, <2>3, <2>4, <2>5 DEF NewJobSteps
<1> QED BY <1>10, <1>11, <1>12 DEF Next

(* A dropped prerequisite is reached without the edge that is dropped.     *)
LEMMA ReachedWithout ==
  ASSUME PlainInv, PlainInv', stack # << >>, pc = "call", Top.proc = "update_file_1",
         Top.at = "deps", ~(Top.i > Len(deps[Top.file])),
         Circular(deps[Top.file][Top.i]), ConsiderDep,
         NEW S \in SUBSET Files, Closed(S)'
  PROVE  Closed(S)
PROOF
<1>1. DropDep(Top.file, Top.i) /\ UNCHANGED makefile
  BY DEF ConsiderDep
<1>2. PICK f \in Files, T \in UpdateFile1Frames : f = Top.file /\ T = Top
  BY WalkFacts
<1>3. /\ TypeInv /\ StackOK /\ TypeOK /\ makefile \in Makefiles /\ Plain(makefile)
      /\ OnPath /\ Linked /\ Top = stack[1]
      /\ Len(stack) \in Nat \ {0} /\ stack \in Seq(Frames)
  BY TopFacts DEF PathSound, StackOK
<1>4. deps[f] \in Seq(Dep) /\ Len(deps[f]) \in Nat /\ T.i \in 1..Len(deps[f])
  <2>1. deps[f] \in Seq(Dep) /\ T.i \in Nat \ {0}
    BY <1>2, <1>3 DEF TypeOK, UpdateFile1Frames
  <2> QED BY <1>2, <2>1, LenProperties
<1>5. PICK d \in Files : d = DepFile(f, T.i)
  BY <1>3, <1>4, DepFiles
<1>6. d \in updating
  BY <1>2, <1>3, <1>5, PlainEntries DEF Circular, DepFile
<1>7. /\ deps'[f] = RemoveAt(deps[f], T.i)
      /\ \A g \in Files \ {f} : deps'[g] = deps[g]
  BY <1>1, <1>2, <1>3 DEF DropDep, TypeOK
<1>8. /\ Len(deps'[f]) = Len(deps[f]) - 1
      /\ \A j \in 1..(Len(deps[f]) - 1) :
            deps'[f][j] = IF j < T.i THEN deps[f][j] ELSE deps[f][j + 1]
  BY <1>4, <1>7, RemoveAtProperties
<1>9. /\ \A i \in 1..Len(makefile.goals) : makefile.goals[i] \in S
      /\ \A g \in S : \A j \in 1..Len(deps'[g]) : deps'[g][j].file \in S
  BY <1>1 DEF Closed, DepFile
<1>10. \A g \in S \ {f} : \A j \in 1..Len(deps[g]) : DepFile(g, j) \in S
  BY <1>7, <1>9 DEF DepFile
<1>11. f \in S => \A j \in 1..Len(deps[f]) : j # T.i => DepFile(f, j) \in S
  <2> SUFFICES ASSUME f \in S, NEW j \in 1..Len(deps[f]), j # T.i PROVE DepFile(f, j) \in S
    OBVIOUS
  <2>1. PICK q \in 1..(Len(deps[f]) - 1) : q = IF j < T.i THEN j ELSE j - 1
    BY <1>4
  <2>2. IF q < T.i THEN q = j ELSE q + 1 = j
    BY <1>4, <2>1
  <2>3. deps'[f][q] = deps[f][j]
    BY <1>8, <2>1, <2>2
  <2>4. q \in 1..Len(deps'[f])
    BY <1>8, <2>1
  <2> QED BY <1>9, <2>3, <2>4 DEF DepFile
<1>12. f \in S => d \in S
  <2> SUFFICES ASSUME f \in S, d # f PROVE d \in S
    OBVIOUS
  <2>1. PICK k \in Depth : /\ stack[k].file = d
                           /\ stack[k].proc \in {"update_file_1", "check_dep"}
    BY <1>3, <1>6 DEF OnPath, Considering
  <2>2. k # 1 /\ k \in Nat /\ 1 \in Nat /\ 1 <= k
    BY <1>2, <1>3, <2>1 DEF Depth
  <2>3. k < Len(stack)
    <3>1. stack[k].proc = "update_goal_chain" <=> k = Len(stack)
      BY <1>3 DEF StackOK, Depth
    <3> QED BY <1>3, <2>1, <3>1 DEF Depth
  <2>4. ASSUME NEW j \in Depth, Considering(j), stack[j].at = "deps", j > 1, stack[j].file \in S
        PROVE  DepFile(stack[j].file, stack[j].i) \in S
    <3>1. PICK F : F = stack[j]
      OBVIOUS
    <3>2. F \in Frames /\ Waits(F) /\ F.proc = "update_file_1" /\ F.at = "deps" /\ F.file \in S
      BY <1>3, <2>4, <3>1, FrameOfStack DEF Linked, Considering, Depth
    <3>3. F \in UpdateFile1Frames
      BY <3>2, FrameTypes
    <3>4. F.i \in 1..Len(deps[F.file])
      <4>1. deps \in [Files -> Seq(Dep)] /\ F.file \in Files /\ F.i \in Nat \ {0}
        BY <1>3, <3>3 DEF TypeOK, UpdateFile1Frames
      <4> QED BY <3>2, <4>1, LenProperties DEF Waits
    <3>5. F.file # f
      <4>1. j \in 2..Len(stack)
        BY <1>3, <2>4 DEF Depth
      <4> QED BY <1>2, <2>4, <3>1, <4>1, WalkFacts
    <3> QED BY <1>10, <3>1, <3>2, <3>4, <3>5
  <2> QED BY <1>9, <2>1, <2>2, <2>3, <2>4, PathIn
<1>13. ASSUME NEW g \in S, NEW j \in 1..Len(deps[g]) PROVE DepFile(g, j) \in S
  BY <1>5, <1>10, <1>11, <1>12
<1> QED BY <1>9, <1>13 DEF Closed

LEMMA ClosedBefore ==
  ASSUME PlainInv, PlainInv', [Next]_vars, NEW S \in SUBSET Files, Closed(S)'
  PROVE  Closed(S)
PROOF
<1>1. UNCHANGED <<makefile, deps>> => Closed(S)
  BY DEF Closed, DepFile
<1>2. UNCHANGED vars => UNCHANGED <<makefile, deps>>
  BY DEF vars, file
<1>3. UpdateGoalChain => UNCHANGED <<makefile, deps>>
  BY DEF UpdateGoalChain, StartWaitingJobs, ReapBeforePass, ConsiderGoal, GoalConsidered,
         EndPass, file
<1>4. UpdateFileSteps => UNCHANGED <<makefile, deps>>
  BY DEF UpdateFileSteps, Prune, ConsiderFirstEntry, EntryConsidered, StartRemainingDeps,
         RemainingDepStarted, file
<1>5. CheckDepSteps => UNCHANGED <<makefile, deps>>
  BY PlainNever DEF CheckDepSteps, CheckDepStart, CheckedFileUpdated, file
<1>6. NewJobSteps => UNCHANGED <<makefile, deps>>
  BY DEF NewJobSteps, ReapInNewJob, StartJob, JobOverAtOnce, LinearWait
<1>7. CASE ConsiderDep
  <2>1. /\ stack # << >> /\ pc = "call" /\ Top.proc = "update_file_1" /\ Top.at = "deps"
    BY <1>7 DEF ConsiderDep, At, In
  <2>2. CASE Top.i > Len(deps[Top.file]) \/ ~Circular(deps[Top.file][Top.i])
    BY <1>1, <1>7, <2>2 DEF ConsiderDep
  <2>3. CASE ~(Top.i > Len(deps[Top.file])) /\ Circular(deps[Top.file][Top.i])
    BY <1>7, <2>1, <2>3, ReachedWithout
  <2> QED BY <2>2, <2>3
<1>8. UpdateFile1Steps /\ ~ConsiderDep => UNCHANGED <<makefile, deps>>
  BY DEF UpdateFile1Steps, ConsiderTarget, DepConsidered, ConsiderIntermediate,
         IntermediateConsidered, Decide, NoNeedToRemake, RemakeWithoutCommands, RemakeBlank,
         RemakeFile, FileRemade, file
<1> QED BY <1>1, <1>2, <1>3, <1>4, <1>5, <1>6, <1>7, <1>8 DEF Next

LEMMA BegunReachedNext ==
  ASSUME PlainInv, PlainInv', BegunReached, [Next]_vars
  PROVE  BegunReached'
PROOF
<1>1. ASSUME NEW f \in Files, Reached(f) PROVE Reached(f)'
  <2> SUFFICES ASSUME NEW S \in SUBSET Files, Closed(S)' PROVE f \in S
    BY DEF Reached
  <2> QED BY <1>1, ClosedBefore DEF Reached
<1> SUFFICES ASSUME NEW f \in Files, Begun(f)' PROVE Reached(f)
  BY <1>1 DEF BegunReached
<1>2. CASE Begun(f)
  BY <1>2 DEF BegunReached
<1>3. CASE ~Begun(f)
  <2>1. /\ stack # << >> /\ f = Top.file /\ Top.proc \in {"update_file_1", "new_job"}
    BY <1>3, BegunAtTop
  <2>2. /\ Len(stack) \in Nat \ {0} /\ 1 \in Depth /\ stack[1] = Top
        /\ Len(stack) # 1
    BY <2>1, TopFacts
  <2>3. 1 < Len(stack)
    <3>1. \A n \in Nat \ {0} : n # 1 => 1 < n
      OBVIOUS
    <3> QED BY <2>2, <3>1
  <2> QED BY <2>1, <2>2, <2>3, PathReached
<1> QED BY <1>2, <1>3

(* With -k, or without a failure, everything the goals of a plain makefile *)
(* need has been seen to when make comes to its end.  What was given up    *)
(* because of a failure can be told from the exit status, since make takes *)
(* up nothing that the goals do not depend on.                             *)
THEOREM NothingForgottenHolds ==
  Spec /\ Plain(makefile) => []NothingForgotten
PROOF
<1>1. Init => BegunReached
  BY DEF Init, BegunReached, Begun
<1>2. PlainInv /\ PlainInv' /\ BegunReached /\ [Next]_vars => BegunReached'
  BY BegunReachedNext
<1>3. ASSUME PlainInv, BegunReached PROVE NothingForgotten
  <2> SUFFICES ASSUME pc = "done", makefile.keep_going \/ status <= 0
               PROVE  /\ \A i \in 1..Len(makefile.goals) :
                            ToSet(Entries(makefile.goals[i])) \subseteq updated
                      /\ \A f \in updated : Needed(f) \ makefile.intermediate \subseteq updated
    BY DEF NothingForgotten
  <2>1. TypeInv /\ Plain(makefile) /\ FilesSound
    BY <1>3 DEF PlainInv
  <2>2. ASSUME NEW i \in 1..Len(makefile.goals)
        PROVE  ToSet(Entries(makefile.goals[i])) \subseteq updated
    BY <1>3, PlainDone, PlainGoals
  <2>3. ASSUME NEW f \in updated PROVE \A j \in 1..Len(deps[f]) : DepFile(f, j) \in updated
    <3>1. f \in Files /\ FileSound(f)
      BY <2>1 DEF TypeInv, TypeOK, FilesSound
    <3>2. CASE makefile.keep_going
      BY <3>1, <3>2 DEF FileSound
    <3>3. CASE status <= 0
      <4> DEFINE S == {g \in Files : Made(g)}
      <4>1. ASSUME NEW i \in 1..Len(makefile.goals) PROVE makefile.goals[i] \in S
        <5>1. PICK g \in Files : g = makefile.goals[i]
          BY <1>3, PlainGoals
        <5>2. g \in updated /\ ~(update_status[g] > 0) /\ update_status[g] \in -1..2
          <6>1. status \in -1..2 /\ update_status[g] \in -1..2
            BY <2>1 DEF TypeInv, TypeOK
          <6> QED BY <1>3, <3>3, <5>1, <6>1, PlainDone
        <5>3. update_status[g] # -1
          BY <2>1, <5>2 DEF FilesSound, FileSound
        <5> QED BY <5>1, <5>2, <5>3 DEF Made
      <4>2. ASSUME NEW g \in S, NEW j \in 1..Len(deps[g]) PROVE DepFile(g, j) \in S
        <5>1. DepsMade(g) /\ g \in Files
          BY <2>1 DEF FilesSound, FileSound
        <5> QED BY <2>1, <5>1, DepFiles DEF DepsMade
      <4>3. Closed(S)
        BY <4>1, <4>2 DEF Closed
      <4>4. Reached(f)
        BY <1>3, <3>1 DEF BegunReached, Begun, FileSound
      <4>5. f \in S
        BY <4>3, <4>4 DEF Reached
      <4>6. DepsMade(f)
        BY <3>1, <4>5 DEF FileSound
      <4> QED BY <4>6 DEF DepsMade, Made
    <3> QED BY <3>2, <3>3
  <2>4. ASSUME NEW f \in updated, NEW d \in Needed(f) PROVE d \in updated
    <3>1. f \in Files
      BY <2>1 DEF TypeInv, TypeOK
    <3> QED BY <2>1, <2>3, <2>4, <3>1, PlainNeeds
  <2> QED BY <2>2, <2>4
<1> QED BY <1>1, <1>2, <1>3, PlainInvariance, PTL DEF Spec
=============================================================================
