---------------------------- MODULE SubProcProofs ----------------------------
(***************************************************************************)
(* Theorems about the process layer, for any commands and any number of    *)
(* wait slots.                                                             *)
(***************************************************************************)
EXTENDS SubProc, ChainLemmas, FiniteSetTheorems

(* The places of a list without repetition that hold elements of Q are as  *)
(* many as those elements.                                                 *)
LEMMA PlacesOnChain ==
  ASSUME NEW S, NEW s \in Seq(S), IsInjective(s), NEW Q
  PROVE  /\ IsFiniteSet(ToSet(s) \cap Q)
         /\ Cardinality({i \in 1..Len(s) : s[i] \in Q}) =
               Cardinality(ToSet(s) \cap Q)
PROOF
<1> DEFINE I == {i \in 1..Len(s) : s[i] \in Q}
           T == ToSet(s) \cap Q
           h == [i \in I |-> s[i]]
<1>1. Len(s) \in Nat /\ DOMAIN s = 1..Len(s)
  BY LenProperties
<1>2. IsFiniteSet(I)
  <2>1. IsFiniteSet(1..Len(s))
    BY <1>1, FS_Interval
  <2>2. I \in SUBSET (1..Len(s))
    OBVIOUS
  <2> QED BY <2>1, <2>2, FS_Subset
<1>3. h \in Bijection(I, T)
  <2>1. h \in [I -> T]
    BY <1>1 DEF ToSet
  <2>2. \A i, j \in I : h[i] = h[j] => i = j
    BY <1>1 DEF IsInjective
  <2>3. \A p \in T : \E i \in I : h[i] = p
    BY <1>1 DEF ToSet
  <2> QED BY <2>1, <2>2, <2>3 DEF Bijection, Injection, Surjection, IsInjective
<1>4. ExistsBijection(I, T)
  BY <1>3 DEF ExistsBijection
<1> QED BY <1>2, <1>4, FS_Bijection

(* What is in the array was launched and is there once.                    *)
Registered ==
    /\ IsInjective(proc_array)
    /\ \A p \in ToSet(proc_array) : command[p] \notin {"new", "refused"}

IInv == SubProcTypeOK /\ Registered /\ FakeExitsCounted

Stillborn == {p \in Proc : command[p] = "stillborn"}
UnreportedFakes == ToSet(proc_array) \cap Stillborn

(* The count in terms of processes instead of places.                      *)
LEMMA CountedOnce ==
  ASSUME SubProcTypeOK, IsInjective(proc_array)
  PROVE  /\ IsFiniteSet(UnreportedFakes)
         /\ Cardinality(UnreportedFakes) \in Nat
         /\ FakeExitsCounted <=> fake_exits_pending = Cardinality(UnreportedFakes)
PROOF
<1>1. proc_array \in Seq(Proc)
  BY DEF SubProcTypeOK
<1>2. \A i \in 1..Len(proc_array) :
         proc_array[i] \in Stillborn <=> command[proc_array[i]] = "stillborn"
  BY <1>1, ElementOfSeq DEF Stillborn
<1>3. {i \in 1..Len(proc_array) : command[proc_array[i]] = "stillborn"} =
         {i \in 1..Len(proc_array) : proc_array[i] \in Stillborn}
  BY <1>2
<1>4. /\ IsFiniteSet(UnreportedFakes)
      /\ Cardinality({i \in 1..Len(proc_array) : proc_array[i] \in Stillborn}) =
            Cardinality(UnreportedFakes)
  BY <1>1, PlacesOnChain DEF UnreportedFakes
<1> QED BY <1>3, <1>4, FS_CardinalityType DEF FakeExitsCounted

(* A new process joins the array at its end.                               *)
LEMMA Joins ==
  ASSUME IInv, NEW p \in Proc, command[p] = "new",
         proc_array' = Append(proc_array, p)
  PROVE  /\ proc_array' \in Seq(Proc)
         /\ IsInjective(proc_array')
         /\ ToSet(proc_array') = ToSet(proc_array) \cup {p}
         /\ p \notin ToSet(proc_array)
PROOF
<1>1. proc_array \in Seq(Proc) /\ p \notin ToSet(proc_array)
  BY DEF IInv, SubProcTypeOK, Registered
<1> QED BY <1>1, AppendToChain DEF IInv, Registered

(* The process that a wait reports was in the array and is dead, and if    *)
(* there are fake exits it is one.                                         *)
LEMMA Reported ==
  ASSUME IInv, NEW p \in Proc, ProcessWaitForAny(p)
  PROVE  /\ p \in ToSet(proc_array)
         /\ command[p] \in {"won", "lost", "stillborn"}
         /\ fake_exits_pending > 0 => command[p] = "stillborn"
         /\ proc_array' \in Seq(Proc)
         /\ IsInjective(proc_array')
         /\ ToSet(proc_array') = ToSet(proc_array) \ {p}
PROOF
<1>1. PICK i \in Reportable :
         /\ p = proc_array[i]
         /\ proc_array' = RemoveAt(proc_array, i)
  BY DEF ProcessWaitForAny
<1>2. i \in 1..Len(proc_array) /\ proc_array \in Seq(Proc)
  BY <1>1 DEF Reportable, IInv, SubProcTypeOK
<1>3. p \in ToSet(proc_array)
  BY <1>1, <1>2, LenProperties DEF ToSet
<1>4. command[p] \in Fates \ {"new", "refused"}
  BY <1>3 DEF IInv, SubProcTypeOK, Registered
<1>5. /\ command[p] # "live"
      /\ fake_exits_pending > 0 => command[p] = "stillborn"
  BY <1>1 DEF Reportable
<1>6. /\ proc_array' \in Seq(Proc)
      /\ IsInjective(proc_array')
      /\ ToSet(proc_array') = ToSet(proc_array) \ {p}
  BY <1>1, <1>2, RemoveAtProperties, RemoveFromChain DEF IInv, Registered
<1> QED BY <1>3, <1>4, <1>5, <1>6 DEF Fates

LEMMA InvInit == SubProcInit => IInv
PROOF
<1> SUFFICES ASSUME SubProcInit PROVE IInv
  OBVIOUS
<1>1. proc_array = << >> /\ ToSet(proc_array) = {} /\ IsInjective(proc_array)
  BY EmptySeq DEF SubProcInit, ToSet, IsInjective
<1>2. SubProcTypeOK
  BY EmptySeq DEF SubProcInit, SubProcTypeOK, Fates
<1>3. Registered
  BY <1>1 DEF Registered
<1>4. UnreportedFakes = {}
  BY <1>1 DEF UnreportedFakes
<1>5. FakeExitsCounted
  BY <1>1, <1>2, <1>4, CountedOnce, FS_EmptySet DEF SubProcInit
<1> QED BY <1>2, <1>3, <1>5 DEF IInv

(* The count changes with the set it counts: a stillborn process joins the *)
(* array as the count goes up, and as long as there is one nothing else is *)
(* reported.                                                               *)
LEMMA InvStep == IInv /\ [SubProcNext]_os => IInv'
PROOF
<1> SUFFICES ASSUME IInv, [SubProcNext]_os PROVE IInv'
  OBVIOUS
<1> DEFINE fakes == Cardinality(UnreportedFakes)
<1>1. SubProcTypeOK /\ Registered
  BY DEF IInv
<1>2. /\ IsFiniteSet(UnreportedFakes)
      /\ fakes \in Nat
      /\ fake_exits_pending = fakes
  BY <1>1, CountedOnce DEF IInv, Registered
<1>3. SUFFICES /\ SubProcTypeOK'
               /\ Registered'
               /\ fake_exits_pending' = Cardinality(UnreportedFakes')
  <2>1. ASSUME SubProcTypeOK', Registered',
               fake_exits_pending' = Cardinality(UnreportedFakes')
        PROVE  FakeExitsCounted'
    <3>1. proc_array' \in Seq(Proc) /\ IsInjective(proc_array')
      BY <2>1 DEF SubProcTypeOK, Registered
    <3>2. {i \in 1..Len(proc_array') : command'[proc_array'[i]] = "stillborn"} =
             {i \in 1..Len(proc_array') : proc_array'[i] \in Stillborn'}
      BY <3>1, ElementOfSeq DEF Stillborn
    <3>3. Cardinality({i \in 1..Len(proc_array') : proc_array'[i] \in Stillborn'})
             = Cardinality(UnreportedFakes')
      BY <3>1, PlacesOnChain DEF UnreportedFakes
    <3> QED BY <2>1, <3>2, <3>3 DEF FakeExitsCounted
  <2> QED BY <2>1 DEF IInv
<1> HIDE DEF fakes
<1>4. CASE UNCHANGED os
  BY <1>1, <1>2, <1>4 DEF os, SubProcTypeOK, Registered, UnreportedFakes,
                          Stillborn, fakes
<1>5. ASSUME NEW p \in Proc, command[p] = "new", ProcessEasyRefused(p)
      PROVE  /\ SubProcTypeOK'
             /\ Registered'
             /\ fake_exits_pending' = Cardinality(UnreportedFakes')
  <2>1. p \notin ToSet(proc_array)
    BY <1>1, <1>5 DEF Registered
  <2>2. \A q \in ToSet(proc_array) : q \in Proc /\ command'[q] = command[q]
    BY <1>1, <1>5, <2>1, ElementOfSeq, LenProperties
       DEF ProcessEasyRefused, SubProcTypeOK, ToSet
  <2>3. SubProcTypeOK' /\ Registered'
    BY <1>1, <1>5, <2>2 DEF ProcessEasyRefused, SubProcTypeOK, Registered, Fates
  <2>4. UnreportedFakes' = UnreportedFakes
    BY <1>5, <2>2 DEF ProcessEasyRefused, UnreportedFakes, Stillborn
  <2> QED BY <1>2, <1>5, <2>3, <2>4 DEF ProcessEasyRefused, fakes
<1>6. ASSUME NEW p \in Proc, command[p] = "new",
             proc_array' = Append(proc_array, p),
             NEW fate \in {"live", "stillborn"},
             command' = [command EXCEPT ![p] = fate],
             fake_exits_pending' =
                IF fate = "stillborn" THEN fake_exits_pending + 1
                                      ELSE fake_exits_pending
      PROVE  /\ SubProcTypeOK'
             /\ Registered'
             /\ fake_exits_pending' = Cardinality(UnreportedFakes')
  <2>1. /\ proc_array' \in Seq(Proc)
        /\ IsInjective(proc_array')
        /\ ToSet(proc_array') = ToSet(proc_array) \cup {p}
        /\ p \notin ToSet(proc_array)
    BY <1>6, Joins
  <2>2. \A q \in Proc : command'[q] = IF q = p THEN fate ELSE command[q]
    BY <1>1, <1>6 DEF SubProcTypeOK
  <2>3. SubProcTypeOK'
    BY <1>1, <1>2, <1>6, <2>1 DEF SubProcTypeOK, Fates
  <2>4. ToSet(proc_array) \subseteq Proc
    BY <1>1, ElementOfSeq, LenProperties DEF SubProcTypeOK, ToSet
  <2>5. Registered'
    BY <1>1, <2>1, <2>2, <2>4 DEF Registered
  <2>6. UnreportedFakes' =
           UnreportedFakes \cup (IF fate = "stillborn" THEN {p} ELSE {})
    BY <2>1, <2>2, <2>4 DEF UnreportedFakes, Stillborn
  <2>7. p \notin UnreportedFakes
    BY <2>1 DEF UnreportedFakes
  <2>8. CASE fate = "stillborn"
    BY <1>2, <1>6, <2>3, <2>5, <2>6, <2>7, <2>8, FS_AddElement DEF fakes
  <2>9. CASE fate = "live"
    BY <1>2, <1>6, <2>3, <2>5, <2>6, <2>9 DEF fakes
  <2> QED BY <2>8, <2>9
<1>7. ASSUME NEW p \in Proc, Launch(p) \/ LaunchShell(p)
      PROVE  /\ SubProcTypeOK'
             /\ Registered'
             /\ fake_exits_pending' = Cardinality(UnreportedFakes')
  <2>1. command[p] = "new"
    BY <1>7 DEF Launch, LaunchShell
  <2>2. CASE ProcessEasyRefused(p)
    BY <1>5, <2>1, <2>2
  <2>3. CASE ProcessEasyBegun(p)
    <3>1. CASE command' = [command EXCEPT ![p] = "live"]
               /\ UNCHANGED fake_exits_pending
      <4>1. proc_array' = Append(proc_array, p)
        BY <2>3 DEF ProcessEasyBegun
      <4> QED BY <1>6, <2>1, <3>1, <4>1
    <3>2. CASE command' = [command EXCEPT ![p] = "stillborn"]
               /\ fake_exits_pending' = fake_exits_pending + 1
      <4>1. proc_array' = Append(proc_array, p)
        BY <2>3 DEF ProcessEasyBegun
      <4> QED BY <1>6, <2>1, <3>2, <4>1
    <3> QED BY <2>3, <3>1, <3>2 DEF ProcessEasyBegun
  <2>4. CASE OpenPipe(p) /\ ~Full
    <3>1. /\ proc_array' = Append(proc_array, p)
          /\ command' = [command EXCEPT ![p] = "live"]
          /\ UNCHANGED fake_exits_pending
      BY <2>4 DEF OpenPipe
    <3> QED BY <1>6, <2>1, <3>1
  <2>5. CASE OpenPipe(p) /\ Full
    <3>1. p \notin ToSet(proc_array)
      BY <1>1, <2>1 DEF Registered
    <3>2. \A q \in ToSet(proc_array) : q \in Proc /\ command'[q] = command[q]
      BY <1>1, <2>5, <3>1, ElementOfSeq, LenProperties
         DEF OpenPipe, SubProcTypeOK, ToSet
    <3>3. SubProcTypeOK' /\ Registered'
      BY <1>1, <2>5, <3>2 DEF OpenPipe, SubProcTypeOK, Registered, Fates
    <3>4. UnreportedFakes' = UnreportedFakes
      BY <2>5, <3>2 DEF OpenPipe, UnreportedFakes, Stillborn
    <3> QED BY <1>2, <2>5, <3>3, <3>4 DEF OpenPipe, fakes
  <2> QED BY <1>7, <2>2, <2>3, <2>4, <2>5 DEF Launch, LaunchShell
<1>8. ASSUME NEW p \in Proc, ProcessExit(p)
      PROVE  /\ SubProcTypeOK'
             /\ Registered'
             /\ fake_exits_pending' = Cardinality(UnreportedFakes')
  <2>1. PICK fate \in {"won", "lost"} : command' = [command EXCEPT ![p] = fate]
    BY <1>8 DEF ProcessExit
  <2>2. command[p] = "live" /\ UNCHANGED <<proc_array, fake_exits_pending>>
    BY <1>8 DEF ProcessExit
  <2>3. \A q \in Proc : command'[q] = IF q = p THEN fate ELSE command[q]
    BY <1>1, <2>1 DEF SubProcTypeOK
  <2>4. SubProcTypeOK'
    BY <1>1, <2>1, <2>2 DEF SubProcTypeOK, Fates
  <2>5. ToSet(proc_array) \subseteq Proc
    BY <1>1, ElementOfSeq, LenProperties DEF SubProcTypeOK, ToSet
  <2>6. Registered'
    BY <1>1, <2>2, <2>3, <2>5 DEF Registered
  <2>7. UnreportedFakes' = UnreportedFakes
    BY <2>2, <2>3, <2>5 DEF UnreportedFakes, Stillborn
  <2> QED BY <1>2, <2>2, <2>4, <2>6, <2>7 DEF fakes
<1>9. ASSUME NEW p \in Proc, ProcessWaitForAny(p)
      PROVE  /\ SubProcTypeOK'
             /\ Registered'
             /\ fake_exits_pending' = Cardinality(UnreportedFakes')
  <2>1. /\ p \in ToSet(proc_array)
        /\ fake_exits_pending > 0 => command[p] = "stillborn"
        /\ proc_array' \in Seq(Proc)
        /\ IsInjective(proc_array')
        /\ ToSet(proc_array') = ToSet(proc_array) \ {p}
    BY <1>9, Reported
  <2>2. /\ UNCHANGED command
        /\ fake_exits_pending' =
              IF fake_exits_pending > 0 THEN fake_exits_pending - 1 ELSE 0
    BY <1>9 DEF ProcessWaitForAny
  <2>3. SubProcTypeOK' /\ Registered'
    BY <1>1, <2>1, <2>2 DEF SubProcTypeOK, Registered
  <2>4. UnreportedFakes' = UnreportedFakes \ {p}
    BY <2>1, <2>2 DEF UnreportedFakes, Stillborn
  <2>5. CASE fake_exits_pending > 0
    <3>1. p \in UnreportedFakes
      BY <2>1, <2>5 DEF UnreportedFakes, Stillborn
    <3> QED BY <1>2, <2>2, <2>3, <2>4, <2>5, <3>1, FS_RemoveElement DEF fakes
  <2>6. CASE ~(fake_exits_pending > 0)
    <3>1. UnreportedFakes = {}
      BY <1>2, <2>6, FS_EmptySet DEF fakes
    <3> QED BY <1>2, <2>2, <2>3, <2>4, <2>6, <3>1 DEF fakes
  <2> QED BY <2>5, <2>6
<1> QED BY <1>4, <1>7, <1>8, <1>9 DEF SubProcNext

(* The inductive invariant.                                                *)
THEOREM Invariance == SubProcSpec => []IInv
PROOF
<1>1. SubProcInit => IInv
  BY InvInit
<1>2. IInv /\ [SubProcNext]_os => IInv'
  BY InvStep
<1> QED BY <1>1, <1>2, PTL DEF SubProcSpec

(* Type correctness of the process layer.                                  *)
THEOREM TypeCorrect == SubProcSpec => []SubProcTypeOK
PROOF
<1>1. IInv => SubProcTypeOK
  BY DEF IInv
<1> QED BY <1>1, Invariance, PTL

(* fake_exits_pending is always the number of failed launches not reported *)
(* yet, whatever is launched, exits and is waited for meanwhile.           *)
THEOREM FakeExitsAreCounted == SubProcSpec => []FakeExitsCounted
PROOF
<1>1. IInv => FakeExitsCounted
  BY DEF IInv
<1> QED BY <1>1, Invariance, PTL

(* The loop of process_wait_for_any that looks for a fake exit has no      *)
(* bound but the array's: there always is one to be found.                 *)
FakeExitFound == fake_exits_pending > 0 => Reportable # {}

THEOREM SearchEnds == SubProcSpec => []FakeExitFound
PROOF
<1>1. ASSUME IInv PROVE FakeExitFound
  <2>1. SUFFICES ASSUME fake_exits_pending > 0, Reportable = {} PROVE FALSE
    BY DEF FakeExitFound
  <2>2. {i \in 1..Len(proc_array) : command[proc_array[i]] = "stillborn"} = {}
    BY <2>1 DEF Reportable
  <2> QED BY <1>1, <2>1, <2>2, FS_EmptySet DEF IInv, FakeExitsCounted
<1>2. IInv => FakeExitFound
  BY <1>1
<1> QED BY <1>2, Invariance, PTL

-----------------------------------------------------------------------------
(* The refinement of WaitAny                                               *)

(* process_register does nothing when the array is full: a process started *)
(* for $(shell) would never be waited for.                                 *)
RoomForPipe == \A p \in Proc : LaunchShell(p) => ~Full

(* With room for it, every step is one of the abstract layer's: what was   *)
(* launched is awaited, and a wait takes out one process, a dead one.      *)
LEMMA StepRefines ==
  ASSUME IInv, [SubProcNext]_os, [RoomForPipe]_os
  PROVE  [Abstract!Next]_<<ToSet(proc_array), command>>
PROOF
<1>1. CASE UNCHANGED os
  BY <1>1 DEF os
<1>2. ASSUME NEW p \in Proc, command[p] = "new",
             proc_array' = Append(proc_array, p),
             NEW fate \in {"live", "stillborn"},
             command' = [command EXCEPT ![p] = fate]
      PROVE  Abstract!Next
  <2>1. ToSet(proc_array') = ToSet(proc_array) \cup {p}
    BY <1>2, Joins
  <2>2. Abstract!Begin(p, fate)
    BY <1>2, <2>1 DEF Abstract!Begin
  <2> QED BY <2>2 DEF Abstract!Next
<1>3. ASSUME NEW p \in Proc, Launch(p) PROVE Abstract!Next
  <2>1. command[p] = "new"
    BY <1>3 DEF Launch
  <2>2. CASE ProcessEasyRefused(p)
    <3>1. Abstract!Begin(p, "refused")
      BY <2>1, <2>2 DEF ProcessEasyRefused, Abstract!Begin
    <3> QED BY <3>1 DEF Abstract!Next
  <2>3. CASE ProcessEasyBegun(p)
    <3>1. PICK fate \in {"live", "stillborn"} :
             command' = [command EXCEPT ![p] = fate]
      BY <2>3 DEF ProcessEasyBegun
    <3>2. proc_array' = Append(proc_array, p)
      BY <2>3 DEF ProcessEasyBegun
    <3> QED BY <1>2, <2>1, <3>1, <3>2
  <2> QED BY <1>3, <2>2, <2>3 DEF Launch
<1>4. ASSUME NEW p \in Proc, LaunchShell(p), ~UNCHANGED os PROVE Abstract!Next
  <2>1. command[p] = "new" /\ OpenPipe(p) /\ ~Full
    BY <1>4 DEF LaunchShell, RoomForPipe
  <2>2. /\ proc_array' = Append(proc_array, p)
        /\ command' = [command EXCEPT ![p] = "live"]
    BY <2>1 DEF OpenPipe
  <2> QED BY <1>2, <2>1, <2>2
<1>5. ASSUME NEW p \in Proc, ProcessExit(p) PROVE Abstract!Next
  <2>1. PICK fate \in {"won", "lost"} : Abstract!Exit(p, fate)
    BY <1>5 DEF ProcessExit, Abstract!Exit
  <2> QED BY <2>1 DEF Abstract!Next
<1>6. ASSUME NEW p \in Proc, ProcessWaitForAny(p) PROVE Abstract!Next
  <2>1. /\ p \in ToSet(proc_array)
        /\ command[p] \in {"won", "lost", "stillborn"}
        /\ ToSet(proc_array') = ToSet(proc_array) \ {p}
    BY <1>6, Reported
  <2>2. UNCHANGED command
    BY <1>6 DEF ProcessWaitForAny
  <2>3. Abstract!Report(p)
    BY <2>1, <2>2 DEF Abstract!Report
  <2> QED BY <2>3 DEF Abstract!Next
<1> QED BY <1>1, <1>3, <1>4, <1>5, <1>6 DEF SubProcNext

(* The safety part of WaitsForAny: every process handed over is reported   *)
(* at most once and only when it is dead, and until then it is awaited.    *)
(* The premise is that no $(shell) starts with all slots taken.            *)
THEOREM Refinement ==
  SubProcSpec /\ [][RoomForPipe]_os =>
     /\ Abstract!Init
     /\ [][Abstract!Next]_<<ToSet(proc_array), command>>
PROOF
<1>1. SubProcInit => Abstract!Init
  BY EmptySeq DEF SubProcInit, Abstract!Init, ToSet
<1>2. IInv /\ [SubProcNext]_os /\ [RoomForPipe]_os =>
         [Abstract!Next]_<<ToSet(proc_array), command>>
  BY StepRefines
<1> QED BY <1>1, <1>2, Invariance, PTL DEF SubProcSpec

(* The premise holds when there are no more commands than slots.           *)
THEOREM SlotsSuffice ==
  ASSUME IsFiniteSet(Proc), Cardinality(Proc) <= MAXIMUM_WAIT_OBJECTS
  PROVE  SubProcSpec => [][RoomForPipe]_os
PROOF
<1>1. ASSUME IInv, NEW p \in Proc, command[p] = "new" PROVE ~Full
  <2>1. proc_array \in Seq(Proc) /\ IsInjective(proc_array)
    BY <1>1 DEF IInv, SubProcTypeOK, Registered
  <2>2. ToSet(proc_array) \subseteq Proc \ {p}
    BY <1>1, <2>1, ElementOfSeq, LenProperties DEF IInv, Registered, ToSet
  <2>3. Len(proc_array) = Cardinality(ToSet(proc_array))
    <3>1. {i \in 1..Len(proc_array) : proc_array[i] \in Proc} = 1..Len(proc_array)
      BY <2>1, ElementOfSeq
    <3>2. ToSet(proc_array) \cap Proc = ToSet(proc_array)
      BY <2>2
    <3>3. Cardinality(1..Len(proc_array)) = Len(proc_array)
      <4>1. Len(proc_array) \in Nat
        BY <2>1, LenProperties
      <4>2. Cardinality(1..Len(proc_array)) =
               IF 1 > Len(proc_array) THEN 0 ELSE Len(proc_array) - 1 + 1
        BY <4>1, FS_Interval
      <4> QED BY <4>1, <4>2
    <3>4. Cardinality({i \in 1..Len(proc_array) : proc_array[i] \in Proc}) =
             Cardinality(ToSet(proc_array) \cap Proc)
      BY <2>1, PlacesOnChain
    <3> QED BY <3>1, <3>2, <3>3, <3>4
  <2>4. /\ IsFiniteSet(Proc \ {p})
        /\ Cardinality(Proc \ {p}) = Cardinality(Proc) - 1
    BY FS_RemoveElement
  <2>5. Cardinality(ToSet(proc_array)) <= Cardinality(Proc \ {p})
    BY <2>2, <2>4, FS_Subset
  <2>6. Cardinality(Proc) \in Nat /\ Len(proc_array) \in Nat
    BY <2>1, FS_CardinalityType, LenProperties
  <2> QED BY <2>3, <2>4, <2>5, <2>6, SlotsAssumption DEF Full
<1>2. IInv /\ [SubProcNext]_os => [RoomForPipe]_os
  BY <1>1 DEF RoomForPipe, LaunchShell
<1> QED BY <1>2, Invariance, PTL DEF SubProcSpec
=============================================================================
