-------------------------- MODULE SkillRunner_proofs --------------------------
(***************************************************************************)
(* SkillRunner for any streams, limit, pipe size and amount of output: the *)
(* limitedWriters account for every byte that has left a pipe, so that     *)
(* what RunSkill finds in them once both pipes are at their end is the     *)
(* whole output, or its size is found exactly.                             *)
(***************************************************************************)
EXTENDS SkillRunner, TLAPS

USE SkillAssumption DEF SkillAssumption

\* A write to a limitedWriter keeps its account: what it has kept and whether
\* it has thrown something away follow from how much was copied.
LEMMA WriteAccounts ==
  ASSUME NEW k \in Nat, NEW c \in Nat, NEW n \in Nat,
         k = IF c > Limit THEN Limit ELSE c
  PROVE  /\ (IF n > Limit - k THEN Limit ELSE k + n) = IF c + n > Limit THEN Limit ELSE c + n
         /\ n > 0 => ((c > Limit \/ n > Limit - k) <=> c + n > Limit)
  OBVIOUS

\* The initial states satisfy the invariant.
LEMMA InitIInv == Init => IInv
<1> SUFFICES ASSUME Init PROVE IInv
  OBVIOUS
<1>1. TypeOK
  <2>1. exceeded \in [Streams -> BOOLEAN] /\ killed \in BOOLEAN
    BY Zenon DEF Init
  <2> QED BY <2>1 DEF Init, TypeOK, Callers
<1>2. \A s \in Streams : pipe[s] = 0 /\ printed[s] = 0 /\ kept[s] = 0 /\ ~exceeded[s]
  BY DEF Init
<1>3. OutputAccounted
  <2> SUFFICES ASSUME NEW s \in Streams
               PROVE  /\ pipe[s] <= printed[s] /\ ~(Copied(s) > Limit)
                      /\ kept[s] = Copied(s) /\ ~exceeded[s]
    BY DEF OutputAccounted
  <2> QED BY <1>2 DEF Copied
<1>4. StagesInOrder /\ DoneIsFinal
  BY DEF Init, StagesInOrder, DoneIsFinal, Writers
<1> QED BY <1>1, <1>3, <1>4 DEF IInv

\* A copy moves output from the pipe to the account.
LEMMA CopyIInv ==
  ASSUME IInv, NEW s \in Streams, Copy(s)
  PROVE  IInv'
<1> USE DEF IInv
<1>1. PICK n \in 1..pipe[s] : pipe' = [pipe EXCEPT ![s] = @ - n] /\ Write(s, n)
  BY DEF Copy
<1> DEFINE k == kept[s]
           c == Copied(s)
<1>2. /\ pipe[s] \in Nat /\ printed[s] \in Nat /\ kept[s] \in Nat /\ pipe[s] <= printed[s]
      /\ pipe[s] \in 0..PipeCap /\ kept[s] \in 0..Limit /\ n \in Nat /\ n > 0 /\ n <= pipe[s]
  BY <1>1 DEF TypeOK, OutputAccounted
<1>3. /\ c \in Nat /\ k = IF c > Limit THEN Limit ELSE c
      /\ exceeded[s] <=> c > Limit
  BY <1>2 DEF OutputAccounted, Copied
<1>4. pipe'[s] = pipe[s] - n /\ \A t \in Streams \ {s} : pipe'[t] = pipe[t]
  BY <1>1 DEF TypeOK
<1>5. /\ kept' = [kept EXCEPT ![s] = IF n > Limit - k THEN Limit ELSE k + n]
      /\ exceeded' = [exceeded EXCEPT ![s] = exceeded[s] \/ n > Limit - k]
  BY <1>1 DEF Write
<1>6. /\ kept'[s] = IF c + n > Limit THEN Limit ELSE c + n
      /\ exceeded'[s] <=> c + n > Limit
  <2>1. /\ (IF n > Limit - k THEN Limit ELSE k + n) = IF c + n > Limit THEN Limit ELSE c + n
        /\ (c > Limit \/ n > Limit - k) <=> c + n > Limit
    BY <1>2, <1>3, WriteAccounts
  <2> QED BY <2>1, <1>3, <1>5 DEF TypeOK
<1>7. \A t \in Streams \ {s} : kept'[t] = kept[t] /\ exceeded'[t] = exceeded[t]
  BY <1>5 DEF TypeOK
<1>8. UNCHANGED <<caller, stage, ctx, killed, processVars, printed, resultVars>> /\ Waiting
  BY DEF Copy
<1>9. TypeOK'
  <2>1. kept' \in [Streams -> 0..Limit]
    BY <1>2, <1>3, <1>5 DEF TypeOK
  <2>2. pipe' \in [Streams -> 0..PipeCap]
    BY <1>1, <1>2 DEF TypeOK
  <2>3. exceeded' \in [Streams -> BOOLEAN]
    BY <1>5 DEF TypeOK
  <2> QED BY <2>1, <2>2, <2>3, <1>8 DEF TypeOK, processVars, resultVars
<1>10. OutputAccounted'
  <2> SUFFICES ASSUME NEW t \in Streams
               PROVE  /\ pipe'[t] <= printed'[t]
                      /\ kept'[t] = IF Copied(t)' > Limit THEN Limit ELSE Copied(t)'
                      /\ exceeded'[t] <=> Copied(t)' > Limit
    BY DEF OutputAccounted
  <2>1. CASE t = s
    <3>1. Copied(s)' = c + n /\ pipe'[s] <= printed'[s]
      BY <1>2, <1>4, <1>8 DEF Copied
    <3> QED BY <3>1, <1>6, <2>1
  <2>2. CASE t # s
    BY <2>2, <1>4, <1>7, <1>8 DEF OutputAccounted, Copied
  <2> QED BY <2>1, <2>2
<1>11. StagesInOrder' /\ DoneIsFinal'
  BY <1>8 DEF StagesInOrder, DoneIsFinal, Writers, processVars, resultVars, Waiting, Ended
<1> QED BY <1>9, <1>10, <1>11

\* What a print adds is in the pipe, not in the account.
LEMMA PrintIInv ==
  ASSUME IInv, NEW s \in Streams, WriteOut(s)
  PROVE  IInv'
<1> USE DEF IInv
<1>1. /\ printed[s] \in 0..MaxPrint /\ pipe[s] \in 0..PipeCap /\ pipe[s] <= printed[s]
      /\ printed' = [printed EXCEPT ![s] = printed[s] + 1] /\ pipe' = [pipe EXCEPT ![s] = pipe[s] + 1]
      /\ UNCHANGED <<caller, stage, ctx, killed, processVars, kept, exceeded, resultVars>>
      /\ printed[s] < MaxPrint /\ pipe[s] < PipeCap /\ Writers
  BY DEF WriteOut, TypeOK, OutputAccounted
<1>2. TypeOK'
  BY <1>1 DEF TypeOK, processVars, resultVars
<1>3. OutputAccounted'
  <2> SUFFICES ASSUME NEW t \in Streams
               PROVE  pipe'[t] <= printed'[t] /\ Copied(t)' = Copied(t)
    BY <1>1 DEF OutputAccounted
  <2>1. pipe[t] \in Nat /\ printed[t] \in Nat /\ pipe[t] <= printed[t]
    BY DEF TypeOK, OutputAccounted
  <2> QED BY <1>1, <2>1 DEF TypeOK, Copied
<1>4. stage \in {"wait", "drain", "died"} /\ child # "none"
  BY <1>1 DEF StagesInOrder, DoneIsFinal, TypeOK
<1>5. StagesInOrder' /\ DoneIsFinal'
  BY <1>1, <1>4 DEF StagesInOrder, DoneIsFinal, processVars, resultVars, Writers
<1> QED BY <1>2, <1>3, <1>5

\* The steps that leave the output alone.
LEMMA OtherIInv ==
  ASSUME IInv, UNCHANGED outputVars,
         \/ Refuse \/ StartFails \/ Start \/ KillChild \/ Reap \/ Return
         \/ Fork \/ ChildEnds \/ HeirLetsGo \/ Expire \/ Cancel \/ CallerDies
         \/ UNCHANGED skillVars
  PROVE  IInv'
<1> USE DEF IInv
<1>1. OutputAccounted'
  BY DEF OutputAccounted, Copied, outputVars
<1>2. TypeOK'
  <2>0. /\ printed' \in [Streams -> 0..MaxPrint] /\ pipe' \in [Streams -> 0..PipeCap]
        /\ kept' \in [Streams -> 0..Limit] /\ exceeded' \in [Streams -> BOOLEAN]
    BY DEF TypeOK, outputVars
  <2>1. CASE Refuse \/ StartFails
    BY <2>0, <2>1 DEF TypeOK, Refuse, StartFails, processVars, Tell, Outcomes
  <2>2. CASE Return
    BY <2>0, <2>2 DEF TypeOK, Return, processVars, Tell, End, Outcomes
  <2>3. CASE Start \/ KillChild
    BY <2>0, <2>3 DEF TypeOK, Start, KillChild, processVars, resultVars, Ended
  <2>4. CASE Reap
    BY <2>0, <2>4 DEF TypeOK, Reap, processVars, resultVars, Ended
  <2>5. CASE Expire \/ Cancel \/ CallerDies
    BY <2>0, <2>5 DEF TypeOK, Expire, Cancel, CallerDies, processVars, resultVars
  <2>6. CASE Fork \/ ChildEnds \/ HeirLetsGo
    BY <2>0, <2>6 DEF TypeOK, Fork, ChildEnds, HeirLetsGo, processVars, resultVars, Ended
  <2>7. CASE UNCHANGED skillVars
    BY <2>0, <2>7 DEF TypeOK, skillVars, processVars, resultVars
  <2> QED BY <2>1, <2>2, <2>3, <2>4, <2>5, <2>6, <2>7
<1>3. StagesInOrder'
  BY DEF TypeOK, StagesInOrder, DoneIsFinal, Refuse, StartFails, Start, KillChild, Reap, Return,
         Fork, ChildEnds, HeirLetsGo, Expire, Cancel, CallerDies, skillVars, processVars,
         outputVars, resultVars, Writers, Ended, Over
<1>4. DoneIsFinal'
  <2>1. CASE Refuse \/ StartFails
    BY <2>1 DEF Refuse, StartFails, StagesInOrder, DoneIsFinal, processVars, outputVars, Writers, Tell
  <2>2. CASE Return
    BY <2>2 DEF Return, StagesInOrder, DoneIsFinal, processVars, outputVars, Writers, Tell, End, Ended
  <2>3. CASE Start \/ KillChild \/ Reap \/ Expire \/ Cancel \/ CallerDies
    BY <2>3 DEF Start, KillChild, Reap, Expire, Cancel, CallerDies, Over, DoneIsFinal
  <2>4. CASE Fork \/ ChildEnds \/ HeirLetsGo
    BY <2>4 DEF Fork, ChildEnds, HeirLetsGo, DoneIsFinal, Writers
  <2>5. CASE UNCHANGED skillVars
    BY <2>5 DEF skillVars, processVars, outputVars, resultVars, DoneIsFinal, Writers, End
  <2> QED BY <2>1, <2>2, <2>3, <2>4, <2>5
<1> QED BY <1>1, <1>2, <1>3, <1>4

\* The invariant is preserved by every step, whoever takes it.
LEMMA NextIInv == IInv /\ [Next]_skillVars => IInv'
<1> SUFFICES ASSUME IInv, [Next]_skillVars PROVE IInv'
  OBVIOUS
<1>1. CASE \E s \in Streams : Copy(s)
  BY <1>1, CopyIInv
<1>2. CASE \E s \in Streams : WriteOut(s)
  BY <1>2, PrintIInv
<1>3. CASE \/ Refuse \/ StartFails \/ Start \/ KillChild \/ Reap \/ Return
           \/ Fork \/ ChildEnds \/ HeirLetsGo \/ Expire \/ Cancel \/ CallerDies
           \/ UNCHANGED skillVars
  <2>1. UNCHANGED outputVars
    BY <1>3 DEF Refuse, StartFails, Start, KillChild, Reap, Return, Fork, ChildEnds, HeirLetsGo,
                Expire, Cancel, CallerDies, skillVars, outputVars
  <2> QED BY <1>3, <2>1, OtherIInv
<1> QED BY <1>1, <1>2, <1>3 DEF Next, Runner, Skill

\* The account of the output and the order of RunSkill's stages hold in every
\* behaviour.
THEOREM InductiveInvariant == Spec => []IInv
  BY InitIInv, NextIInv, PTL DEF Spec

\* Every variable keeps its type; in particular no limitedWriter ever keeps
\* more than its limit.
THEOREM TypeCorrect == Spec => []TypeOK
<1>1. IInv => TypeOK
  BY DEF IInv
<1> QED BY <1>1, InductiveInvariant, PTL

\* RunSkill: a run reported as a success has kept the whole output of a skill
\* none of whose processes can print any more.
THEOREM SuccessesAreWhole == Spec => []SuccessIsWhole
<1>1. IInv => SuccessIsWhole
  <2> SUFFICES ASSUME IInv, told = "success" PROVE SuccessIsWhole
    BY DEF SuccessIsWhole
  <2>1. stage = "done" /\ outcome = "returned" /\ child # "none"
    BY DEF IInv, StagesInOrder, DoneIsFinal
  <2>2. End = "returned"
    BY <2>1 DEF IInv, DoneIsFinal
  <2>3. \A s \in Streams : ~exceeded[s]
    BY <2>2 DEF End
  <2>4. \A s \in Streams : kept[s] = printed[s]
    <3> TAKE s \in Streams
    <3>1. pipe[s] = 0 /\ printed[s] \in Nat
      BY <2>1 DEF IInv, DoneIsFinal, TypeOK
    <3> QED BY <2>3, <3>1 DEF IInv, OutputAccounted, Copied
  <2>5. ~Writers /\ (caller = "run" => child = "ok")
    BY <2>1 DEF IInv, DoneIsFinal
  <2>6. child = "ok" => ~killed
    BY <2>2 DEF End
  <2> QED BY <2>4, <2>5, <2>6 DEF SuccessIsWhole
<1> QED BY <1>1, InductiveInvariant, PTL

\* RunSkill: the size limit rejects exactly the runs that printed more than it.
THEOREM LimitsAreExact == Spec => []LimitIsExact
<1>1. IInv => LimitIsExact
  <2> SUFFICES ASSUME IInv, stage = "done", child # "none"
               PROVE  outcome = "exceeded" <=> \E s \in Streams : printed[s] > Limit
    BY DEF LimitIsExact
  <2>1. outcome = End /\ \A s \in Streams : pipe[s] = 0
    BY DEF IInv, DoneIsFinal
  <2>2. \A s \in Streams : exceeded[s] <=> printed[s] > Limit
    <3> TAKE s \in Streams
    <3>1. pipe[s] = 0 /\ printed[s] \in Nat
      BY <2>1 DEF IInv, TypeOK
    <3> QED BY <3>1 DEF IInv, OutputAccounted, Copied
  <2>3. End = "exceeded" <=> \E s \in Streams : exceeded[s]
    BY DEF End
  <2> QED BY <2>1, <2>2, <2>3
<1> QED BY <1>1, InductiveInvariant, PTL

=============================================================================
