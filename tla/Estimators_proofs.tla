--------------------------- MODULE Estimators_proofs ---------------------------
(***************************************************************************)
(* Proofs about the two ways a print is timed.  In this process: for every  *)
(* body and every machine, over moves of any limits and lengths, the three  *)
(* passes of planMoves give a velocity that is continuous, within the       *)
(* limits of the moves and their corners, and reachable.  By a child        *)
(* process: for any number of concurrent runs, any capacity of the pipes    *)
(* and any output of the children, a run returns all of it.                 *)
(***************************************************************************)
EXTENDS InProcessEstimator, SubprocessRunner, SetSums, SequenceTheorems

Index == 1 .. N

(***************************************************************************)
(* What each pass leaves behind.  The backward pass's bound on braking is   *)
(* lost for the move in front of the forward pass, whose entry it lowers;   *)
(* by then the exit of that move has taken its place.                       *)
(***************************************************************************)
MotionPlain ==
    /\ moves \in Seq(PlannedMove)
    /\ pass \in {"junctions", "backward", "forward", "planned"}
    /\ index \in 1 .. (N + 1)
    /\ pass \in {"junctions", "backward"} => index \in Index
    /\ pass = "forward" => index \in Index
    /\ pass = "planned" => N = 0 \/ index = N + 1
    /\ junction \in [Index -> Nat]
    /\ entry \in [Index -> Nat]
    /\ exit \in [Index -> Nat]
    /\ shape \in [Index -> {"none", "cruise", "triangle"}]

CornerHolds(k) ==
    /\ k = 1 => junction[k] = 0
    /\ k > 1 => junction[k] <= moves[k].corner /\ junction[k] <= moves[k - 1].cap

CornersLimited ==
    \A k \in Index :
        (pass = "junctions" => k < index) => CornerHolds(k)

EntryHolds(k) == entry[k] <= junction[k] /\ entry[k] <= moves[k].cap

EntriesLimited ==
    \A k \in Index :
        pass \in {"forward", "planned"} \/ (pass = "backward" /\ k > index)
            => EntryHolds(k)

CanBrake ==
    \A k \in Index :
        (pass = "forward" /\ k >= index) \/ (pass = "backward" /\ k > index)
            => entry[k] <= NextEntry(k) + Gain(moves[k])

ExitHolds(k) ==
    /\ exit[k] <= moves[k].cap
    /\ exit[k] <= entry[k] + Gain(moves[k])
    /\ entry[k] <= exit[k] + Gain(moves[k])
    /\ exit[k] <= NextEntry(k)

Done(k) == pass = "planned" \/ (pass = "forward" /\ k < index)

ExitsLimited ==
    \A k \in Index :
        /\ Done(k) => ExitHolds(k)
        /\ shape[k] # "none" => Done(k)

Joined ==
    \A k \in Index :
        k > 1 /\ Done(k) => exit[k - 1] = entry[k]

MotionInv ==
    MotionPlain /\ CornersLimited /\ EntriesLimited /\ CanBrake /\ ExitsLimited /\ Joined

\* What a move can gain is a natural number.
LEMMA GainIsNat ==
    ASSUME NEW m \in PlannedMove
    PROVE  Gain(m) \in Nat
<1> DEFINE p == m.full * Scale
<1>1. m.full \in Nat /\ Scale \in Nat
    BY MotionAssumption DEF MotionAssumption, PlannedMove
<1>2. p \in Nat
    BY <1>1
<1>3. Gain(m) = p \div 20
    BY DEF Gain
<1> HIDE DEF p
<1> QED BY <1>2, <1>3

\* The smaller of two numbers, without its definition.
LEMMA SmallerFacts ==
    ASSUME NEW a \in Nat, NEW b \in Nat
    PROVE  /\ Smaller(a, b) \in Nat
           /\ Smaller(a, b) <= a /\ Smaller(a, b) <= b
           /\ Smaller(a, b) = a \/ Smaller(a, b) = b
BY DEF Smaller

\* What is read of a move.
LEMMA MoveFacts ==
    ASSUME MotionPlain, NEW k \in Index
    PROVE  /\ N \in Nat /\ k \in Nat
           /\ moves[k] \in PlannedMove
           /\ moves[k].cap \in Nat /\ moves[k].corner \in Nat
           /\ Gain(moves[k]) \in Nat
           /\ NextEntry(k) \in Nat
           /\ k > 1 => k - 1 \in Index
<1>1. N \in Nat /\ moves[k] \in PlannedMove
    BY DEF MotionPlain, Index, N
<1>2. NextEntry(k) \in Nat
    BY <1>1 DEF MotionPlain, NextEntry, Index
<1>3. k > 1 => k - 1 \in Index
    BY <1>1 DEF Index
<1> QED BY <1>1, <1>2, <1>3, GainIsNat DEF PlannedMove, Index

LEMMA MotionInitInv == MotionInit => MotionInv
<1> SUFFICES ASSUME MotionInit PROVE MotionInv
    OBVIOUS
<1>1. moves \in Seq(PlannedMove) /\ N \in Nat
    BY MotionAssumption DEF MotionInit, MotionAssumption, N
<1>2. MotionPlain
    BY <1>1 DEF MotionInit, MotionPlain, Index
<1>3. CornersLimited
    BY <1>1 DEF MotionInit, CornersLimited, Index
<1>4. EntriesLimited /\ CanBrake /\ ExitsLimited /\ Joined
    BY <1>1 DEF MotionInit, EntriesLimited, CanBrake, ExitsLimited, Joined, Done, Index
<1> QED BY <1>2, <1>3, <1>4 DEF MotionInv

LEMMA LimitJunctionKeeps == MotionInv /\ LimitJunction => MotionInv'
<1> SUFFICES ASSUME MotionInv, LimitJunction PROVE MotionInv'
    OBVIOUS
<1> DEFINE j == IF index = 1 THEN 0 ELSE Corner(index)
<1>0. MotionPlain /\ pass = "junctions" /\ index \in Index /\ moves' = moves /\ N' = N
    BY DEF MotionInv, MotionPlain, LimitJunction, N
<1>1. N \in Nat /\ index \in Nat /\ moves[index].cap \in Nat /\ moves[index].corner \in Nat
    BY <1>0, MoveFacts
<1>2. /\ j \in Nat
      /\ index = 1 => j = 0
      /\ index > 1 => j <= moves[index].corner /\ j <= moves[index - 1].cap
  <2>1. CASE index = 1
      BY <2>1
  <2>2. CASE index > 1
    <3>1. index - 1 \in Index /\ moves[index - 1].cap \in Nat
        BY <2>2, <1>0, MoveFacts
    <3> DEFINE c == Smaller(moves[index - 1].cap, moves[index].cap)
    <3>2. c \in Nat /\ c <= moves[index - 1].cap
        BY <3>1, <1>1, SmallerFacts
    <3>3. j = Smaller(moves[index].corner, c)
        BY <2>2, <1>1 DEF Corner
    <3> HIDE DEF c, j
    <3>4. j \in Nat /\ j <= moves[index].corner /\ j <= c
        BY <3>2, <3>3, <1>1, SmallerFacts
    <3> QED BY <3>1, <3>2, <3>4, <2>2, <1>1
  <2> QED BY <2>1, <2>2, <1>0, <1>1 DEF Index
<1>3. junction' = [junction EXCEPT ![index] = j]
    BY DEF LimitJunction
<1> HIDE DEF j
<1>4. /\ UNCHANGED <<entry, exit, shape>>
      /\ \/ index < N /\ index' = index + 1 /\ pass' = "junctions"
         \/ index = N /\ index' = N /\ pass' = "backward"
    BY <1>0, <1>1 DEF LimitJunction, Index
<1>5. Index' = Index
    BY <1>0 DEF Index
<1>6. MotionPlain'
  <2>1. junction' \in [Index -> Nat]
      BY <1>0, <1>2, <1>3 DEF MotionPlain
  <2>2. index' \in Index /\ N' = N
      BY <1>0, <1>1, <1>4 DEF Index
  <2>3. index' \in 1 .. (N' + 1)
      BY <2>2, <1>1 DEF Index
  <2> QED BY <2>1, <2>2, <2>3, <1>0, <1>4, <1>5 DEF MotionPlain
<1>7. CornersLimited'
  <2> SUFFICES ASSUME NEW k \in Index, (pass = "junctions" => k < index)'
               PROVE  CornerHolds(k)'
      BY <1>5 DEF CornersLimited
  <2>1. CASE k = index
      BY <2>1, <1>0, <1>1, <1>2, <1>3 DEF CornerHolds, MotionPlain
  <2>2. CASE k # index
    <3>1. k < index
        BY <2>2, <1>0, <1>1, <1>4 DEF Index
    <3>2. CornerHolds(k)
        BY <3>1 DEF MotionInv, CornersLimited
    <3> QED BY <3>2, <2>2, <1>0, <1>3 DEF CornerHolds, MotionPlain
  <2> QED BY <2>1, <2>2
<1>8. EntriesLimited' /\ CanBrake'
    BY <1>0, <1>1, <1>4, <1>5 DEF EntriesLimited, CanBrake, Index
<1>9. ExitsLimited' /\ Joined'
    BY <1>0, <1>4, <1>5 DEF MotionInv, ExitsLimited, Joined, Done
<1> QED BY <1>6, <1>7, <1>8, <1>9 DEF MotionInv

LEMMA BackwardKeeps == MotionInv /\ Backward => MotionInv'
<1> SUFFICES ASSUME MotionInv, Backward PROVE MotionInv'
    OBVIOUS
<1> DEFINE e == Braking(index)
<1>0. /\ MotionPlain /\ pass = "backward" /\ index \in Index
      /\ UNCHANGED <<moves, junction, exit, shape>> /\ N' = N
    BY DEF MotionInv, MotionPlain, Backward, N
<1>1. /\ N \in Nat /\ index \in Nat /\ moves[index].cap \in Nat
      /\ NextEntry(index) \in Nat /\ Gain(moves[index]) \in Nat /\ junction[index] \in Nat
    BY <1>0, MoveFacts DEF MotionPlain
<1>2. /\ e \in Nat /\ e <= junction[index] /\ e <= moves[index].cap
      /\ e <= NextEntry(index) + Gain(moves[index])
  <2> DEFINE c == Smaller(junction[index], moves[index].cap)
             g == NextEntry(index) + Gain(moves[index])
  <2>1. c \in Nat /\ c <= junction[index] /\ c <= moves[index].cap
      BY <1>1, SmallerFacts
  <2>2. g \in Nat
      BY <1>1
  <2>3. e = Smaller(c, g)
      BY DEF Braking
  <2> HIDE DEF c, e
  <2>4. e \in Nat /\ e <= c /\ e <= g
      BY <2>1, <2>2, <2>3, SmallerFacts
  <2> QED BY <2>1, <2>4, <1>1
<1>3. entry' = [entry EXCEPT ![index] = e]
    BY DEF Backward
<1> HIDE DEF e
<1>4. \/ index > 1 /\ index' = index - 1 /\ pass' = "backward"
      \/ index = 1 /\ index' = 1 /\ pass' = "forward"
    BY <1>0, <1>1 DEF Backward, Index
<1>5. Index' = Index
    BY <1>0 DEF Index
<1>6. /\ entry' \in [Index -> Nat] /\ entry'[index] = e
      /\ \A k \in Index : k # index => entry'[k] = entry[k]
    BY <1>0, <1>2, <1>3 DEF MotionPlain
<1>7. MotionPlain'
  <2>1. index' \in Index
      BY <1>0, <1>1, <1>4 DEF Index
  <2>2. index' \in 1 .. (N' + 1)
      BY <2>1, <1>0, <1>1 DEF Index
  <2> QED BY <2>1, <2>2, <1>0, <1>4, <1>5, <1>6 DEF MotionPlain
<1>8. CornersLimited'
  <2>1. \A k \in Index : CornerHolds(k)
      BY <1>0 DEF MotionInv, CornersLimited
  <2> QED BY <2>1, <1>0, <1>5 DEF CornersLimited, CornerHolds
<1>9. ASSUME NEW k \in Index, (pass' = "forward" \/ (pass' = "backward" /\ k > index'))
      PROVE  /\ EntryHolds(k)'
             /\ entry'[k] <= NextEntry(k)' + Gain(moves[k])
  <2>0. k \in Nat /\ (k = index \/ k > index)
      BY <1>9, <1>0, <1>1, <1>4 DEF Index
  <2>1. NextEntry(k)' = NextEntry(k)
      BY <2>0, <1>0, <1>1, <1>6 DEF NextEntry, Index
  <2>2. CASE k = index
      BY <2>1, <2>2, <1>0, <1>2, <1>6 DEF EntryHolds
  <2>3. CASE k > index
    <3>1. entry'[k] = entry[k]
        BY <2>3, <1>1, <1>6
    <3>2. EntryHolds(k) /\ entry[k] <= NextEntry(k) + Gain(moves[k])
        BY <2>3, <1>0 DEF MotionInv, EntriesLimited, CanBrake
    <3> QED BY <3>1, <3>2, <2>1, <1>0 DEF EntryHolds
  <2> QED BY <2>0, <2>2, <2>3
<1>10. EntriesLimited'
    BY <1>9, <1>4, <1>5 DEF EntriesLimited
<1>11. CanBrake'
    BY <1>9, <1>0, <1>4, <1>5 DEF CanBrake, Gain
<1>12. ExitsLimited' /\ Joined'
  <2>1. \A k \in Index : ~Done(k)' /\ shape[k] = "none"
      BY <1>0, <1>4 DEF MotionInv, ExitsLimited, Done, Index
  <2> QED BY <2>1, <1>0, <1>5 DEF ExitsLimited, Joined
<1> QED BY <1>7, <1>8, <1>10, <1>11, <1>12 DEF MotionInv

LEMMA ForwardKeeps == MotionInv /\ Forward => MotionInv'
<1> SUFFICES ASSUME MotionInv, Forward PROVE MotionInv'
    OBVIOUS
<1> DEFINE in == Reached(index)
           out == Leaving(index, in)
           g == Gain(moves[index])
<1>0. /\ MotionPlain /\ pass = "forward" /\ index \in Index
      /\ UNCHANGED <<moves, junction>> /\ N' = N
    BY DEF MotionInv, MotionPlain, Forward, N
<1>1. /\ N \in Nat /\ index \in Nat /\ index <= N /\ moves[index].cap \in Nat
      /\ NextEntry(index) \in Nat /\ g \in Nat /\ entry[index] \in Nat
  <2>1. N \in Nat /\ index \in Nat /\ moves[index].cap \in Nat
        /\ NextEntry(index) \in Nat /\ g \in Nat
      BY <1>0, MoveFacts
  <2>2. entry[index] \in Nat
      BY <1>0 DEF MotionPlain
  <2>3. index <= N
      BY <1>0, <2>1 DEF Index
  <2> QED BY <2>1, <2>2, <2>3
<1>2. /\ EntryHolds(index) /\ entry[index] <= NextEntry(index) + g
      /\ \A k \in Index : CornerHolds(k)
    BY <1>0, <1>1 DEF MotionInv, EntriesLimited, CanBrake, CornersLimited
<1>3. /\ in \in Nat /\ in <= entry[index]
      /\ index > 1 => exit[index - 1] = in
  <2>1. CASE index = 1
      BY <2>1, <1>1 DEF Reached
  <2>2. CASE index > 1
    <3>1. index - 1 \in Index /\ exit[index - 1] \in Nat
        BY <2>2, <1>0, <1>1 DEF Index, MotionPlain
    <3>2. exit[index - 1] <= NextEntry(index - 1)
        BY <3>1, <1>0, <1>1 DEF MotionInv, ExitsLimited, Done, ExitHolds
    <3>3. NextEntry(index - 1) = entry[index]
        BY <1>1 DEF NextEntry
    <3> QED BY <3>1, <3>2, <3>3, <2>2, <1>1 DEF Reached, Smaller
  <2> QED BY <2>1, <2>2, <1>0, <1>1 DEF Index
<1> HIDE DEF g, in
<1>4. /\ out \in Nat /\ out <= in + g /\ out <= moves[index].cap
      /\ out <= NextEntry(index) /\ in <= out + g
  <2>1. in <= moves[index].cap /\ in <= NextEntry(index) + g
      BY <1>1, <1>2, <1>3 DEF EntryHolds
  <2>2. out = Smaller(Smaller(in + g, moves[index].cap), NextEntry(index))
      BY DEF Leaving, g
  <2> HIDE DEF out
  <2> QED BY <2>1, <2>2, <1>1, <1>3 DEF Smaller
<1>5. /\ entry' = [entry EXCEPT ![index] = in]
      /\ exit' = [exit EXCEPT ![index] = out]
      /\ shape' = [shape EXCEPT ![index] = Shape(moves[index], in, out)]
      /\ index' = index + 1
      /\ pass' = IF index = N THEN "planned" ELSE "forward"
    BY <1>0 DEF Forward, in
<1> HIDE DEF out
<1>6. Index' = Index
    BY <1>0 DEF Index
<1>7. /\ entry' \in [Index -> Nat] /\ entry'[index] = in
      /\ exit' \in [Index -> Nat] /\ exit'[index] = out
      /\ shape' \in [Index -> {"none", "cruise", "triangle"}]
      /\ \A k \in Index : k # index =>
             entry'[k] = entry[k] /\ exit'[k] = exit[k] /\ shape'[k] = shape[k]
    BY <1>0, <1>3, <1>4, <1>5 DEF MotionPlain, Shape
<1>7a. \A k \in Index : k \in Nat /\ k <= N /\ (k # N => k + 1 \in Index)
    BY <1>1 DEF Index
<1>7b. ASSUME NEW k \in Index
       PROVE  /\ k + 1 # index => NextEntry(k)' = NextEntry(k)
              /\ k + 1 = index => NextEntry(k)' = in
  <2>1. NextEntry(k)' = IF k = N THEN 0 ELSE entry'[k + 1]
      BY <1>0 DEF NextEntry
  <2>2. k + 1 = index => k # N
      BY <1>1, <1>7a
  <2>3. k # N /\ k + 1 # index => entry'[k + 1] = entry[k + 1]
      BY <1>7, <1>7a
  <2>4. k + 1 # index => NextEntry(k)' = NextEntry(k)
      BY <2>1, <2>3 DEF NextEntry
  <2>5. k + 1 = index => NextEntry(k)' = in
      BY <2>1, <2>2, <1>7
  <2> QED BY <2>4, <2>5
<1>8. MotionPlain'
  <2>1. /\ pass' \in {"forward", "planned"} /\ index' \in 1 .. (N + 1)
        /\ pass' = "forward" => index' \in Index
        /\ pass' = "planned" => index' = N + 1
      BY <1>1, <1>5 DEF Index
  <2>2. moves' = moves /\ junction' = junction
      BY <1>0
  <2> QED BY <1>0, <1>6, <1>7, <2>1, <2>2 DEF MotionPlain
<1>9. CornersLimited'
    BY <1>0, <1>2, <1>6 DEF CornersLimited, CornerHolds
<1>10. EntriesLimited'
  <2> SUFFICES ASSUME NEW k \in Index PROVE EntryHolds(k)'
      BY <1>6 DEF EntriesLimited
  <2>1. EntryHolds(k) /\ k \in Nat /\ entry[k] \in Nat /\ junction[k] \in Nat
        /\ moves[k].cap \in Nat
      BY <1>0, MoveFacts DEF MotionInv, EntriesLimited, MotionPlain, Index
  <2>2. entry'[k] <= entry[k] /\ entry'[k] \in Nat
      BY <2>1, <1>3, <1>7
  <2> QED BY <2>1, <2>2, <1>0 DEF EntryHolds
<1>11. CanBrake'
  <2> SUFFICES ASSUME NEW k \in Index, k >= index + 1
               PROVE  (entry[k] <= NextEntry(k) + Gain(moves[k]))'
      BY <1>5, <1>6 DEF CanBrake
  <2>1. entry'[k] = entry[k] /\ NextEntry(k)' = NextEntry(k)
    <3>1. k # index /\ k + 1 # index
        BY <1>1, <1>7a
    <3> QED BY <3>1, <1>7, <1>7b
  <2>2. entry[k] <= NextEntry(k) + Gain(moves[k])
      BY <1>0, <1>1 DEF MotionInv, CanBrake, Index
  <2> QED BY <2>1, <2>2, <1>0 DEF Gain
<1>12. ASSUME NEW k \in Index, Done(k)'
       PROVE  k = index \/ (k < index /\ Done(k))
    BY <1>12, <1>0, <1>1, <1>5 DEF Done, Index
<1>13. ASSUME NEW k \in Index, k = index \/ (k < index /\ Done(k))
       PROVE  ExitHolds(k)'
  <2>1. CASE k = index
    <3>1. NextEntry(k)' = NextEntry(k)
        BY <2>1, <1>1, <1>7b
    <3> QED BY <3>1, <2>1, <1>0, <1>4, <1>7 DEF ExitHolds, g, Gain
  <2>2. CASE k < index /\ Done(k)
    <3>1. ExitHolds(k) /\ k \in Nat /\ k # index
        BY <2>2, <1>1 DEF MotionInv, ExitsLimited, Index
    <3>2. exit'[k] = exit[k] /\ entry'[k] = entry[k]
        BY <3>1, <1>7
    <3>3. exit[k] <= NextEntry(k)'
      <4>1. CASE k + 1 = index
        <5>1. NextEntry(k)' = in
            BY <4>1, <1>7b
        <5>2. k = index - 1 /\ index > 1
            BY <4>1, <1>1 DEF Index
        <5>3. exit[k] = in
            BY <5>2, <1>3
        <5> QED BY <5>1, <5>3, <1>3
      <4>2. CASE k + 1 # index
        <5>1. NextEntry(k)' = NextEntry(k)
            BY <4>2, <1>7b
        <5> QED BY <5>1, <3>1 DEF ExitHolds
      <4> QED BY <4>1, <4>2
    <3> QED BY <3>1, <3>2, <3>3, <1>0 DEF ExitHolds, Gain
  <2> QED BY <1>13, <2>1, <2>2
<1>14. ExitsLimited'
  <2>1. \A k \in Index : shape'[k] # "none" => Done(k)'
    <3> SUFFICES ASSUME NEW k \in Index, shape'[k] # "none" PROVE Done(k)'
        OBVIOUS
    <3>1. k = index \/ (k < index /\ pass = "forward")
        BY <1>0, <1>7 DEF MotionInv, ExitsLimited, Done
    <3> QED BY <3>1, <1>0, <1>1, <1>5 DEF Done, Index
  <2> QED BY <2>1, <1>6, <1>12, <1>13 DEF ExitsLimited
<1>15. Joined'
  <2> SUFFICES ASSUME NEW k \in Index, k > 1, Done(k)' PROVE exit'[k - 1] = entry'[k]
      BY <1>6 DEF Joined
  <2>1. k \in Nat /\ k - 1 \in Index
      BY <1>0, <1>1 DEF Index
  <2>2. CASE k = index
      BY <2>2, <2>1, <1>1, <1>3, <1>7 DEF Index
  <2>3. CASE k < index /\ Done(k)
    <3>1. exit[k - 1] = entry[k]
        BY <2>3 DEF MotionInv, Joined
    <3>2. k - 1 \in Index /\ k - 1 # index /\ k # index
        BY <2>3, <1>1 DEF Index
    <3> QED BY <3>1, <3>2, <1>7
  <2> QED BY <1>12, <2>2, <2>3
<1> QED BY <1>8, <1>9, <1>10, <1>11, <1>14, <1>15 DEF MotionInv

\* Stuttering steps change nothing the invariant speaks of.
LEMMA MotionStutters == MotionInv /\ UNCHANGED motionVars => MotionInv'
BY DEF MotionInv, MotionPlain, CornersLimited, CornerHolds, EntriesLimited, EntryHolds,
       CanBrake, NextEntry, Gain, ExitsLimited, ExitHolds, Done, Joined, Index, N, motionVars

LEMMA MotionKeeps == MotionInv /\ [MotionNext]_motionVars => MotionInv'
BY LimitJunctionKeeps, BackwardKeeps, ForwardKeeps, MotionStutters DEF MotionNext

-----------------------------------------------------------------------------
(***************************************************************************)
(* What is extracted is a print, and what is made of it can be planned.     *)
(***************************************************************************)

LEMMA WordIsInt ==
    ASSUME NEW line \in BodyLines, NEW letter, NEW default \in Int
    PROVE  Word(line, letter, default) \in Int
BY ExtractorAssumption DEF IsLine, Word, Has

LEMMA TargetIsPosition ==
    ASSUME NEW line \in BodyLines, pos \in Position
    PROVE  TargetOf(line) \in Position /\ pos[1] \in Int /\ pos[2] \in Int
<1>1. pos[1] \in Int /\ pos[2] \in Int
  BY DEF Position
<1>2. Along(pos[1], line, "X") \in Int
  <2>1. Word(line, "X", pos[1]) \in Int /\ Word(line, "X", 0) \in Int
    BY <1>1, WordIsInt
  <2> QED BY <1>1, <2>1 DEF Along
<1>3. Along(pos[2], line, "Z") \in Int
  <2>1. Word(line, "Z", pos[2]) \in Int /\ Word(line, "Z", 0) \in Int
    BY <1>1, WordIsInt
  <2> QED BY <1>1, <2>1 DEF Along
<1> QED BY <1>1, <1>2, <1>3 DEF TargetOf, Position

LEMMA ArcPointIsPosition ==
    ASSUME NEW line \in BodyLines, pos \in Position, NEW k \in Int
    PROVE  ArcPoint(line, k) \in Position
<1> DEFINE dx == TargetOf(line)[1] - pos[1]
           dz == (TargetOf(line)[2] - pos[2]) \div Chords
           steps == (k * (k + 1)) \div 2
           p == dx * k
           q == p \div Chords
           h == dz * steps
<1>1. /\ TargetOf(line)[1] \in Int /\ TargetOf(line)[2] \in Int
      /\ pos[1] \in Int /\ pos[2] \in Int /\ Chords \in Nat \ {0}
  BY TargetIsPosition, ExtractorAssumption DEF Position
<1>2. dx \in Int /\ dz \in Int
  BY <1>1
<1>3. steps \in Int
  <2> DEFINE t == k * (k + 1)
  <2>1. t \in Int
    OBVIOUS
  <2> HIDE DEF t
  <2>2. t \div 2 \in Int
    BY <2>1
  <2> QED BY <2>2 DEF t
<1> HIDE DEF dx, dz, steps
<1>4. p \in Int /\ h \in Int
  BY <1>2, <1>3
<1> HIDE DEF p
<1>5. q \in Int
  BY <1>1, <1>4
<1> HIDE DEF q, h
<1>6. ArcPoint(line, k) = <<pos[1] + q, pos[2] + h>>
  BY DEF ArcPoint, dx, dz, steps, p, q, h
<1> QED BY <1>1, <1>4, <1>5, <1>6 DEF Position

ExtractorTyped ==
    /\ body \in Seq(BodyLines)
    /\ pos \in Position /\ feedrate \in Int /\ absolutePositioning \in BOOLEAN
    /\ print \in Seq(ToolMove)

LEMMA ExtractorKeepsTypes == ExtractorTyped /\ ReadBodyLine => ExtractorTyped'
<1> SUFFICES ASSUME ExtractorTyped, NEW line \in BodyLines,
                    \/ SkipLine(line) \/ SetPositioning(line) \/ ResetPosition(line)
                    \/ SetFeedrate(line) \/ MoveLinear(line) \/ MoveArc(line)
             PROVE  ExtractorTyped'
  BY DEF ReadBodyLine
<1>1. body' \in Seq(BodyLines)
  <2>1. body \in Seq(BodyLines)
    BY DEF ExtractorTyped
  <2>2. Consume(line)
    BY DEF SkipLine, SetPositioning, ResetPosition, SetFeedrate, MoveLinear, MoveArc
  <2> QED BY <2>1, <2>2 DEF Consume
<1>2. /\ pos \in Position /\ pos[1] \in Int /\ pos[2] \in Int /\ TargetOf(line) \in Position
      /\ feedrate \in Int /\ absolutePositioning \in BOOLEAN /\ print \in Seq(ToolMove)
  BY TargetIsPosition DEF ExtractorTyped
<1>3. Word(line, "F", feedrate) \in Int /\ Word(line, "E", 0) \in Int
  BY <1>2, WordIsInt
<1>4. CASE SkipLine(line)
  BY <1>1, <1>2, <1>4 DEF SkipLine, ExtractorTyped
<1>5. CASE SetPositioning(line)
  BY <1>1, <1>2, <1>5 DEF SetPositioning, ExtractorTyped
<1>6. CASE ResetPosition(line)
  <2>1. Word(line, "X", pos[1]) \in Int /\ Word(line, "Z", pos[2]) \in Int
    BY <1>2, WordIsInt
  <2> QED BY <1>1, <1>2, <1>6, <2>1 DEF ResetPosition, ExtractorTyped, Position
<1>7. CASE SetFeedrate(line)
  BY <1>1, <1>2, <1>3, <1>7 DEF SetFeedrate, ExtractorTyped
<1>8. CASE MoveLinear(line)
  <2>1. pos' \in Position /\ feedrate' \in Int /\ absolutePositioning' \in BOOLEAN
    BY <1>2, <1>3, <1>8 DEF MoveLinear
  <2>2. print' \in Seq(ToolMove)
    <3> DEFINE made == [from |-> pos, to |-> pos', feed |-> feedrate', extrude |-> Word(line, "E", 0)]
    <3>1. made \in ToolMove
      BY <1>2, <1>3, <2>1 DEF ToolMove
    <3>2. print' = print \/ print' = Append(print, made)
      BY <1>8 DEF MoveLinear
    <3> HIDE DEF made
    <3> QED BY <1>2, <3>1, <3>2
  <2> QED BY <1>1, <2>1, <2>2 DEF ExtractorTyped
<1>9. CASE MoveArc(line)
  <2> DEFINE share == Word(line, "E", 0) \div Chords
             made == [k \in 1 .. Chords |->
                         [from |-> ArcPoint(line, k - 1), to |-> ArcPoint(line, k),
                          extrude |-> share, feed |-> feedrate']]
  <2>1. Chords \in Nat \ {0} /\ share \in Int
    BY <1>3, ExtractorAssumption
  <2> HIDE DEF share
  <2>2. pos' \in Position /\ feedrate' \in Int /\ absolutePositioning' \in BOOLEAN
    <3>1. Chords \in Int
      BY <2>1
    <3>2. ArcPoint(line, Chords) \in Position
      BY <1>2, <3>1, ArcPointIsPosition
    <3> QED BY <1>2, <1>3, <1>9, <3>2 DEF MoveArc
  <2>3. ASSUME NEW k \in 1 .. Chords
        PROVE  ArcPoint(line, k - 1) \in Position /\ ArcPoint(line, k) \in Position
    <3>1. k \in Int /\ k - 1 \in Int
      OBVIOUS
    <3> QED BY <1>2, <3>1, ArcPointIsPosition
  <2>4. made \in Seq(ToolMove)
    <3>1. \A k \in 1 .. Chords : made[k] \in ToolMove
      BY <2>1, <2>2, <2>3 DEF ToolMove
    <3>2. DOMAIN made = 1 .. Chords
      OBVIOUS
    <3>3. made = [k \in 1 .. Chords |-> made[k]]
      OBVIOUS
    <3> HIDE DEF made
    <3> QED BY <2>1, <3>1, <3>3
  <2>5. print' = print \o made
    BY <1>9 DEF MoveArc, share
  <2> HIDE DEF made
  <2>6. print' \in Seq(ToolMove)
    BY <1>2, <2>4, <2>5
  <2> QED BY <1>1, <2>2, <2>6 DEF ExtractorTyped
<1> QED BY <1>4, <1>5, <1>6, <1>7, <1>8, <1>9

LEMMA QuotientIsNat ==
    ASSUME NEW a \in Nat, NEW b \in Nat \ {0}
    PROVE  a \div b \in Nat
OBVIOUS

LEMMA SmallerIsNat ==
    ASSUME NEW a \in Nat, NEW b \in Nat
    PROVE  Smaller(a, b) \in Nat
BY DEF Smaller

LEMMA LimitsAreNat ==
    /\ Limits.velocity \in Nat \ {0} /\ Limits.acceleration \in Nat \ {0}
    /\ Limits.zVelocity \in Nat /\ Limits.zAcceleration \in Nat
    /\ Limits.eVelocity \in Nat /\ Limits.eAcceleration \in Nat
    /\ Limits.squareCorner \in Nat /\ Limits.instantCorner \in Nat
BY EstimatorAssumption DEF LimitNames

LEMMA LimitedIsNat ==
    ASSUME NEW m \in ToolMove, NEW own \in Nat, NEW z \in Nat, NEW e \in Nat
    PROVE  Limited(m, own, z, e) \in Nat /\ Travel(m) \in Nat /\ Filament(m) \in Nat
<1>1. Travel(m) \in Nat /\ Filament(m) \in Nat
  BY DEF ToolMove, Position, Travel, Filament, Distance
<1> DEFINE onAxis == IF Climbs(m) THEN Smaller(own, z) ELSE own
           p == e * Travel(m)
           q == p \div Filament(m)
<1>2. onAxis \in Nat /\ Smaller(own, e) \in Nat
  BY SmallerIsNat
<1>3. p \in Nat
  BY <1>1
<1> HIDE DEF p, onAxis
<1>4. Filament(m) # 0 => q \in Nat
  BY <1>1, <1>3, QuotientIsNat
<1> HIDE DEF q
<1>5. Filament(m) # 0 => Smaller(onAxis, q) \in Nat
  BY <1>2, <1>4, SmallerIsNat
<1>6. Limited(m, own, z, e) =
          IF Travel(m) = 0 THEN Smaller(own, e)
          ELSE IF Filament(m) = 0 THEN onAxis ELSE Smaller(onAxis, q)
  BY DEF Limited, onAxis, p, q
<1> QED BY <1>1, <1>2, <1>5, <1>6

LEMMA MoveIsPlannable ==
    ASSUME NEW m \in ToolMove
    PROVE  /\ MaxVelocity(m) \in Nat \ {0} /\ Acceleration(m) \in Nat /\ Length(m) \in Nat
           /\ Unit(m)[1] \in {-1, 0, 1} /\ Unit(m)[2] \in {-1, 0, 1}
<1>1. Requested(m) \in Nat
  <2> DEFINE f == m.feed
             v == Limits.velocity
  <2>1. f \in Int /\ v \in Nat
    BY LimitsAreNat DEF ToolMove
  <2>2. Requested(m) = IF f <= 0 THEN v ELSE IF Travel(m) > 0 THEN Smaller(f, v) ELSE f
    BY DEF Requested
  <2> HIDE DEF f, v
  <2>3. f > 0 => Smaller(f, v) \in Nat
    BY <2>1 DEF Smaller
  <2> QED BY <2>1, <2>2, <2>3
<1>2. Limited(m, Requested(m), Limits.zVelocity, Limits.eVelocity) \in Nat
  BY <1>1, LimitsAreNat, LimitedIsNat
<1>3. MaxVelocity(m) \in Nat \ {0}
  BY <1>2 DEF MaxVelocity
<1>4. Acceleration(m) \in Nat
  <2>1. Limits.acceleration \in Nat
    BY LimitsAreNat
  <2> QED BY <2>1, LimitsAreNat, LimitedIsNat DEF Acceleration
<1>5. Length(m) \in Nat
  <2>1. Travel(m) \in Nat /\ Filament(m) \in Nat
    BY DEF ToolMove, Position, Travel, Filament, Distance
  <2> QED BY <2>1 DEF Length
<1>6. Unit(m)[1] \in {-1, 0, 1} /\ Unit(m)[2] \in {-1, 0, 1}
  BY DEF Unit, Sign
<1> QED BY <1>3, <1>4, <1>5, <1>6

LEMMA CornerIsNat ==
    ASSUME NEW a \in ToolMove, NEW b \in ToolMove
    PROVE  JunctionVelocity2(a, b) \in Nat
<1> DEFINE slower == Smaller(MaxVelocity(a), MaxVelocity(b))
           cosine == Unit(a)[1] * Unit(b)[1] + Unit(a)[2] * Unit(b)[2]
           square == Limits.squareCorner * Limits.squareCorner
           p == square * Acceleration(b)
           q == p \div Limits.acceleration
<1>1. slower \in Nat
  BY MoveIsPlannable, SmallerIsNat
<1>2. square \in Nat /\ Limits.instantCorner * Limits.instantCorner \in Nat
  BY LimitsAreNat
<1> HIDE DEF slower, square
<1>3. slower * slower \in Nat
  BY <1>1
<1>4. p \in Nat
  BY <1>2, MoveIsPlannable
<1> HIDE DEF p
<1>5. q \in Nat
  BY <1>4, LimitsAreNat, QuotientIsNat
<1> HIDE DEF q, cosine
<1>6. JunctionVelocity2(a, b) =
          IF Travel(a) = 0 \/ Travel(b) = 0 THEN Limits.instantCorner * Limits.instantCorner
          ELSE IF cosine < 0 THEN 0 ELSE IF cosine > 0 THEN slower * slower ELSE q
  BY DEF JunctionVelocity2, slower, cosine, square, p, q
<1> QED BY <1>2, <1>3, <1>5, <1>6

LEMMA PreparedIsPrint ==
    ASSUME print \in Seq(ToolMove)
    PROVE  /\ Prepared \in Seq(PlannedMove)
           /\ Len(Prepared) = Len(print) /\ DOMAIN print = 1 .. Len(print) /\ Len(print) \in Nat
<1> DEFINE n == Len(print)
<1>1. n \in Nat /\ DOMAIN print = 1 .. n /\ \A i \in 1 .. n : print[i] \in ToolMove
  BY LenProperties
<1>2. ASSUME NEW i \in 1 .. n
      PROVE  Prepared[i] \in PlannedMove
  <2> DEFINE v == MaxVelocity(print[i])
             a == Acceleration(print[i])
             l == Length(print[i])
             c == IF i = 1 THEN 0 ELSE JunctionVelocity2(print[i - 1], print[i])
  <2>1. v \in Nat \ {0} /\ a \in Nat /\ l \in Nat
    BY <1>1, MoveIsPlannable
  <2>2. c \in Nat
    <3>1. i # 1 => i - 1 \in 1 .. n
      BY <1>1
    <3>2. i # 1 => JunctionVelocity2(print[i - 1], print[i]) \in Nat
      BY <1>1, <3>1, CornerIsNat
    <3> QED BY <3>2
  <2>3. Prepared[i] = [cap |-> v * v, corner |-> c, full |-> 2 * a * l]
    BY <1>1 DEF Prepared
  <2> HIDE DEF v, a, l, c
  <2>4. v * v \in Nat \ {0} /\ 2 * a * l \in Nat
    BY <2>1
  <2> DEFINE x == v * v
             y == 2 * a * l
  <2> HIDE DEF x, y
  <2>5. [cap |-> x, corner |-> c, full |-> y] \in PlannedMove
    BY <2>2, <2>4 DEF PlannedMove, x, y
  <2> QED BY <2>3, <2>5 DEF x, y
<1>3. Prepared = [i \in 1 .. n |-> Prepared[i]]
  BY <1>1 DEF Prepared
<1>4. Prepared \in Seq(PlannedMove) /\ Len(Prepared) = n
  <2> DEFINE s == Prepared
  <2>1. s = [i \in 1 .. n |-> s[i]] /\ \A i \in 1 .. n : s[i] \in PlannedMove
    BY <1>2, <1>3
  <2> HIDE DEF s
  <2>2. s \in Seq(PlannedMove) /\ Len(s) = n
    BY <1>1, <2>1
  <2> QED BY <2>2 DEF s
<1> QED BY <1>1, <1>4

-----------------------------------------------------------------------------
(***************************************************************************)
(* That the plan is the fastest.  At(k) is what the moves in front of the   *)
(* k-th can gain, so a corner j allows CornerLimit(j) + |At(j) - At(k)| at  *)
(* the k-th move.  The backward pass leaves the tightest of the corners     *)
(* ahead, the forward pass the tightest of all.                             *)
(***************************************************************************)

At(k) == SumOver(Gains, 1 .. (k - 1))
Corners == 1 .. (N + 1)

Ahead(v, k) == \A j \in Corners : j >= k => v <= CornerLimit(j) + (At(j) - At(k))
MeetsAhead(v, k) == \E j \in Corners : j >= k /\ v = CornerLimit(j) + (At(j) - At(k))
Behind(v, k) == \A j \in Corners : j <= k => v <= CornerLimit(j) + (At(k) - At(j))
MeetsBehind(v, k) == \E j \in Corners : j <= k /\ v = CornerLimit(j) + (At(k) - At(j))

JunctionsAreCorners ==
    \A k \in Index : (pass = "junctions" => k < index) => junction[k] = CornerLimit(k)

BrakesFastest ==
    \A k \in Index :
        (pass = "forward" /\ k >= index) \/ (pass = "backward" /\ k > index)
            => Ahead(entry[k], k) /\ MeetsAhead(entry[k], k)

Fastest(v, k) ==
    /\ Ahead(v, k) /\ Behind(v, k)
    /\ MeetsAhead(v, k) \/ MeetsBehind(v, k)

EntersFastest == \A k \in Index : Done(k) => Fastest(entry[k], k)

\* How the move in front of the forward pass was left.
LeavesFastest ==
    \A k \in Index :
        pass = "forward" /\ k > 1 /\ k = index =>
            exit[k - 1] = Smaller(Smaller(entry[k - 1] + Gain(moves[k - 1]), moves[k - 1].cap),
                                  entry[k])

FastInv == JunctionsAreCorners /\ BrakesFastest /\ EntersFastest /\ LeavesFastest

\* The limits of the corners, and what the moves gain from one to the next.
LEMMA CornerFacts ==
    ASSUME MotionPlain
    PROVE  /\ N \in Nat
           /\ \A j \in Corners : CornerLimit(j) \in Nat /\ At(j) \in Int
           /\ \A k \in Index : /\ k \in Corners /\ k + 1 \in Corners
                               /\ At(k + 1) = At(k) + Gain(moves[k])
                               /\ Gain(moves[k]) \in Nat
                               /\ CornerLimit(k) <= moves[k].cap
           /\ CornerLimit(N + 1) = 0
<1>1. N \in Nat
  BY DEF MotionPlain, N
<1>2. \A k \in Index : Gain(moves[k]) \in Nat /\ Gains[k] = Gain(moves[k])
  BY MoveFacts DEF Gains, Index
<1>3. ASSUME NEW j \in Corners PROVE At(j) \in Int
  <2> DEFINE i == j - 1
  <2>1. i \in Nat /\ \A k \in 1 .. i : k \in Index
    BY <1>1 DEF Corners, Index
  <2> HIDE DEF i
  <2>2. \A k \in 1 .. i : Gains[k] \in Int
    BY <1>2, <2>1
  <2>3. SumOver(Gains, 1 .. i) \in Int
    BY <2>1, <2>2, SumUpTo
  <2> QED BY <2>3 DEF At, i
<1>4. ASSUME NEW k \in Index PROVE At(k + 1) = At(k) + Gain(moves[k])
  <2>1. k \in Nat /\ k > 0 /\ (k + 1) - 1 = k /\ \A i \in 1 .. k : i \in Index
    BY <1>1 DEF Index
  <2>2. \A i \in 1 .. k : Gains[i] \in Int
    BY <1>2, <2>1
  <2>3. SumOver(Gains, 1 .. k) = SumOver(Gains, 1 .. (k - 1)) + Gains[k]
    BY <2>1, <2>2, SumUpTo
  <2> QED BY <1>2, <2>1, <2>3 DEF At
<1>5. ASSUME NEW j \in Corners
      PROVE  CornerLimit(j) \in Nat /\ (j \in Index => CornerLimit(j) <= moves[j].cap)
  <2>1. CASE j = 1 \/ j = N + 1
    <3>1. CornerLimit(j) = 0
      BY <2>1 DEF CornerLimit
    <3>2. j \in Index => moves[j].cap \in Nat
      BY MoveFacts
    <3> QED BY <3>1, <3>2
  <2>2. CASE j # 1 /\ j # N + 1
    <3> DEFINE a == moves[j - 1].cap
               b == moves[j].cap
               c == moves[j].corner
    <3>1. j \in Index /\ j - 1 \in Index
      BY <1>1, <2>2 DEF Corners, Index
    <3>2. a \in Nat /\ b \in Nat /\ c \in Nat
      BY <3>1, MoveFacts
    <3>3. CornerLimit(j) = Smaller(c, Smaller(a, b))
      BY <2>2 DEF CornerLimit
    <3> HIDE DEF a, b, c
    <3>4. CornerLimit(j) \in Nat /\ CornerLimit(j) <= b
      BY <3>2, <3>3 DEF Smaller
    <3> QED BY <3>4 DEF b
  <2> QED BY <2>1, <2>2
<1>6. \A k \in Index : k \in Corners /\ k + 1 \in Corners
  BY <1>1 DEF Index, Corners
<1>7. CornerLimit(N + 1) = 0
  BY DEF CornerLimit
<1> QED BY <1>1, <1>2, <1>3, <1>4, <1>5, <1>6, <1>7

\* One step of the backward pass.
LEMMA BrakesOneMore ==
    ASSUME MotionPlain, NEW k \in Index, NEW n \in Nat, Ahead(n, k + 1), MeetsAhead(n, k + 1),
           NEW v, v = Smaller(CornerLimit(k), n + Gain(moves[k]))
    PROVE  Ahead(v, k) /\ MeetsAhead(v, k)
<1> DEFINE g == Gain(moves[k])
           c == CornerLimit(k)
<1>1. /\ k \in Corners /\ k + 1 \in Corners /\ At(k + 1) = At(k) + g
      /\ g \in Nat /\ c \in Nat /\ At(k) \in Int /\ k \in Nat
      /\ \A j \in Corners : j \in Nat /\ CornerLimit(j) \in Nat /\ At(j) \in Int
  BY CornerFacts DEF Index, Corners
<1> HIDE DEF g, c
<1>2. v \in Nat /\ v <= c /\ v <= n + g /\ (v = c \/ v = n + g)
  BY <1>1 DEF Smaller, g, c
<1>3. Ahead(v, k)
  <2> SUFFICES ASSUME NEW j \in Corners, j >= k PROVE v <= CornerLimit(j) + (At(j) - At(k))
    BY DEF Ahead
  <2>1. CASE j = k
    BY <1>1, <1>2, <2>1 DEF c
  <2>2. CASE j # k
    <3>1. j >= k + 1
      BY <1>1, <2>2
    <3>2. n <= CornerLimit(j) + (At(j) - At(k + 1))
      BY <3>1 DEF Ahead
    <3> QED BY <1>1, <1>2, <3>2
  <2> QED BY <2>1, <2>2
<1>4. MeetsAhead(v, k)
  <2>1. CASE v = c
    <3>1. v = CornerLimit(k) + (At(k) - At(k)) /\ k >= k
      BY <1>1, <2>1 DEF c
    <3> QED BY <1>1, <3>1 DEF MeetsAhead
  <2>2. CASE v = n + g
    <3>1. PICK j \in Corners : j >= k + 1 /\ n = CornerLimit(j) + (At(j) - At(k + 1))
      BY DEF MeetsAhead
    <3>2. j >= k /\ v = CornerLimit(j) + (At(j) - At(k))
      BY <1>1, <2>2, <3>1
    <3> QED BY <3>2 DEF MeetsAhead
  <2> QED BY <1>2, <2>1, <2>2
<1> QED BY <1>3, <1>4

\* One step of the forward pass.
LEMMA EntersOneMore ==
    ASSUME MotionPlain, NEW k \in Index, k + 1 \in Index,
           NEW u \in Nat, Fastest(u, k),
           NEW b \in Nat, Ahead(b, k + 1), MeetsAhead(b, k + 1),
           NEW v, v = Smaller(u + Gain(moves[k]), b)
    PROVE  Fastest(v, k + 1)
<1> DEFINE g == Gain(moves[k])
<1>1. /\ k \in Corners /\ k + 1 \in Corners /\ At(k + 1) = At(k) + g
      /\ g \in Nat /\ At(k) \in Int /\ At(k + 1) \in Int /\ k \in Nat
      /\ \A j \in Corners : j \in Nat /\ CornerLimit(j) \in Nat /\ At(j) \in Int
  BY CornerFacts DEF Index, Corners
<1>2. v \in Nat /\ v <= u + g /\ v <= b /\ (v = u + g \/ v = b)
  BY <1>1 DEF Smaller
<1> HIDE DEF g
<1>3. Ahead(v, k + 1)
  <2> SUFFICES ASSUME NEW j \in Corners, j >= k + 1
               PROVE  v <= CornerLimit(j) + (At(j) - At(k + 1))
    BY DEF Ahead
  <2>1. b <= CornerLimit(j) + (At(j) - At(k + 1))
    BY DEF Ahead
  <2> QED BY <1>1, <1>2, <2>1
<1>4. Behind(v, k + 1)
  <2> SUFFICES ASSUME NEW j \in Corners, j <= k + 1
               PROVE  v <= CornerLimit(j) + (At(k + 1) - At(j))
    BY DEF Behind
  <2>1. CASE j = k + 1
    <3>1. b <= CornerLimit(j) + (At(j) - At(k + 1))
      BY <1>1, <2>1 DEF Ahead
    <3> QED BY <1>1, <1>2, <2>1, <3>1
  <2>2. CASE j # k + 1
    <3>1. j <= k
      BY <1>1, <2>2
    <3>2. u <= CornerLimit(j) + (At(k) - At(j))
      BY <3>1 DEF Fastest, Behind
    <3> QED BY <1>1, <1>2, <3>2
  <2> QED BY <2>1, <2>2
<1>5. MeetsAhead(v, k + 1) \/ MeetsBehind(v, k + 1)
  <2>1. CASE v = b
    BY <2>1
  <2>2. CASE v = u + g /\ v # b
    <3>1. PICK j \in Corners : j <= k /\ u = CornerLimit(j) + (At(k) - At(j))
      <4>1. CASE MeetsBehind(u, k)
        BY <4>1 DEF MeetsBehind
      <4>2. CASE MeetsAhead(u, k)
        <5>1. PICK j \in Corners : j >= k /\ u = CornerLimit(j) + (At(j) - At(k))
          BY <4>2 DEF MeetsAhead
        <5>2. j = k
          <6> SUFFICES ASSUME j # k PROVE FALSE
            OBVIOUS
          <6>1. j >= k + 1
            BY <1>1, <5>1
          <6>2. b <= CornerLimit(j) + (At(j) - At(k + 1))
            BY <6>1 DEF Ahead
          <6> QED BY <1>1, <1>2, <2>2, <5>1, <6>2
        <5>3. j <= k /\ u = CornerLimit(j) + (At(k) - At(j))
          BY <1>1, <5>1, <5>2
        <5> QED BY <5>3
      <4> QED BY <4>1, <4>2 DEF Fastest
    <3>2. j <= k + 1 /\ v = CornerLimit(j) + (At(k + 1) - At(j))
      BY <1>1, <2>2, <3>1
    <3> QED BY <3>2 DEF MeetsBehind
  <2> QED BY <1>2, <2>1, <2>2
<1> QED BY <1>3, <1>4, <1>5 DEF Fastest

\* All of it speaks of the print alone.
LEMMA PrintStays ==
    ASSUME moves' = moves
    PROVE  /\ N' = N /\ Index' = Index /\ Corners' = Corners
           /\ \A j : CornerLimit(j)' = CornerLimit(j) /\ At(j)' = At(j)
           /\ \A v, k : /\ Ahead(v, k)' <=> Ahead(v, k)
                        /\ MeetsAhead(v, k)' <=> MeetsAhead(v, k)
                        /\ Fastest(v, k)' <=> Fastest(v, k)
<1>1. N' = N /\ Index' = Index /\ Corners' = Corners
  BY DEF N, Index, Corners
<1>2. ASSUME NEW j PROVE CornerLimit(j)' = CornerLimit(j) /\ At(j)' = At(j)
  BY <1>1 DEF CornerLimit, At, Gains, Gain
<1>3. ASSUME NEW v, NEW k
      PROVE  /\ Ahead(v, k)' <=> Ahead(v, k)
             /\ MeetsAhead(v, k)' <=> MeetsAhead(v, k)
             /\ Behind(v, k)' <=> Behind(v, k)
             /\ MeetsBehind(v, k)' <=> MeetsBehind(v, k)
  BY <1>1, <1>2, Zenon DEF Ahead, MeetsAhead, Behind, MeetsBehind
<1>4. \A v, k : Fastest(v, k)' <=> Fastest(v, k)
  BY <1>3, Zenon DEF Fastest
<1> QED BY <1>1, <1>2, <1>3, <1>4

LEMMA FastLimitJunction == MotionInv /\ FastInv /\ LimitJunction => FastInv'
<1> SUFFICES ASSUME MotionInv, FastInv, LimitJunction PROVE FastInv'
  OBVIOUS
<1> DEFINE j == IF index = 1 THEN 0 ELSE Corner(index)
<1>1. /\ pass = "junctions" /\ index \in Index /\ moves' = moves /\ MotionPlain
      /\ UNCHANGED <<entry, exit>> /\ junction' = [junction EXCEPT ![index] = j]
      /\ DOMAIN junction = Index /\ N \in Nat
  BY DEF LimitJunction, MotionInv, MotionPlain, N
<1>2. j = CornerLimit(index)
  <2>1. index # N + 1
    BY <1>1 DEF Index
  <2> QED BY <2>1 DEF CornerLimit, Corner
<1> HIDE DEF j
<1>3. \/ index < N /\ index' = index + 1 /\ pass' = "junctions"
      \/ index = N /\ pass' = "backward"
  BY <1>1 DEF LimitJunction, Index
<1>4. /\ Index' = Index /\ \A k : CornerLimit(k)' = CornerLimit(k)
  BY <1>1, PrintStays
<1>5. JunctionsAreCorners'
  <2> SUFFICES ASSUME NEW k \in Index, pass' = "junctions" => k < index'
               PROVE  junction'[k] = CornerLimit(k)
    BY <1>4 DEF JunctionsAreCorners
  <2>1. CASE k = index
    BY <1>1, <1>2, <2>1
  <2>2. CASE k # index
    <3>1. k < index
      BY <1>1, <1>3, <2>2 DEF Index
    <3>2. junction[k] = CornerLimit(k)
      BY <3>1 DEF FastInv, JunctionsAreCorners
    <3> QED BY <1>1, <2>2, <3>2
  <2> QED BY <2>1, <2>2
<1>6. BrakesFastest'
  <2> SUFFICES ASSUME NEW k \in Index, pass' = "backward" /\ k > index' PROVE FALSE
    BY <1>3, <1>4 DEF BrakesFastest
  <2>1. index' = N
    BY <1>1, <1>3 DEF LimitJunction
  <2> QED BY <1>1, <2>1 DEF Index
<1>7. EntersFastest' /\ LeavesFastest'
  BY <1>3, <1>4 DEF EntersFastest, LeavesFastest, Done
<1> QED BY <1>5, <1>6, <1>7 DEF FastInv

LEMMA FastBackward == MotionInv /\ FastInv /\ Backward => FastInv'
<1> SUFFICES ASSUME MotionInv, FastInv, Backward PROVE FastInv'
  OBVIOUS
<1> DEFINE e == Braking(index)
           n == NextEntry(index)
           g == Gain(moves[index])
<1>1. /\ pass = "backward" /\ index \in Index /\ moves' = moves /\ MotionPlain
      /\ UNCHANGED <<junction, exit>> /\ entry' = [entry EXCEPT ![index] = e]
      /\ DOMAIN entry = Index /\ N \in Nat
  BY DEF Backward, MotionInv, MotionPlain, N
<1>2. /\ n \in Nat /\ g \in Nat /\ moves[index].cap \in Nat /\ CornerLimit(index) \in Nat
      /\ CornerLimit(index) <= moves[index].cap /\ index + 1 \in Corners
      /\ junction[index] = CornerLimit(index)
  <2>1. junction[index] = CornerLimit(index)
    BY <1>1 DEF FastInv, JunctionsAreCorners
  <2> QED BY <1>1, <2>1, CornerFacts, MoveFacts
<1>3. e = Smaller(CornerLimit(index), n + g)
  <2> DEFINE c == CornerLimit(index)
             m == moves[index].cap
  <2>1. e = Smaller(Smaller(c, m), n + g)
    BY <1>2 DEF Braking
  <2> HIDE DEF c, m, e
  <2>2. Smaller(c, m) = c
    BY <1>2 DEF Smaller, c, m
  <2> QED BY <2>1, <2>2 DEF c
<1> HIDE DEF e
<1>4. Ahead(n, index + 1) /\ MeetsAhead(n, index + 1)
  <2>1. CASE index = N
    <3>1. n = 0 /\ CornerLimit(N + 1) = 0
      BY <2>1 DEF NextEntry, CornerLimit
    <3>2. \A j \in Corners : j >= N + 1 => j = N + 1
      BY <1>1 DEF Corners
    <3>3. At(N + 1) \in Int /\ N + 1 \in Corners
      BY <1>1, <1>2, <2>1, CornerFacts
    <3>4. n = CornerLimit(N + 1) + (At(N + 1) - At(N + 1))
      BY <3>1, <3>3
    <3>5. N + 1 >= N + 1
      BY <1>1
    <3>6. Ahead(n, N + 1)
      BY <1>1, <3>2, <3>4, <3>1, <3>3 DEF Ahead
    <3>7. MeetsAhead(n, N + 1)
      BY <3>3, <3>4, <3>5 DEF MeetsAhead
    <3> QED BY <2>1, <3>6, <3>7
  <2>2. CASE index # N
    <3>1. index + 1 \in Index /\ index + 1 > index /\ n = entry[index + 1]
      BY <1>1, <2>2 DEF Index, NextEntry
    <3> QED BY <1>1, <3>1 DEF FastInv, BrakesFastest
  <2> QED BY <2>1, <2>2
<1> HIDE DEF n
<1>5. Ahead(e, index) /\ MeetsAhead(e, index)
  BY <1>1, <1>2, <1>3, <1>4, BrakesOneMore
<1>6. \/ index > 1 /\ index' = index - 1 /\ pass' = "backward"
      \/ index = 1 /\ index' = 1 /\ pass' = "forward"
  BY <1>1 DEF Backward, Index
<1>7. /\ Index' = Index /\ \A k : CornerLimit(k)' = CornerLimit(k)
      /\ \A v, k : /\ Ahead(v, k)' <=> Ahead(v, k)
                   /\ MeetsAhead(v, k)' <=> MeetsAhead(v, k)
  BY <1>1, PrintStays
<1>8. JunctionsAreCorners'
  BY <1>1, <1>7 DEF FastInv, JunctionsAreCorners
<1>9. BrakesFastest'
  <2> SUFFICES ASSUME NEW k \in Index, k >= index
               PROVE  Ahead(entry'[k], k) /\ MeetsAhead(entry'[k], k)
    <3>1. \A k \in Index : (pass' = "forward" /\ k >= index') \/ (pass' = "backward" /\ k > index')
                               => k >= index
      BY <1>1, <1>6 DEF Index
    <3> QED BY <1>7, <3>1 DEF BrakesFastest
  <2>1. CASE k = index
    BY <1>1, <1>5, <2>1
  <2>2. CASE k # index
    <3>1. k > index /\ entry'[k] = entry[k]
      BY <1>1, <2>2 DEF Index
    <3> QED BY <1>1, <3>1 DEF FastInv, BrakesFastest
  <2> QED BY <2>1, <2>2
<1>10. EntersFastest' /\ LeavesFastest'
  <2>1. \A k \in Index : ~Done(k)'
    <3>1. \A k \in Index : pass' = "forward" => ~(k < index')
      BY <1>1, <1>6 DEF Index
    <3> QED BY <1>6, <3>1 DEF Done
  <2>2. \A k \in Index : ~(pass' = "forward" /\ k > 1 /\ k = index')
    BY <1>6
  <2> QED BY <1>7, <2>1, <2>2 DEF EntersFastest, LeavesFastest
<1> QED BY <1>8, <1>9, <1>10 DEF FastInv

LEMMA FastForward == MotionInv /\ FastInv /\ Forward => FastInv'
<1> SUFFICES ASSUME MotionInv, FastInv, Forward PROVE FastInv'
  OBVIOUS
<1> DEFINE in == Reached(index)
           out == Leaving(index, in)
           g == Gain(moves[index])
<1>1. /\ pass = "forward" /\ index \in Index /\ moves' = moves /\ MotionPlain
      /\ UNCHANGED junction
      /\ entry' = [entry EXCEPT ![index] = in] /\ exit' = [exit EXCEPT ![index] = out]
      /\ entry \in [Index -> Nat] /\ exit \in [Index -> Nat]
      /\ N \in Nat /\ index \in Nat /\ index <= N
      /\ index' = index + 1 /\ pass' = IF index = N THEN "planned" ELSE "forward"
  BY DEF Forward, MotionInv, MotionPlain, N, Index
<1> HIDE DEF out
<1>2. /\ Ahead(entry[index], index) /\ MeetsAhead(entry[index], index)
      /\ EntryHolds(index) /\ CornerHolds(index) /\ entry[index] \in Nat
  <2>1. Ahead(entry[index], index) /\ MeetsAhead(entry[index], index)
    BY <1>1 DEF FastInv, BrakesFastest
  <2>2. EntryHolds(index) /\ CornerHolds(index)
    BY <1>1 DEF MotionInv, EntriesLimited, CornersLimited
  <2> QED BY <1>1, <2>1, <2>2
<1>3. Fastest(in, index) /\ in \in Nat
  <2>1. CASE index = 1
    <3>1. in = entry[index]
      BY <2>1 DEF Reached
    <3>2. Behind(entry[index], index)
      <4> SUFFICES ASSUME NEW j \in Corners, j <= 1
                   PROVE  entry[index] <= CornerLimit(j) + (At(index) - At(j))
        BY <2>1 DEF Behind
      <4>1. j = index
        BY <1>1, <2>1 DEF Corners
      <4>2. entry[index] <= CornerLimit(j) + (At(j) - At(index))
        BY <1>1, <1>2, <4>1 DEF Ahead
      <4> QED BY <4>1, <4>2
    <3> QED BY <1>2, <3>1, <3>2 DEF Fastest
  <2>2. CASE index # 1
    <3> DEFINE k == index - 1
               u == entry[k]
               b == entry[index]
               h == Gain(moves[k])
    <3>1. /\ k \in Index /\ k + 1 = index /\ k < index /\ index > 1
          /\ u \in Nat /\ b \in Nat /\ exit[k] \in Nat
      BY <1>1, <2>2 DEF Index
    <3>2. exit[k] = Smaller(Smaller(u + h, moves[k].cap), b)
      BY <1>1, <3>1 DEF FastInv, LeavesFastest
    <3>3. b <= moves[k].cap
      <4>1. junction[index] <= moves[index - 1].cap /\ b <= junction[index]
        BY <1>2, <3>1 DEF EntryHolds, CornerHolds
      <4>2. junction[index] \in Nat /\ moves[k].cap \in Nat
        BY <1>1, <3>1, MoveFacts DEF MotionPlain
      <4> QED BY <3>1, <4>1, <4>2
    <3>4. h \in Nat /\ moves[k].cap \in Nat
      BY <1>1, <3>1, MoveFacts
    <3>5. Fastest(u, k)
      BY <1>1, <3>1 DEF FastInv, EntersFastest, Done
    <3>6. in = Smaller(b, exit[k])
      BY <3>1 DEF Reached
    <3> HIDE DEF u, b, h, in
    <3>7. in = Smaller(u + h, b) /\ in \in Nat
      <4> DEFINE m == moves[k].cap
                 x == exit[k]
      <4>1. m \in Nat /\ x = Smaller(Smaller(u + h, m), b) /\ b <= m /\ in = Smaller(b, x)
        BY <3>2, <3>3, <3>4, <3>6
      <4> HIDE DEF m, x, k
      <4> QED BY <3>1, <3>4, <4>1 DEF Smaller
    <3>8. Ahead(b, k + 1) /\ MeetsAhead(b, k + 1)
      BY <1>2, <3>1 DEF b
    <3> HIDE DEF k
    <3>9. Fastest(in, k + 1)
      BY <1>1, <3>1, <3>5, <3>7, <3>8, EntersOneMore DEF h
    <3> QED BY <3>1, <3>7, <3>9
  <2> QED BY <2>1, <2>2
<1> HIDE DEF in
<1>4. \A k \in Index : k # index => entry'[k] = entry[k] /\ exit'[k] = exit[k]
  BY <1>1
<1>5. entry'[index] = in /\ exit'[index] = out
  BY <1>1
<1>6. /\ N' = N /\ Index' = Index /\ \A k : CornerLimit(k)' = CornerLimit(k)
      /\ \A v, k : /\ Ahead(v, k)' <=> Ahead(v, k)
                   /\ MeetsAhead(v, k)' <=> MeetsAhead(v, k)
                   /\ Fastest(v, k)' <=> Fastest(v, k)
  BY <1>1, PrintStays
<1>7. JunctionsAreCorners'
  <2>1. \A k \in Index : junction[k] = CornerLimit(k)
    BY <1>1 DEF FastInv, JunctionsAreCorners
  <2> QED BY <1>1, <1>6, <2>1 DEF JunctionsAreCorners
<1>8. BrakesFastest'
  <2> SUFFICES ASSUME NEW k \in Index, k >= index + 1
               PROVE  Ahead(entry'[k], k) /\ MeetsAhead(entry'[k], k)
    BY <1>1, <1>6 DEF BrakesFastest
  <2>1. k # index /\ k >= index
    BY <1>1 DEF Index
  <2>2. entry'[k] = entry[k]
    BY <1>4, <2>1
  <2> QED BY <1>1, <2>1, <2>2 DEF FastInv, BrakesFastest
<1>9. EntersFastest'
  <2>1. ASSUME NEW k \in Index, Done(k)' PROVE Fastest(entry'[k], k)
    <3>1. k = index \/ k < index
      BY <1>1, <2>1 DEF Done, Index
    <3>2. CASE k = index
      BY <1>3, <1>5, <3>2
    <3>3. CASE k < index
      <4>1. Done(k) /\ k # index
        BY <1>1, <3>3 DEF Done, Index
      <4>2. Fastest(entry[k], k)
        BY <4>1 DEF FastInv, EntersFastest
      <4> QED BY <1>4, <4>1, <4>2
    <3> QED BY <3>1, <3>2, <3>3
  <2> QED BY <1>6, <2>1 DEF EntersFastest
<1>10. LeavesFastest'
  <2> SUFFICES ASSUME NEW k \in Index, pass' = "forward", k > 1, k = index + 1
               PROVE  exit'[k - 1] = Smaller(Smaller(entry'[k - 1] + Gain(moves[k - 1]),
                                                     moves[k - 1].cap), entry'[k])
    BY <1>1, <1>6 DEF LeavesFastest, Gain
  <2>1. k - 1 = index /\ index # N /\ k # index
    BY <1>1 DEF Index
  <2>2. out = Smaller(Smaller(in + g, moves[index].cap), entry[k])
    BY <2>1 DEF out, Leaving, NextEntry
  <2>3. exit'[k - 1] = out /\ entry'[k - 1] = in /\ entry'[k] = entry[k]
    BY <1>4, <1>5, <2>1
  <2> QED BY <2>1, <2>2, <2>3
<1> QED BY <1>7, <1>8, <1>9, <1>10 DEF FastInv


-----------------------------------------------------------------------------
(***************************************************************************)
(* That the estimator and the rewriter count the same filament: both go     *)
(* through one more line, or one more move, at a time, and agree on whether *)
(* the filament is retracted in front of it.                                *)
(***************************************************************************)

Flows == [k \in DOMAIN print |-> print[k].extrude]

\* The flag looks back only.
LEMMA FlagLooksBack ==
    ASSUME NEW f, NEW g, NEW n \in Nat, \A i \in 1 .. n : f[i] \in Int /\ g[i] = f[i],
           NEW k \in 1 .. (n + 1)
    PROVE  RetractedBefore(g, k) <=> RetractedBefore(f, k)
<1> DEFINE S == {j \in 1 .. (k - 1) : f[j] # 0}
           T == {j \in 1 .. (k - 1) : g[j] # 0}
<1>1. S = T
  OBVIOUS
<1>2. S # {} => Max(S) \in 1 .. n
  <2>1. S \in SUBSET (0 .. n) /\ \A j \in S : j \in 1 .. n
    OBVIOUS
  <2> HIDE DEF S
  <2> QED BY <2>1, MaxNat
<1>3. (RetractedBefore(f, k) <=> S # {} /\ f[Max(S)] < 0)
      /\ (RetractedBefore(g, k) <=> T # {} /\ g[Max(T)] < 0)
  BY Zenon DEF RetractedBefore
<1> HIDE DEF S, T
<1> QED BY <1>1, <1>2, <1>3

\* A flow sets the flag behind it; no flow leaves it as it was.
LEMMA FlagBehind ==
    ASSUME NEW f, NEW k \in Nat \ {0}, \A i \in 1 .. k : f[i] \in Int
    PROVE  RetractedBefore(f, k + 1) <=> IF f[k] # 0 THEN f[k] < 0 ELSE RetractedBefore(f, k)
<1> DEFINE S == {j \in 1 .. ((k + 1) - 1) : f[j] # 0}
           T == {j \in 1 .. (k - 1) : f[j] # 0}
<1>1. (RetractedBefore(f, k + 1) <=> S # {} /\ f[Max(S)] < 0)
      /\ (RetractedBefore(f, k) <=> T # {} /\ f[Max(T)] < 0)
  BY Zenon DEF RetractedBefore
<1>2. CASE f[k] = 0
  <2>1. S = T
    BY <1>2
  <2> HIDE DEF S, T
  <2> QED BY <1>1, <1>2, <2>1
<1>3. CASE f[k] # 0
  <2>1. k \in S /\ S \in SUBSET Int /\ \A y \in S : y <= k
    BY <1>3
  <2> HIDE DEF S, T
  <2>2. Max(S) = k
    BY <2>1, MaxIs
  <2> QED BY <1>1, <1>3, <2>1, <2>2
<1> QED BY <1>2, <1>3

\* Behind flows of nothing the flag is what it was.
LEMMA FlagBehindNothing ==
    ASSUME NEW f, NEW n \in Nat, NEW c \in Nat, \A i \in 1 .. n : f[i] \in Int,
           \A i \in (n + 1) .. (n + c) : f[i] = 0
    PROVE  \A d \in 0 .. c : RetractedBefore(f, n + d + 1) <=> RetractedBefore(f, n + 1)
<1> DEFINE Flag(k) == RetractedBefore(f, k)
           G == {d \in Nat : d <= c => (Flag(n + d + 1) <=> Flag(n + 1))}
<1>1. 0 \in G
  <2>1. n + 0 + 1 = n + 1
    OBVIOUS
  <2> QED BY <2>1
<1>2. ASSUME NEW d \in Nat, d \in G PROVE d + 1 \in G
  <2> SUFFICES ASSUME d + 1 <= c PROVE Flag(n + (d + 1) + 1) <=> Flag(n + 1)
    OBVIOUS
  <2> DEFINE k == n + d + 1
  <2>1. k \in Nat \ {0} /\ n + (d + 1) + 1 = k + 1 /\ k \in (n + 1) .. (n + c)
    OBVIOUS
  <2>2. \A i \in 1 .. k : f[i] \in Int
    OBVIOUS
  <2>3. Flag(k) <=> Flag(n + 1)
    BY <1>2
  <2> HIDE DEF k
  <2>4. f[k] = 0
    BY <2>1
  <2>5. Flag(k + 1) <=> Flag(k)
    BY <2>1, <2>2, <2>4, FlagBehind
  <2> HIDE DEF Flag
  <2> QED BY <2>1, <2>3, <2>5
<1>3. \A d \in Nat : d \in G
  <2> HIDE DEF G
  <2> QED BY <1>1, <1>2, Successors
<1> HIDE DEF Flag
<1>4. \A d \in 0 .. c : Flag(n + d + 1) <=> Flag(n + 1)
  BY <1>3
<1> QED BY <1>4 DEF Flag

\* What is laid down of a flow, given the flag in front of it.
Laying(f, k) == IF f[k] < 0 \/ RetractedBefore(f, k) THEN 0 ELSE f[k]

\* The flows of a print, one way or another extended by another piece of it.
Extends(f, g, n, m) ==
    /\ n \in Nat /\ m \in Nat /\ n <= m
    /\ DOMAIN f = 1 .. n /\ DOMAIN g = 1 .. m
    /\ \A i \in 1 .. m : g[i] \in Int
    /\ \A i \in 1 .. n : g[i] = f[i]

LEMMA SamplesExtend ==
    ASSUME NEW f, NEW g, NEW n, NEW m, Extends(f, g, n, m)
    PROVE  /\ DOMAIN Samples(f) = 1 .. n /\ DOMAIN Samples(g) = 1 .. m
           /\ \A k \in 1 .. m : Samples(g)[k] = Laying(g, k) /\ Samples(g)[k] \in Int
           /\ \A k \in 1 .. n : Samples(g)[k] = Samples(f)[k]
           /\ RetractedBefore(g, n + 1) <=> RetractedBefore(f, n + 1)
<1>1. /\ n \in Nat /\ m \in Nat /\ n <= m
      /\ DOMAIN f = 1 .. n /\ DOMAIN g = 1 .. m
      /\ \A i \in 1 .. m : g[i] \in Int
      /\ \A i \in 1 .. n : f[i] \in Int /\ g[i] = f[i]
  BY DEF Extends
<1>2. DOMAIN Samples(f) = 1 .. n /\ DOMAIN Samples(g) = 1 .. m
  BY <1>1 DEF Samples
<1>3. \A k \in 1 .. n : Samples(f)[k] = Laying(f, k)
  BY <1>1 DEF Samples, Laying
<1>4. \A k \in 1 .. m : Samples(g)[k] = Laying(g, k)
  BY <1>1 DEF Samples, Laying
<1>5. \A k \in 1 .. m : Laying(g, k) \in Int
  BY <1>1 DEF Laying
<1>6. \A k \in 1 .. (n + 1) : RetractedBefore(g, k) <=> RetractedBefore(f, k)
  BY <1>1, FlagLooksBack
<1>7. \A k \in 1 .. n : Laying(g, k) = Laying(f, k)
  <2> SUFFICES ASSUME NEW k \in 1 .. n PROVE Laying(g, k) = Laying(f, k)
    OBVIOUS
  <2>1. k \in 1 .. (n + 1) /\ k \in 1 .. m /\ g[k] = f[k]
    BY <1>1
  <2>2. RetractedBefore(g, k) <=> RetractedBefore(f, k)
    BY <1>6, <2>1
  <2> QED BY <2>1, <2>2, Zenon DEF Laying
<1>8. n + 1 \in 1 .. (n + 1)
  BY <1>1
<1>9. \A k \in 1 .. n : Samples(g)[k] = Samples(f)[k]
  <2>1. \A k \in 1 .. n : k \in 1 .. m
    BY <1>1
  <2> QED BY <1>3, <1>4, <1>7, <2>1
<1> QED BY <1>2, <1>4, <1>5, <1>6, <1>8, <1>9

LEMMA SumIs ==
    ASSUME NEW s, NEW n, DOMAIN s = 1 .. n
    PROVE  TotalOf(s) = SumOver(s, 1 .. n)
BY Zenon DEF TotalOf, MapThenSumSet, MapThenFoldSet, SumOver, IsRun, One

\* Sums of a function of which another one continues the values.
LEMMA SumContinues ==
    ASSUME NEW f, NEW g, NEW n \in Nat, \A i \in 1 .. n : f[i] \in Int /\ g[i] = f[i]
    PROVE  SumOver(g, 1 .. n) = SumOver(f, 1 .. n)
<1> DEFINE S == 1 .. n
           e == [i \in S |-> f[i]]
<1>1. IsFiniteSet(S) /\ \A i \in S : f[i] \in Int /\ g[i] = f[i]
  BY FS_Interval
<1> HIDE DEF S
<1>2. e \in [S -> Int] /\ (\A i \in S : f[i] = e[i]) /\ \A i \in S : g[i] = e[i]
  BY <1>1
<1> HIDE DEF e
<1>3. SumOver(f, S) = SumOver(e, S)
  BY <1>1, <1>2, SumSame
<1>4. SumOver(g, S) = SumOver(e, S)
  BY <1>1, <1>2, SumSame
<1> QED BY <1>3, <1>4 DEF S

\* Moves without flow lay nothing down.
LEMMA NothingLaid ==
    ASSUME NEW f, NEW g, NEW n, NEW m, Extends(f, g, n, m), \A i \in (n + 1) .. m : g[i] = 0
    PROVE  /\ TotalOf(Samples(g)) = TotalOf(Samples(f))
           /\ RetractedBefore(g, m + 1) <=> RetractedBefore(f, n + 1)
<1> DEFINE s == Samples(f)
           t == Samples(g)
           c == m - n
<1>1. /\ n \in Nat /\ m \in Nat /\ c \in Nat /\ n + c = m /\ \A i \in 1 .. m : g[i] \in Int
      /\ \A i \in 1 .. n : i \in 1 .. m
  BY DEF Extends
<1>2. /\ DOMAIN s = 1 .. n /\ DOMAIN t = 1 .. m
      /\ \A k \in 1 .. m : t[k] = Laying(g, k) /\ t[k] \in Int
      /\ \A k \in 1 .. n : t[k] = s[k]
      /\ RetractedBefore(g, n + 1) <=> RetractedBefore(f, n + 1)
  BY SamplesExtend
<1> HIDE DEF s, t, c
<1>3. \A i \in (n + 1) .. (n + c) : t[i] = 0
  <2>1. \A i \in (n + 1) .. (n + c) : i \in 1 .. m /\ g[i] = 0
    BY <1>1
  <2>2. \A i \in (n + 1) .. (n + c) : Laying(g, i) = 0
    BY <2>1 DEF Laying
  <2> QED BY <1>2, <2>1, <2>2
<1>4. \A i \in 1 .. n : t[i] \in Int /\ s[i] \in Int
  BY <1>1, <1>2
<1>5. SumOver(t, 1 .. (n + c)) = SumOver(t, 1 .. n)
  BY <1>1, <1>3, <1>4, SumZeroTail
<1>6. SumOver(t, 1 .. n) = SumOver(s, 1 .. n)
  BY <1>1, <1>2, <1>4, SumContinues
<1>7. TotalOf(t) = SumOver(t, 1 .. m) /\ TotalOf(s) = SumOver(s, 1 .. n)
  BY <1>2, SumIs
<1>8. RetractedBefore(g, m + 1) <=> RetractedBefore(g, n + 1)
  <2>1. \A d \in 0 .. c : RetractedBefore(g, n + d + 1) <=> RetractedBefore(g, n + 1)
    <3>1. \A i \in 1 .. n : g[i] \in Int
      BY <1>1
    <3>2. \A i \in (n + 1) .. (n + c) : g[i] = 0
      BY <1>1
    <3> QED BY <1>1, <3>1, <3>2, FlagBehindNothing
  <2>2. c \in 0 .. c
    BY <1>1
  <2>3. RetractedBefore(g, n + c + 1) <=> RetractedBefore(g, n + 1)
    BY <2>1, <2>2, Zenon
  <2> QED BY <1>1, <2>3
<1> QED BY <1>1, <1>2, <1>5, <1>6, <1>7, <1>8 DEF s, t

\* One more move lays down its flow, unless it retracts or undoes a retraction.
LEMMA OneMoreLaid ==
    ASSUME NEW f, NEW g, NEW n, Extends(f, g, n, n + 1)
    PROVE  /\ TotalOf(Samples(g)) =
                TotalOf(Samples(f)) + (IF g[n + 1] < 0 \/ RetractedBefore(f, n + 1)
                                       THEN 0 ELSE g[n + 1])
           /\ RetractedBefore(g, n + 2)
                  <=> IF g[n + 1] # 0 THEN g[n + 1] < 0 ELSE RetractedBefore(f, n + 1)
           /\ TotalOf(Samples(f)) \in Int
<1> DEFINE s == Samples(f)
           t == Samples(g)
           m == n + 1
<1>1. /\ n \in Nat /\ m \in Nat \ {0} /\ m - 1 = n /\ m \in 1 .. m
      /\ \A i \in 1 .. m : g[i] \in Int
      /\ \A i \in 1 .. n : i \in 1 .. m
  BY DEF Extends
<1>2. /\ DOMAIN s = 1 .. n /\ DOMAIN t = 1 .. m
      /\ \A k \in 1 .. m : t[k] = Laying(g, k) /\ t[k] \in Int
      /\ \A k \in 1 .. n : t[k] = s[k]
      /\ RetractedBefore(g, m) <=> RetractedBefore(f, m)
  BY SamplesExtend
<1>3. n + 2 = m + 1
  BY <1>1
<1> HIDE DEF s, t, m
<1>4. \A i \in 1 .. n : t[i] \in Int /\ s[i] \in Int
  BY <1>1, <1>2
<1>5. SumOver(t, 1 .. m) = SumOver(t, 1 .. n) + t[m]
  <2>1. \A i \in 1 .. m : t[i] \in Int
    BY <1>2
  <2>2. m \in Nat /\ m > 0
    BY <1>1
  <2>3. SumOver(t, 1 .. m) = SumOver(t, 1 .. (m - 1)) + t[m]
    BY <2>1, <2>2, SumUpTo
  <2> QED BY <1>1, <2>3
<1>6. SumOver(t, 1 .. n) = SumOver(s, 1 .. n)
  BY <1>1, <1>2, <1>4, SumContinues
<1>7. TotalOf(t) = SumOver(t, 1 .. m) /\ TotalOf(s) = SumOver(s, 1 .. n)
  BY <1>2, SumIs
<1>8. SumOver(s, 1 .. n) \in Int
  BY <1>1, <1>4, SumUpTo
<1>9. t[m] = IF g[m] < 0 \/ RetractedBefore(f, m) THEN 0 ELSE g[m]
  BY <1>1, <1>2 DEF Laying
<1>10. RetractedBefore(g, m + 1) <=> IF g[m] # 0 THEN g[m] < 0 ELSE RetractedBefore(g, m)
  BY <1>1, FlagBehind
<1> QED BY <1>2, <1>3, <1>5, <1>6, <1>7, <1>8, <1>9, <1>10 DEF s, t, m

\* Behind every line the two have counted the same, and agree on the flag.
CountInv ==
    RetractsInPairs /\ ~ExtrudesOnArcs =>
        /\ PlannedFilament = RewrittenFilament
        /\ RetractedBefore(Flows, Len(print) + 1) <=> RetractedBefore(Pushed, Len(body) + 1)

Pushes(line) == IF IsMotion(line) THEN Word(line, "E", 0) ELSE 0
Counts(line) == IF IsExtrudingMove(line) THEN Word(line, "E", 0) ELSE 0

\* One more line of the body.
LEMMA BodyGrows ==
    ASSUME ExtractorTyped, NEW line \in BodyLines, Consume(line),
           NEW n, n = Len(body)
    PROVE  /\ n \in Nat /\ DOMAIN body = 1 .. n /\ DOMAIN body' = 1 .. (n + 1)
           /\ Len(body') = n + 1 /\ body'[n + 1] = line
           /\ \A i \in 1 .. n : body'[i] = body[i]
           /\ Extends(Pushed, Pushed', n, n + 1) /\ Pushed'[n + 1] = Pushes(line)
           /\ Pushes(line) \in Int
           /\ RewrittenFilament' = RewrittenFilament + Counts(line)
           /\ RewrittenFilament \in Int
<1>1. /\ body \in Seq(BodyLines) /\ body' = Append(body, line)
      /\ body' \in Seq(BodyLines)
  BY DEF ExtractorTyped, Consume
<1>2. /\ n \in Nat /\ DOMAIN body = 1 .. n /\ DOMAIN body' = 1 .. (n + 1)
      /\ Len(body') = n + 1 /\ body'[n + 1] = line
      /\ \A i \in 1 .. n : body'[i] = body[i]
  BY <1>1, AppendProperties, LenProperties
<1> DEFINE m == n + 1
<1>3. m \in Nat /\ m > 0 /\ m - 1 = n /\ n <= m /\ m \in 1 .. m /\ \A i \in 1 .. n : i \in 1 .. m
  BY <1>2
<1>4. \A i \in 1 .. m : body'[i] \in BodyLines
  BY <1>1, <1>2
<1> HIDE DEF m
<1>5. \A l \in BodyLines : Pushes(l) \in Int /\ Counts(l) \in Int
  BY WordIsInt DEF Pushes, Counts
<1>6. DOMAIN Pushed = 1 .. n /\ \A i \in 1 .. n : Pushed[i] = Pushes(body[i])
  BY <1>2 DEF Pushed, Pushes
<1>7. DOMAIN Pushed' = 1 .. m /\ \A i \in 1 .. m : Pushed'[i] = Pushes(body'[i])
  BY <1>2 DEF Pushed, Pushes, m
<1>8. Extends(Pushed, Pushed', n, m) /\ Pushed'[m] = Pushes(line)
  <2>1. \A i \in 1 .. m : Pushed'[i] \in Int
    BY <1>4, <1>5, <1>7
  <2>2. \A i \in 1 .. n : Pushed'[i] = Pushed[i]
    BY <1>2, <1>3, <1>6, <1>7
  <2>3. Pushed'[m] = Pushes(line)
    BY <1>2, <1>3, <1>7 DEF m
  <2> QED BY <1>2, <1>3, <1>6, <1>7, <2>1, <2>2, <2>3 DEF Extends
<1>9. DOMAIN Counted = 1 .. n /\ \A i \in 1 .. n : Counted[i] = Counts(body[i])
  BY <1>2 DEF Counted, Counts
<1>10. DOMAIN Counted' = 1 .. m /\ \A i \in 1 .. m : Counted'[i] = Counts(body'[i])
  BY <1>2 DEF Counted, Counts, m
<1>11. \A i \in 1 .. n : Counted[i] \in Int /\ Counted'[i] = Counted[i]
  BY <1>2, <1>3, <1>4, <1>5, <1>9, <1>10
<1>12. \A i \in 1 .. m : Counted'[i] \in Int
  BY <1>4, <1>5, <1>10
<1>13. Counted'[m] = Counts(line)
  BY <1>2, <1>3, <1>10 DEF m
<1> DEFINE f == Counted
           g == Counted'
<1>14. TotalOf(f) = SumOver(f, 1 .. n) /\ TotalOf(g) = SumOver(g, 1 .. m)
  BY <1>9, <1>10, SumIs
<1>15. RewrittenFilament = TotalOf(f) /\ RewrittenFilament' = TotalOf(g)
  BY Zenon DEF RewrittenFilament
<1> HIDE DEF f, g
<1>16. SumOver(g, 1 .. n) = SumOver(f, 1 .. n)
  BY <1>2, <1>11, SumContinues DEF f, g
<1>17. SumOver(g, 1 .. m) = SumOver(g, 1 .. (m - 1)) + g[m]
  BY <1>3, <1>12, SumUpTo DEF g
<1>18. SumOver(f, 1 .. n) \in Int
  BY <1>2, <1>11, SumUpTo DEF f
<1> QED BY <1>2, <1>3, <1>5, <1>8, <1>13, <1>14, <1>15, <1>16, <1>17, <1>18 DEF m, g

\* A print of n moves that is c moves longer.
LongerBy(s, n, c) ==
    /\ n \in Nat /\ c \in Nat /\ Len(print') = n + c
    /\ Extends(Flows, Flows', n, n + c)
    /\ \A i \in (n + 1) .. (n + c) : i - n \in 1 .. c /\ Flows'[i] = s[i - n].extrude

LEMMA PrintGrows ==
    ASSUME print \in Seq(ToolMove), NEW s \in Seq(ToolMove), print' = print \o s,
           NEW n, n = Len(print), NEW c, c = Len(s)
    PROVE  LongerBy(s, n, c)
<1>1. n \in Nat /\ c \in Nat
  BY LenProperties
<1>2. /\ print' \in Seq(ToolMove) /\ Len(print') = n + c
      /\ \A i \in 1 .. (n + c) : print'[i] = IF i <= n THEN print[i] ELSE s[i - n]
  BY ConcatProperties
<1> DEFINE m == n + c
<1>3. m \in Nat /\ n <= m /\ \A i \in 1 .. n : i \in 1 .. m /\ i <= n
  BY <1>1
<1>4. DOMAIN print = 1 .. n /\ DOMAIN print' = 1 .. m
  BY <1>2, LenProperties
<1>5. \A i \in 1 .. m : print'[i].extrude \in Int
  <2>1. \A i \in 1 .. m : print'[i] \in ToolMove
    BY <1>2, <1>4
  <2> QED BY <2>1 DEF ToolMove
<1>6. \A i \in (n + 1) .. m : i - n \in 1 .. c /\ i \in 1 .. m /\ ~(i <= n)
  BY <1>1
<1> HIDE DEF m
<1>7. DOMAIN Flows = 1 .. n /\ \A i \in 1 .. n : Flows[i] = print[i].extrude
  BY <1>4 DEF Flows
<1>8. DOMAIN Flows' = 1 .. m /\ \A i \in 1 .. m : Flows'[i] = print'[i].extrude
  BY <1>4 DEF Flows
<1>9. \A i \in 1 .. n : Flows'[i] = Flows[i]
  <2> SUFFICES ASSUME NEW i \in 1 .. n PROVE Flows'[i] = Flows[i]
    OBVIOUS
  <2>1. i \in 1 .. m /\ i \in 1 .. (n + c) /\ i <= n
    BY <1>3 DEF m
  <2>2. print'[i] = print[i]
    BY <1>2, <2>1
  <2> QED BY <1>7, <1>8, <2>1, <2>2
<1>10. Extends(Flows, Flows', n, m)
  BY <1>1, <1>3, <1>5, <1>7, <1>8, <1>9 DEF Extends
<1>11. \A i \in (n + 1) .. m : i - n \in 1 .. c /\ Flows'[i] = s[i - n].extrude
  BY <1>2, <1>6, <1>8 DEF m
<1> QED BY <1>1, <1>2, <1>10, <1>11 DEF LongerBy, m

\* What a line does to the print, as far as filament goes: nothing, if it
\* pushes none, or a move that lays down all that it pushes.
LEMMA LineMakesMoves ==
    ASSUME ExtractorTyped, NEW line \in BodyLines,
           \/ SkipLine(line) \/ SetPositioning(line) \/ ResetPosition(line)
           \/ SetFeedrate(line) \/ MoveLinear(line) \/ MoveArc(line),
           line.kind = "arc" => Pushes(line) = 0
    PROVE  \E s \in Seq(ToolMove) :
               /\ print' = print \o s
               /\ \/ Pushes(line) = 0 /\ \A i \in 1 .. Len(s) : s[i].extrude = 0
                  \/ Len(s) = 1 /\ s[1].extrude = Pushes(line)
<1>1. /\ pos \in Position /\ feedrate \in Int /\ print \in Seq(ToolMove)
      /\ print \o <<>> = print /\ <<>> \in Seq(ToolMove) /\ Len(<<>>) = 0
  BY ConcatEmptySeq, LenProperties, EmptySeq DEF ExtractorTyped
<1>2. SUFFICES ASSUME ~(print' = print /\ Pushes(line) = 0)
               PROVE  \E s \in Seq(ToolMove) :
                   /\ print' = print \o s
                   /\ \/ Pushes(line) = 0 /\ \A i \in 1 .. Len(s) : s[i].extrude = 0
                      \/ Len(s) = 1 /\ s[1].extrude = Pushes(line)
  <2> SUFFICES ASSUME print' = print, Pushes(line) = 0
               PROVE  \E s \in Seq(ToolMove) :
                          print' = print \o s /\ \A i \in 1 .. Len(s) : s[i].extrude = 0
    BY Zenon
  <2> WITNESS <<>> \in Seq(ToolMove)
  <2> QED BY <1>1
<1>3. MoveLinear(line) \/ MoveArc(line)
  <2>1. ~SkipLine(line) /\ ~SetPositioning(line) /\ ~ResetPosition(line)
    BY <1>2 DEF SkipLine, SetPositioning, ResetPosition, Pushes, IsMotion
  <2>2. ~SetFeedrate(line)
    BY <1>2 DEF SetFeedrate, Pushes, IsBare, Word
  <2> QED BY <2>1, <2>2
<1>4. CASE MoveLinear(line)
  <2> DEFINE e == Word(line, "E", 0)
             made == [from |-> pos, to |-> pos', feed |-> feedrate', extrude |-> e]
  <2>1. /\ Pushes(line) = e /\ pos' = TargetOf(line) /\ feedrate' = Word(line, "F", feedrate)
        /\ print' = IF pos' = pos /\ e = 0 THEN print ELSE Append(print, made)
    BY <1>4 DEF MoveLinear, Pushes, IsMotion
  <2>2. made \in ToolMove
    <3>1. pos' \in Position
      BY <1>1, <2>1, TargetIsPosition
    <3>2. feedrate' \in Int /\ e \in Int
      BY <1>1, <2>1, WordIsInt
    <3> QED BY <1>1, <3>1, <3>2 DEF ToolMove
  <2>3. made.extrude = e
    OBVIOUS
  <2> HIDE DEF e, made
  <2>4. print' = Append(print, made)
    BY <1>2, <2>1
  <2>5. print' = print \o <<made>>
    BY <1>1, <2>2, <2>4, AppendIsConcat
  <2>6. <<made>> \in Seq(ToolMove) /\ Len(<<made>>) = 1 /\ <<made>>[1] = made
    BY <2>2
  <2> QED BY <2>1, <2>3, <2>5, <2>6
<1>5. CASE MoveArc(line)
  <2> DEFINE made == [k \in 1 .. Chords |->
                         [from |-> ArcPoint(line, k - 1), to |-> ArcPoint(line, k),
                          extrude |-> Word(line, "E", 0) \div Chords, feed |-> feedrate']]
  <2>1. /\ line.kind = "arc" /\ Word(line, "E", 0) = 0 /\ Pushes(line) = 0
        /\ feedrate' = Word(line, "F", feedrate) /\ print' = print \o made
    BY <1>5 DEF MoveArc, Pushes, IsMotion
  <2>2. Chords \in Nat \ {0} /\ 0 \div Chords = 0 /\ feedrate' \in Int
    <3>1. Chords \in Nat \ {0} /\ feedrate' \in Int
      BY <1>1, <2>1, WordIsInt, ExtractorAssumption
    <3> QED BY <3>1
  <2>3. ASSUME NEW k \in 1 .. Chords
        PROVE  made[k] \in ToolMove /\ made[k].extrude = 0
    <3>1. k \in Int /\ k - 1 \in Int
      OBVIOUS
    <3>2. ArcPoint(line, k - 1) \in Position /\ ArcPoint(line, k) \in Position
      BY <1>1, <3>1, ArcPointIsPosition
    <3>3. made[k] = [from |-> ArcPoint(line, k - 1), to |-> ArcPoint(line, k),
                     extrude |-> 0, feed |-> feedrate']
      BY <2>1, <2>2
    <3> HIDE DEF made
    <3> QED BY <2>2, <3>2, <3>3 DEF ToolMove
  <2>4. made = [k \in 1 .. Chords |-> made[k]]
    OBVIOUS
  <2> HIDE DEF made
  <2>5. made \in Seq(ToolMove) /\ Len(made) = Chords
    BY <2>2, <2>3, <2>4
  <2>6. Pushes(line) = 0 /\ \A i \in 1 .. Len(made) : made[i].extrude = 0
    BY <2>1, <2>3, <2>5
  <2> QED BY <2>1, <2>5, <2>6
<1> QED BY <1>3, <1>4, <1>5

LEMMA ExtractCountsAlike == ExtractorTyped /\ CountInv /\ ReadBodyLine => CountInv'
<1> SUFFICES ASSUME ExtractorTyped, CountInv, NEW line \in BodyLines,
                    \/ SkipLine(line) \/ SetPositioning(line) \/ ResetPosition(line)
                    \/ SetFeedrate(line) \/ MoveLinear(line) \/ MoveArc(line),
                    RetractsInPairs', ~ExtrudesOnArcs'
             PROVE  /\ PlannedFilament' = RewrittenFilament'
                    /\ RetractedBefore(Flows, Len(print) + 1)'
                           <=> RetractedBefore(Pushed, Len(body) + 1)'
  BY DEF ReadBodyLine, CountInv
<1> DEFINE b == Len(body)
           n == Len(print)
           e == Pushes(line)
<1>1. Consume(line)
  BY DEF SkipLine, SetPositioning, ResetPosition, SetFeedrate, MoveLinear, MoveArc
<1>2. /\ b \in Nat /\ DOMAIN body = 1 .. b /\ DOMAIN body' = 1 .. (b + 1)
      /\ Len(body') = b + 1 /\ body'[b + 1] = line
      /\ \A i \in 1 .. b : body'[i] = body[i]
      /\ Extends(Pushed, Pushed', b, b + 1) /\ Pushed'[b + 1] = e
      /\ e \in Int
      /\ RewrittenFilament' = RewrittenFilament + Counts(line)
      /\ RewrittenFilament \in Int
  BY <1>1, BodyGrows
<1> HIDE DEF b, e
<1>3. /\ \A k \in 1 .. (b + 1) : RetractedBefore(Pushed', k) <=> RetractedBefore(Pushed, k)
      /\ \A i \in 1 .. b : Pushed'[i] = Pushed[i]
      /\ RetractedBefore(Pushed', b + 2)
             <=> IF e # 0 THEN e < 0 ELSE RetractedBefore(Pushed, b + 1)
  <2>1. \A i \in 1 .. b : Pushed[i] \in Int /\ Pushed'[i] = Pushed[i]
    BY <1>2 DEF Extends
  <2>2. \A i \in 1 .. (b + 1) : Pushed'[i] \in Int
    BY <1>2 DEF Extends
  <2>3. \A k \in 1 .. (b + 1) : RetractedBefore(Pushed', k) <=> RetractedBefore(Pushed, k)
    BY <1>2, <2>1, FlagLooksBack
  <2>4. b + 1 \in Nat \ {0} /\ b + 1 \in 1 .. (b + 1) /\ (b + 1) + 1 = b + 2
    BY <1>2
  <2> DEFINE k == b + 1
             p == Pushed'
  <2>5. p[k] = e
    BY <1>2
  <2>6. k \in Nat \ {0} /\ \A i \in 1 .. k : p[i] \in Int
    BY <2>2, <2>4
  <2> HIDE DEF k, p
  <2>7. RetractedBefore(p, k + 1) <=> IF p[k] # 0 THEN p[k] < 0 ELSE RetractedBefore(p, k)
    BY <2>6, FlagBehind
  <2>8. RetractedBefore(p, k) <=> RetractedBefore(Pushed, k)
    BY <2>3, <2>4 DEF k, p
  <2> QED BY <2>1, <2>3, <2>4, <2>5, <2>7, <2>8 DEF k, p
<1>4. RetractsInPairs
  <2> SUFFICES ASSUME NEW k \in 1 .. b, Pushed[k] > 0
               PROVE  RetractedBefore(Pushed, k) <=> ~Has(body[k], "X")
    BY <1>2 DEF RetractsInPairs
  <2>1. k \in 1 .. (b + 1)
    BY <1>2
  <2>2. RetractedBefore(Pushed', k) <=> ~Has(body'[k], "X")
    BY <1>2, <1>3, <2>1 DEF RetractsInPairs
  <2>3. RetractedBefore(Pushed', k) <=> RetractedBefore(Pushed, k)
    BY <1>3, <2>1
  <2>4. body'[k] = body[k]
    BY <1>2
  <2> QED BY <2>2, <2>3, <2>4, Zenon
<1>5. ~ExtrudesOnArcs
  <2> SUFFICES ASSUME NEW k \in 1 .. b, body[k].kind = "arc", Pushed[k] # 0 PROVE FALSE
    BY <1>2 DEF ExtrudesOnArcs
  <2>1. k \in 1 .. (b + 1) /\ body'[k] = body[k] /\ Pushed'[k] = Pushed[k]
    BY <1>2, <1>3
  <2> QED BY <1>2, <2>1 DEF ExtrudesOnArcs
<1>6. b + 1 \in 1 .. (b + 1)
  BY <1>2
<1>7. line.kind = "arc" => e = 0
  BY <1>2, <1>6 DEF ExtrudesOnArcs
<1>8. e > 0 => (RetractedBefore(Pushed, b + 1) <=> ~Has(line, "X"))
  <2>1. Pushed'[b + 1] > 0 => (RetractedBefore(Pushed', b + 1) <=> ~Has(body'[b + 1], "X"))
    BY <1>2, <1>6 DEF RetractsInPairs
  <2>2. RetractedBefore(Pushed', b + 1) <=> RetractedBefore(Pushed, b + 1)
    BY <1>3, <1>6
  <2> QED BY <1>2, <2>1, <2>2
<1>9. PlannedFilament = RewrittenFilament
      /\ (RetractedBefore(Flows, n + 1) <=> RetractedBefore(Pushed, b + 1))
  BY <1>4, <1>5 DEF CountInv, b
<1>10. PICK s \in Seq(ToolMove) :
          /\ print' = print \o s
          /\ \/ e = 0 /\ \A i \in 1 .. Len(s) : s[i].extrude = 0
             \/ Len(s) = 1 /\ s[1].extrude = e
  BY <1>7, LineMakesMoves DEF e
<1> DEFINE c == Len(s)
<1>11. /\ n \in Nat /\ c \in Nat /\ Len(print') = n + c
       /\ Extends(Flows, Flows', n, n + c)
       /\ \A i \in (n + 1) .. (n + c) : i - n \in 1 .. c /\ Flows'[i] = s[i - n].extrude
  <2>1. print \in Seq(ToolMove) /\ print' = print \o s
    BY <1>10 DEF ExtractorTyped
  <2>2. n = Len(print) /\ c = Len(s) /\ s \in Seq(ToolMove)
    OBVIOUS
  <2> HIDE DEF n, c
  <2>3. LongerBy(s, n, c)
    BY <2>1, <2>2, PrintGrows
  <2> QED BY <2>3 DEF LongerBy
<1>12. PlannedFilament = TotalOf(Samples(Flows)) /\ PlannedFilament' = TotalOf(Samples(Flows'))
  BY Zenon DEF PlannedFilament, Laid, Flows
<1> HIDE DEF n, c
<1>13. RetractedBefore(Flows, Len(print) + 1)' <=> RetractedBefore(Flows', (n + c) + 1)
  BY <1>11 DEF RetractedBefore
<1>14. RetractedBefore(Pushed, Len(body) + 1)' <=> RetractedBefore(Pushed', b + 2)
  <2>1. (b + 1) + 1 = b + 2
    BY <1>2
  <2> QED BY <1>2, <2>1 DEF RetractedBefore
<1>15. /\ Pushes(line) = e
       /\ Counts(line) = IF e > 0 /\ Has(line, "X") THEN e ELSE 0
  <2>1. IsExtrudingMove(line) <=> e > 0 /\ Has(line, "X")
    <3>1. line.kind # "arc" \/ ~(e > 0)
      BY <1>7
    <3> QED BY <3>1 DEF IsExtrudingMove, IsMove, Pushes, IsMotion, e
  <2>2. e > 0 => e = Word(line, "E", 0)
    BY DEF e, Pushes
  <2> QED BY <2>1, <2>2 DEF Counts, e
<1>16. CASE e = 0 /\ \A i \in 1 .. c : s[i].extrude = 0
  <2>1. \A i \in (n + 1) .. (n + c) : Flows'[i] = 0
    BY <1>11, <1>16
  <2>2. /\ TotalOf(Samples(Flows')) = TotalOf(Samples(Flows))
        /\ RetractedBefore(Flows', (n + c) + 1) <=> RetractedBefore(Flows, n + 1)
    BY <1>11, <2>1, NothingLaid
  <2>3. RewrittenFilament' = RewrittenFilament
    BY <1>2, <1>15, <1>16
  <2>4. RetractedBefore(Pushed', b + 2) <=> RetractedBefore(Pushed, b + 1)
    BY <1>3, <1>16
  <2> QED BY <1>9, <1>12, <1>13, <1>14, <2>2, <2>3, <2>4
<1>17. CASE c = 1 /\ s[1].extrude = e
  <2>1. Extends(Flows, Flows', n, n + 1) /\ Flows'[n + 1] = e /\ (n + c) + 1 = n + 2
    <3>1. n + 1 \in (n + 1) .. (n + c) /\ (n + 1) - n = 1 /\ (n + c) + 1 = n + 2
      BY <1>11, <1>17
    <3> QED BY <1>11, <1>17, <3>1
  <2>2. /\ TotalOf(Samples(Flows')) = TotalOf(Samples(Flows))
               + (IF Flows'[n + 1] < 0 \/ RetractedBefore(Flows, n + 1) THEN 0
                  ELSE Flows'[n + 1])
        /\ RetractedBefore(Flows', n + 2)
               <=> IF Flows'[n + 1] # 0 THEN Flows'[n + 1] < 0
                   ELSE RetractedBefore(Flows, n + 1)
    BY <2>1, OneMoreLaid
  <2> DEFINE laid == IF e < 0 \/ RetractedBefore(Flows, n + 1) THEN 0 ELSE e
  <2>3. laid = Counts(line)
    BY <1>2, <1>8, <1>9, <1>15
  <2>4. TotalOf(Samples(Flows')) = TotalOf(Samples(Flows)) + laid
    BY <2>1, <2>2
  <2> HIDE DEF laid
  <2>5. PlannedFilament' = RewrittenFilament'
    BY <1>2, <1>9, <1>12, <2>3, <2>4
  <2>6. RetractedBefore(Flows', n + 2)
            <=> IF e # 0 THEN e < 0 ELSE RetractedBefore(Flows, n + 1)
    BY <2>1, <2>2
  <2>7. RetractedBefore(Flows', n + 2) <=> RetractedBefore(Pushed', b + 2)
    BY <1>3, <1>9, <2>6
  <2> QED BY <1>13, <1>14, <2>1, <2>5, <2>7
<1> QED BY <1>10, <1>16, <1>17 DEF c

-----------------------------------------------------------------------------
(***************************************************************************)
(* What holds in every state of an estimate.                                *)
(***************************************************************************)

EstimatorInv == ExtractorTyped /\ MotionInv /\ FastInv /\ CountInv

\* What the moves from the i-th on gain in front of the j-th.
LEMMA GainIsDifference ==
    ASSUME MotionPlain, NEW i \in Corners, NEW j \in Corners, i <= j
    PROVE  GainBetween(i, j) = At(j) - At(i)
<1> DEFINE lo == i - 1
           hi == j - 1
           at == [k \in 0 .. N |-> At(k + 1)]
<1>1. /\ N \in Nat /\ lo \in 0 .. N /\ hi \in 0 .. N /\ lo <= hi /\ lo \in Nat /\ hi \in Nat
      /\ lo + 1 = i /\ hi + 1 = j
  BY CornerFacts DEF Corners
<1>2. at[lo] = At(i) /\ at[hi] = At(j) /\ At(i) \in Int
  BY <1>1, CornerFacts
<1>3. ASSUME NEW k \in (lo + 1) .. hi
      PROVE  at[k] \in Int /\ Gains[k] = at[k] - at[k - 1]
  <2>1. k \in Index /\ k \in 0 .. N /\ k - 1 \in 0 .. N /\ (k - 1) + 1 = k
    BY <1>1 DEF Index
  <2>2. at[k] = At(k + 1) /\ at[k - 1] = At(k)
    BY <2>1
  <2>3. Gains[k] = Gain(moves[k])
    BY <2>1 DEF Gains, Index
  <2>4. At(k + 1) = At(k) + Gain(moves[k]) /\ Gain(moves[k]) \in Nat
        /\ At(k) \in Int /\ At(k + 1) \in Int
    BY <2>1, CornerFacts
  <2> QED BY <2>2, <2>3, <2>4
<1> HIDE DEF at, lo, hi
<1>4. Telescopes(Gains, at, lo, hi)
  BY <1>1, <1>2, <1>3, SumTelescopes
<1>5. GainBetween(i, j) = SumOver(Gains, i .. (j - 1))
  BY Zenon DEF GainBetween, MapThenSumSet, MapThenFoldSet, SumOver, IsRun, One
<1> QED BY <1>1, <1>2, <1>4, <1>5 DEF Telescopes, hi

LEMMA EstimatorStarts == EstimatorInit => EstimatorInv
<1> SUFFICES ASSUME EstimatorInit PROVE EstimatorInv
  OBVIOUS
<1>1. /\ body = <<>> /\ print = <<>> /\ pos = <<0, 0>> /\ feedrate = 0
      /\ absolutePositioning = TRUE
  BY DEF EstimatorInit, ExtractorInit
<1>2. ExtractorTyped
  BY <1>1 DEF ExtractorTyped, Position
<1>3. MotionInv
  BY MotionInitInv DEF EstimatorInit
<1>4. FastInv
  <2>1. /\ N \in Nat /\ pass = IF N = 0 THEN "planned" ELSE "junctions"
        /\ index = 1
    BY <1>3 DEF MotionInv, MotionPlain, N, EstimatorInit, MotionInit
  <2>2. \A k \in Index : N # 0 /\ ~(k < index)
    BY <2>1 DEF Index
  <2> QED BY <2>1, <2>2 DEF FastInv, JunctionsAreCorners, BrakesFastest, EntersFastest,
                            LeavesFastest, Done
<1>5. CountInv
  <2>1. DOMAIN Samples(Flows) = 1 .. 0 /\ DOMAIN Counted = 1 .. 0 /\ 1 .. 0 = {}
    BY <1>1 DEF Samples, Flows, Counted
  <2>2. TotalOf(Samples(Flows)) = 0 /\ TotalOf(Counted) = 0
    BY <2>1, SumIs, SumEmpty
  <2>3. PlannedFilament = TotalOf(Samples(Flows)) /\ RewrittenFilament = TotalOf(Counted)
    BY Zenon DEF PlannedFilament, Laid, Flows, RewrittenFilament
  <2>4. Len(print) = 0 /\ Len(body) = 0 /\ 1 .. ((0 + 1) - 1) = {}
    BY <1>1
  <2>5. ~RetractedBefore(Flows, 0 + 1) /\ ~RetractedBefore(Pushed, 0 + 1)
    BY <2>4 DEF RetractedBefore
  <2> QED BY <2>2, <2>3, <2>4, <2>5 DEF CountInv
<1> QED BY <1>2, <1>3, <1>4, <1>5 DEF EstimatorInv

\* What a step that leaves the extractor, or the planner, alone keeps of it.
LEMMA ExtractorRests ==
    ASSUME ExtractorTyped, CountInv, UNCHANGED extractorVars
    PROVE  ExtractorTyped' /\ CountInv'
BY DEF extractorVars, ExtractorTyped, CountInv, RetractsInPairs, ExtrudesOnArcs,
       PlannedFilament, RewrittenFilament, Laid, Counted, Pushed, Flows

LEMMA PlannerRests ==
    ASSUME MotionInv, FastInv, UNCHANGED motionVars
    PROVE  MotionInv' /\ FastInv'
<1>1. MotionInv'
  BY MotionStutters
<1>2. moves' = moves /\ UNCHANGED <<pass, index, junction, entry, exit>>
  BY DEF motionVars
<1>3. FastInv'
  <2>1. /\ Index' = Index /\ \A k : CornerLimit(k)' = CornerLimit(k)
        /\ \A v, k : /\ Ahead(v, k)' <=> Ahead(v, k)
                     /\ MeetsAhead(v, k)' <=> MeetsAhead(v, k)
                     /\ Fastest(v, k)' <=> Fastest(v, k)
    BY <1>2, PrintStays
  <2>2. JunctionsAreCorners'
    BY <1>2, <2>1 DEF FastInv, JunctionsAreCorners
  <2>3. BrakesFastest'
    BY <1>2, <2>1 DEF FastInv, BrakesFastest
  <2>4. EntersFastest'
    BY <1>2, <2>1 DEF FastInv, EntersFastest, Done
  <2>5. LeavesFastest'
    BY <1>2, <2>1 DEF FastInv, LeavesFastest, Gain
  <2> QED BY <2>2, <2>3, <2>4, <2>5 DEF FastInv
<1> QED BY <1>1, <1>3

LEMMA PlanningBegins == ExtractorTyped /\ BeginPlanning => MotionInv' /\ FastInv'
<1> SUFFICES ASSUME ExtractorTyped, BeginPlanning PROVE MotionInv' /\ FastInv'
  OBVIOUS
<1> DEFINE n == Len(print)
<1>1. Prepared \in Seq(PlannedMove) /\ Len(Prepared) = n /\ DOMAIN print = 1 .. n /\ n \in Nat
  BY PreparedIsPrint DEF ExtractorTyped
<1>2. n # 0
  BY EmptySeq DEF BeginPlanning, ExtractorTyped
<1> HIDE DEF n
<1>3. /\ moves' = Prepared /\ pass' = "junctions" /\ index' = 1
      /\ junction' = [i \in 1 .. n |-> 0] /\ entry' = [i \in 1 .. n |-> 0]
      /\ exit' = [i \in 1 .. n |-> 0] /\ shape' = [i \in 1 .. n |-> "none"]
  BY <1>1 DEF BeginPlanning
<1>4. N' = n /\ Index' = 1 .. n /\ moves' \in Seq(PlannedMove)
  BY <1>1, <1>3 DEF N, Index
<1>5. \A k \in 1 .. n : ~(k < 1) /\ shape'[k] = "none"
  BY <1>1, <1>3
<1>6. MotionPlain'
  BY <1>1, <1>2, <1>3, <1>4 DEF MotionPlain
<1>7. CornersLimited' /\ EntriesLimited' /\ CanBrake'
  BY <1>3, <1>4, <1>5 DEF CornersLimited, EntriesLimited, CanBrake
<1>8. ExitsLimited' /\ Joined'
  BY <1>3, <1>4, <1>5 DEF ExitsLimited, Joined, Done
<1>9. FastInv'
  BY <1>3, <1>4, <1>5 DEF FastInv, JunctionsAreCorners, BrakesFastest, EntersFastest,
                          LeavesFastest, Done
<1> QED BY <1>6, <1>7, <1>8, <1>9 DEF MotionInv

\* The invariant of an estimate, from the first line of the body to the plan.
THEOREM EstimatorInvariant == EstimatorSpec => []EstimatorInv
<1>1. EstimatorInv /\ [EstimatorNext]_estimatorVars => EstimatorInv'
  <2> SUFFICES ASSUME EstimatorInv, [EstimatorNext]_estimatorVars PROVE EstimatorInv'
    OBVIOUS
  <2>1. ExtractorTyped /\ MotionInv /\ FastInv /\ CountInv
    BY DEF EstimatorInv
  <2>2. CASE Extract
    <3>1. ReadBodyLine /\ UNCHANGED motionVars
      BY <2>2 DEF Extract
    <3> QED BY <2>1, <3>1, ExtractorKeepsTypes, ExtractCountsAlike, PlannerRests DEF EstimatorInv
  <2>3. CASE BeginPlanning
    <3>1. UNCHANGED extractorVars
      BY <2>3 DEF BeginPlanning
    <3> QED BY <2>1, <2>3, <3>1, PlanningBegins, ExtractorRests DEF EstimatorInv
  <2>4. CASE Plan
    <3>1. MotionNext /\ UNCHANGED extractorVars
      BY <2>4 DEF Plan
    <3>2. MotionInv'
      BY <2>1, <3>1, LimitJunctionKeeps, BackwardKeeps, ForwardKeeps DEF MotionNext
    <3>3. FastInv'
      BY <2>1, <3>1, FastLimitJunction, FastBackward, FastForward DEF MotionNext
    <3> QED BY <2>1, <3>1, <3>2, <3>3, ExtractorRests DEF EstimatorInv
  <2>5. CASE UNCHANGED estimatorVars
    <3>1. UNCHANGED motionVars /\ UNCHANGED extractorVars
      BY <2>5 DEF estimatorVars, motionVars, extractorVars
    <3> QED BY <2>1, <3>1, ExtractorRests, PlannerRests DEF EstimatorInv
  <2> QED BY <2>2, <2>3, <2>4, <2>5 DEF EstimatorNext
<1> QED BY <1>1, EstimatorStarts, PTL DEF EstimatorSpec

\* planMoves keeps its state typed, whatever extractMoves made of the body.
THEOREM MotionTypeCorrect == EstimatorSpec => []MotionTypeOK
<1>1. EstimatorInv => MotionTypeOK
    BY DEF EstimatorInv, MotionInv, MotionPlain, MotionTypeOK, Index
<1> QED BY <1>1, EstimatorInvariant, PTL

\* The tool starts and ends at rest and never jumps at a corner.
THEOREM MotionContinuous == EstimatorSpec => []VelocityIsContinuous
<1>1. EstimatorInv => VelocityIsContinuous
  <2> SUFFICES ASSUME EstimatorInv, pass = "planned", N > 0
               PROVE  /\ entry[1] = 0 /\ exit[N] = 0
                      /\ \A i \in 1 .. (N - 1) : exit[i] = entry[i + 1]
      BY DEF VelocityIsContinuous
  <2>1. N \in Nat /\ 1 \in Index /\ N \in Index
      BY DEF EstimatorInv, MotionInv, MotionPlain, Index, N
  <2>2. entry[1] = 0
    <3>1. entry[1] <= junction[1] /\ junction[1] = 0 /\ entry[1] \in Nat
        BY <2>1 DEF EstimatorInv, MotionInv, MotionPlain, EntriesLimited, EntryHolds, CornersLimited,
                    CornerHolds
    <3> QED BY <3>1
  <2>3. exit[N] = 0
    <3>1. exit[N] <= NextEntry(N) /\ NextEntry(N) = 0 /\ exit[N] \in Nat
        BY <2>1 DEF EstimatorInv, MotionInv, MotionPlain, ExitsLimited, ExitHolds, Done, NextEntry
    <3> QED BY <3>1
  <2>4. ASSUME NEW i \in 1 .. (N - 1) PROVE exit[i] = entry[i + 1]
    <3>1. i \in Nat /\ i + 1 \in Index /\ i + 1 > 1 /\ (i + 1) - 1 = i
        BY <2>1 DEF Index
    <3>2. exit[(i + 1) - 1] = entry[i + 1]
        BY <3>1 DEF EstimatorInv, MotionInv, Joined, Done
    <3> QED BY <3>1, <3>2
  <2> QED BY <2>2, <2>3, <2>4
<1> QED BY <1>1, EstimatorInvariant, PTL

\* No move is entered or left faster than its limits and its corner allow.
THEOREM MotionWithinLimits == EstimatorSpec => []WithinLimits
<1>1. EstimatorInv => WithinLimits
  <2> SUFFICES ASSUME EstimatorInv, NEW i \in Timed
               PROVE  /\ entry[i] <= moves[i].cap /\ exit[i] <= moves[i].cap
                      /\ i > 1 => entry[i] <= moves[i].corner
                                  /\ entry[i] <= moves[i - 1].cap
      BY DEF WithinLimits
  <2>1. i \in Index /\ Done(i)
      BY DEF Timed, Index, EstimatorInv, MotionInv, ExitsLimited
  <2>2. exit[i] <= moves[i].cap /\ EntryHolds(i) /\ CornerHolds(i)
      BY <2>1 DEF EstimatorInv, MotionInv, ExitsLimited, ExitHolds, EntriesLimited, CornersLimited, Done
  <2>3. entry[i] \in Nat /\ junction[i] \in Nat /\ moves[i].cap \in Nat
        /\ moves[i].corner \in Nat
      BY <2>1, MoveFacts DEF EstimatorInv, MotionInv, MotionPlain
  <2>4. i > 1 => moves[i - 1].cap \in Nat
      BY <2>1, MoveFacts DEF EstimatorInv, MotionInv
  <2> QED BY <2>2, <2>3, <2>4 DEF EntryHolds, CornerHolds
<1> QED BY <1>1, EstimatorInvariant, PTL

\* Every timed move is long enough for its change of velocity.
THEOREM MotionReachable == EstimatorSpec => []ChangeIsReachable
<1>1. EstimatorInv => ChangeIsReachable
    BY DEF EstimatorInv, MotionInv, ExitsLimited, ExitHolds, ChangeIsReachable, Timed, Index
<1> QED BY <1>1, EstimatorInvariant, PTL

\* The plan is the fastest: each move is entered as fast as the tightest corner
\* before or behind it allows.
THEOREM PlanIsTheFastest == EstimatorSpec => []PlanIsFastest
<1>1. EstimatorInv => PlanIsFastest
  <2> SUFFICES ASSUME EstimatorInv, pass = "planned", NEW i \in 1 .. N
               PROVE  entry[i] = Min({CornerLimit(j) + GainBetween(j, i) : j \in 1 .. i}
                           \cup {CornerLimit(j) + GainBetween(i, j) : j \in i .. (N + 1)})
    BY DEF PlanIsFastest
  <2> DEFINE A == {CornerLimit(j) + GainBetween(j, i) : j \in 1 .. i}
             B == {CornerLimit(j) + GainBetween(i, j) : j \in i .. (N + 1)}
             v == entry[i]
  <2>1. MotionPlain /\ i \in Index /\ N \in Nat /\ i \in Corners /\ i \in Nat
    BY DEF EstimatorInv, MotionInv, MotionPlain, Index, Corners, N
  <2>2. Fastest(v, i)
    BY <2>1 DEF EstimatorInv, FastInv, EntersFastest, Done
  <2>3. \A j \in Corners : CornerLimit(j) \in Nat /\ At(j) \in Int
    BY <2>1, CornerFacts
  <2>4. ASSUME NEW j \in 1 .. i
        PROVE  j \in Corners /\ j <= i /\ GainBetween(j, i) = At(i) - At(j)
    <3>1. j \in Corners /\ j <= i
      BY <2>1 DEF Corners
    <3> QED BY <2>1, <3>1, GainIsDifference
  <2>5. ASSUME NEW j \in i .. (N + 1)
        PROVE  j \in Corners /\ j >= i /\ GainBetween(i, j) = At(j) - At(i)
    <3>1. j \in Corners /\ i <= j /\ j >= i
      BY <2>1 DEF Corners
    <3> QED BY <2>1, <3>1, GainIsDifference
  <2>6. ASSUME NEW y \in A PROVE y \in Int /\ v <= y
    <3>1. PICK j \in 1 .. i : y = CornerLimit(j) + GainBetween(j, i)
      OBVIOUS
    <3>2. y = CornerLimit(j) + (At(i) - At(j)) /\ j \in Corners /\ j <= i
      BY <2>4, <3>1
    <3>3. CornerLimit(j) \in Nat /\ At(j) \in Int /\ At(i) \in Int
      BY <2>1, <2>3, <3>2
    <3>4. v <= CornerLimit(j) + (At(i) - At(j))
      BY <2>2, <3>2 DEF Fastest, Behind
    <3> QED BY <3>2, <3>3, <3>4
  <2>7. ASSUME NEW y \in B PROVE y \in Int /\ v <= y
    <3>1. PICK j \in i .. (N + 1) : y = CornerLimit(j) + GainBetween(i, j)
      OBVIOUS
    <3>2. y = CornerLimit(j) + (At(j) - At(i)) /\ j \in Corners /\ j >= i
      BY <2>5, <3>1
    <3>3. CornerLimit(j) \in Nat /\ At(j) \in Int /\ At(i) \in Int
      BY <2>1, <2>3, <3>2
    <3>4. v <= CornerLimit(j) + (At(j) - At(i))
      BY <2>2, <3>2 DEF Fastest, Ahead
    <3> QED BY <3>2, <3>3, <3>4
  <2>8. v \in A \cup B
    <3>1. CASE MeetsAhead(v, i)
      <4>1. PICK j \in Corners : j >= i /\ v = CornerLimit(j) + (At(j) - At(i))
        BY <3>1 DEF MeetsAhead
      <4>2. j \in i .. (N + 1)
        BY <2>1, <4>1 DEF Corners
      <4>3. v = CornerLimit(j) + GainBetween(i, j)
        BY <2>5, <4>1, <4>2
      <4> QED BY <4>2, <4>3
    <3>2. CASE MeetsBehind(v, i)
      <4>1. PICK j \in Corners : j <= i /\ v = CornerLimit(j) + (At(i) - At(j))
        BY <3>2 DEF MeetsBehind
      <4>2. j \in 1 .. i
        BY <2>1, <4>1 DEF Corners
      <4>3. v = CornerLimit(j) + GainBetween(j, i)
        BY <2>4, <4>1, <4>2
      <4> QED BY <4>2, <4>3
    <3> QED BY <2>2, <3>1, <3>2 DEF Fastest
  <2> DEFINE S == A \cup B
  <2>9. S \in SUBSET Int /\ v \in S /\ \A y \in S : v <= y
    BY <2>6, <2>7, <2>8
  <2> HIDE DEF A, B, v
  <2>10. Min(S) = v
    <3> HIDE DEF S
    <3> QED BY <2>9, MinIs
  <2> QED BY <2>10 DEF A, B, v
<1> QED BY <1>1, EstimatorInvariant, PTL

\* The estimator lays down what the rewriter counts, line for line, for every
\* body that retracts in pairs and extrudes on no arc.
THEOREM CountersStayTogether == EstimatorSpec => []CountersAgree
<1>1. EstimatorInv => CountersAgree
  BY DEF EstimatorInv, CountInv, CountersAgree
<1> QED BY <1>1, EstimatorInvariant, PTL

-----------------------------------------------------------------------------
(***************************************************************************)
(* What a run of the external estimator returns.                            *)
(***************************************************************************)

RunnerTypeOK ==
    /\ pc \in [Runs -> {"called", "piping", "launching", "closing", "draining",
                     "waiting", "returned"}]
    /\ writeEnds \subseteq Pipes
    /\ inherited \in [Runs -> SUBSET Pipes]
    /\ child \in [Runs -> {"none", "running", "exited"}]
    /\ wrote \in [Pipes -> Nat]
    /\ pipe \in [Pipes -> Nat]
    /\ captured \in [Pipes -> Nat]
    /\ reading \in [Runs -> SUBSET Streams]
    /\ result \in [Runs -> {"none", "launchFailed", "exitCode", "timedOut"}]

\* This process holds a write end from the pipe's creation to the closing.
EndsAreOwned ==
    \A r \in Runs, s \in Streams :
        <<r, s>> \in writeEnds => pc[r] \in {"piping", "launching", "closing"}

\* The run has seen the end of a stream of its child.
SeenEnd(r, s) ==
    \/ pc[r] = "draining" /\ s \notin reading[r]
    \/ pc[r] = "waiting"
    \/ result[r] = "exitCode"

\* And the end is one: nothing is left in the pipe, and nobody will write to it,
\* neither the child nor another run's that has inherited the handle.
EndIsFinal ==
    \A r \in Runs, s \in Streams :
        SeenEnd(r, s) => pipe[<<r, s>>] = 0 /\ ~Writable(<<r, s>>)

ExitCodeOfExited ==
    \A r \in Runs : result[r] = "exitCode" => pc[r] = "returned" /\ child[r] = "exited"

\* What the child has written is in the pipe or has been captured.
NothingIsLost == \A p \in Pipes : captured[p] + pipe[p] = wrote[p]

RunnerInv ==
    RunnerTypeOK /\ EndsAreOwned /\ EndIsFinal /\ ExitCodeOfExited /\ NothingIsLost

-----------------------------------------------------------------------------

LEMMA InitOK == RunnerInit => RunnerInv
<1> SUFFICES ASSUME RunnerInit PROVE RunnerInv
  OBVIOUS
<1>1. RunnerTypeOK
  BY DEF RunnerInit, RunnerTypeOK, Pipes
<1>2. EndsAreOwned /\ EndIsFinal /\ ExitCodeOfExited /\ NothingIsLost
  BY DEF RunnerInit, EndsAreOwned, EndIsFinal, ExitCodeOfExited, SeenEnd, NothingIsLost
<1> QED BY <1>1, <1>2 DEF RunnerInv

LEMMA CreatePipeKeeps ==
    ASSUME RunnerInv, NEW r \in Runs, CreatePipe(r)
    PROVE  RunnerInv'
<1>1. /\ pc[r] \in {"called", "piping"}
      /\ UNCHANGED <<inherited, child, left, wrote, pipe, captured, reading>>
  BY DEF CreatePipe
<1>2. \/ /\ \E place \in {"piping", "launching"} : pc' = [pc EXCEPT ![r] = place]
         /\ \E s \in Streams : writeEnds' = writeEnds \cup {<<r, s>>}
         /\ result' = result
      \/ /\ pc' = [pc EXCEPT ![r] = "returned"]
         /\ result' = [result EXCEPT ![r] = "launchFailed"]
         /\ writeEnds' = writeEnds \ ({r} \X Streams)
  BY DEF CreatePipe, Return, Released, Streams
<1>21. UNCHANGED <<captured, wrote>>
  BY DEF CreatePipe
<1>3. RunnerTypeOK'
  BY <1>21, <1>1, <1>2 DEF RunnerInv, RunnerTypeOK, Pipes, Streams
<1>4. EndsAreOwned'
  BY <1>1, <1>2 DEF RunnerInv, RunnerTypeOK, EndsAreOwned
<1>5. ExitCodeOfExited'
  BY <1>1, <1>2 DEF RunnerInv, RunnerTypeOK, ExitCodeOfExited
<1>6. ASSUME NEW q \in Runs, NEW s \in Streams, SeenEnd(q, s)'
      PROVE  SeenEnd(q, s) /\ q # r
  BY <1>1, <1>2, <1>6 DEF RunnerInv, RunnerTypeOK, SeenEnd, ExitCodeOfExited
<1>7. EndIsFinal'
  <2> SUFFICES ASSUME NEW q \in Runs, NEW s \in Streams, SeenEnd(q, s)'
               PROVE  pipe'[<<q, s>>] = 0 /\ ~Writable(<<q, s>>)'
    BY DEF EndIsFinal
  <2>1. SeenEnd(q, s) /\ q # r
    BY <1>6
  <2>2. pipe[<<q, s>>] = 0 /\ ~Writable(<<q, s>>)
    BY <2>1 DEF RunnerInv, EndIsFinal
  <2>3. <<q, s>> \in writeEnds' => <<q, s>> \in writeEnds
    BY <1>2, <2>1
  <2> QED BY <1>1, <2>2, <2>3 DEF Writable
<1>20. NothingIsLost'
  <2>1. UNCHANGED <<captured, pipe, wrote>>
    BY DEF CreatePipe
  <2> QED BY <2>1 DEF RunnerInv, NothingIsLost
<1> QED BY <1>3, <1>4, <1>5, <1>7, <1>20 DEF RunnerInv

\* The child inherits what is held now, and nothing is held whose end was seen.
LEMMA LaunchKeeps ==
    ASSUME RunnerInv, NEW r \in Runs, Launch(r)
    PROVE  RunnerInv'
<1>1. /\ pc[r] = "launching" /\ pc' = [pc EXCEPT ![r] = "closing"]
      /\ child' = [child EXCEPT ![r] = "running"]
      /\ inherited' = [inherited EXCEPT ![r] = writeEnds]
      /\ UNCHANGED <<writeEnds, pipe, reading, result>>
  BY DEF Launch
<1>21. UNCHANGED <<captured, wrote>>
  BY DEF Launch
<1>2. RunnerTypeOK'
  BY <1>21, <1>1 DEF RunnerInv, RunnerTypeOK
<1>3. EndsAreOwned'
  BY <1>1 DEF RunnerInv, RunnerTypeOK, EndsAreOwned
<1>4. ExitCodeOfExited'
  BY <1>1 DEF RunnerInv, RunnerTypeOK, ExitCodeOfExited
<1>5. ASSUME NEW q \in Runs, NEW s \in Streams, SeenEnd(q, s)'
      PROVE  pipe'[<<q, s>>] = 0 /\ ~(Writable(<<q, s>>)')
  <2>1. SeenEnd(q, s)
    BY <1>1, <1>5 DEF RunnerInv, RunnerTypeOK, SeenEnd
  <2>2. pipe[<<q, s>>] = 0 /\ ~Writable(<<q, s>>)
    BY <2>1 DEF RunnerInv, EndIsFinal
  <2>3. \A c \in Runs : inherited'[c] = IF c = r THEN writeEnds ELSE inherited[c]
    BY <1>1 DEF RunnerInv, RunnerTypeOK
  <2> QED BY <1>1, <2>2, <2>3 DEF Writable
<1>6. EndIsFinal'
  BY <1>5 DEF EndIsFinal
<1>20. NothingIsLost'
  <2>1. UNCHANGED <<captured, pipe, wrote>>
    BY DEF Launch
  <2> QED BY <2>1 DEF RunnerInv, NothingIsLost
<1> QED BY <1>2, <1>3, <1>4, <1>6, <1>20 DEF RunnerInv

LEMMA LaunchFailsKeeps ==
    ASSUME RunnerInv, NEW r \in Runs, LaunchFails(r)
    PROVE  RunnerInv'
<1>1. /\ pc[r] = "launching" /\ pc' = [pc EXCEPT ![r] = "returned"]
      /\ result' = [result EXCEPT ![r] = "launchFailed"]
      /\ writeEnds' = writeEnds \ ({r} \X Streams)
      /\ UNCHANGED <<inherited, child, pipe, reading>>
  BY DEF LaunchFails, Return, Released
<1>21. UNCHANGED <<captured, wrote>>
  BY DEF LaunchFails
<1>2. RunnerTypeOK'
  BY <1>21, <1>1 DEF RunnerInv, RunnerTypeOK
<1>3. EndsAreOwned'
  BY <1>1 DEF RunnerInv, RunnerTypeOK, EndsAreOwned
<1>4. ExitCodeOfExited'
  BY <1>1 DEF RunnerInv, RunnerTypeOK, ExitCodeOfExited
<1>5. ASSUME NEW q \in Runs, NEW s \in Streams, SeenEnd(q, s)' PROVE SeenEnd(q, s)
  BY <1>1, <1>5 DEF RunnerInv, RunnerTypeOK, SeenEnd
<1>6. EndIsFinal'
  BY <1>1, <1>5 DEF RunnerInv, EndIsFinal, Writable
<1>20. NothingIsLost'
  <2>1. UNCHANGED <<captured, pipe, wrote>>
    BY DEF LaunchFails
  <2> QED BY <2>1 DEF RunnerInv, NothingIsLost
<1> QED BY <1>2, <1>3, <1>4, <1>6, <1>20 DEF RunnerInv

\* Draining begins with both streams, behind the closing of both write ends.
LEMMA CloseKeeps ==
    ASSUME RunnerInv, NEW r \in Runs, CloseWriteEnd(r)
    PROVE  RunnerInv'
<1>1. pc[r] = "closing" /\ UNCHANGED <<inherited, child, pipe, result>>
  BY DEF CloseWriteEnd
<1>2. \/ /\ <<r, "out">> \in writeEnds
         /\ writeEnds' = writeEnds \ {<<r, "out">>}
         /\ UNCHANGED <<pc, reading>>
      \/ /\ <<r, "out">> \notin writeEnds
         /\ writeEnds' = writeEnds \ {<<r, "err">>}
         /\ pc' = [pc EXCEPT ![r] = "draining"]
         /\ reading' = [reading EXCEPT ![r] = Streams]
  BY DEF CloseWriteEnd, Kept
<1>21. UNCHANGED <<captured, wrote>>
  BY DEF CloseWriteEnd
<1>3. RunnerTypeOK'
  BY <1>21, <1>1, <1>2 DEF RunnerInv, RunnerTypeOK
<1>4. EndsAreOwned'
  BY <1>1, <1>2 DEF RunnerInv, RunnerTypeOK, EndsAreOwned, Streams
<1>5. ExitCodeOfExited'
  BY <1>1, <1>2 DEF RunnerInv, RunnerTypeOK, ExitCodeOfExited
<1>6. ASSUME NEW q \in Runs, NEW s \in Streams, SeenEnd(q, s)' PROVE SeenEnd(q, s)
  BY <1>1, <1>2, <1>6 DEF RunnerInv, RunnerTypeOK, SeenEnd
<1>7. writeEnds' \subseteq writeEnds
  BY <1>2
<1>8. EndIsFinal'
  BY <1>1, <1>6, <1>7 DEF RunnerInv, EndIsFinal, Writable
<1>20. NothingIsLost'
  <2>1. UNCHANGED <<captured, pipe, wrote>>
    BY DEF CloseWriteEnd
  <2> QED BY <2>1 DEF RunnerInv, NothingIsLost
<1> QED BY <1>3, <1>4, <1>5, <1>8, <1>20 DEF RunnerInv

LEMMA ReadSomeKeeps ==
    ASSUME RunnerInv, NEW r \in Runs, NEW t \in Streams, ReadSome(r, t)
    PROVE  RunnerInv'
<1>1. /\ pipe' = [pipe EXCEPT ![<<r, t>>] = 0]
      /\ captured' = [captured EXCEPT ![<<r, t>>] = @ + pipe[<<r, t>>]]
      /\ wrote' = wrote
      /\ UNCHANGED <<pc, writeEnds, inherited, child, reading, result>>
  BY DEF ReadSome
<1>2. RunnerTypeOK'
  <2>1. /\ <<r, t>> \in Pipes
        /\ pipe \in [Pipes -> Nat] /\ captured \in [Pipes -> Nat] /\ wrote \in [Pipes -> Nat]
    BY DEF Pipes, RunnerInv, RunnerTypeOK
  <2>2. captured[<<r, t>>] + pipe[<<r, t>>] \in Nat
    BY <2>1
  <2>3. pipe' \in [Pipes -> Nat] /\ captured' \in [Pipes -> Nat] /\ wrote' \in [Pipes -> Nat]
    BY <1>1, <2>1, <2>2
  <2> QED BY <1>1, <2>3 DEF RunnerInv, RunnerTypeOK
<1>3. EndsAreOwned' /\ ExitCodeOfExited'
  BY <1>1 DEF RunnerInv, EndsAreOwned, ExitCodeOfExited
<1>4. ASSUME NEW q \in Runs, NEW s \in Streams, SeenEnd(q, s)'
      PROVE  pipe'[<<q, s>>] = 0 /\ ~(Writable(<<q, s>>)')
  <2>1. SeenEnd(q, s)
    BY <1>1, <1>4 DEF SeenEnd
  <2>2. pipe[<<q, s>>] = 0 /\ ~Writable(<<q, s>>)
    BY <2>1 DEF RunnerInv, EndIsFinal
  <2>3. <<q, s>> \in Pipes /\ pipe \in [Pipes -> Nat]
    BY DEF Pipes, RunnerInv, RunnerTypeOK
  <2> QED BY <1>1, <2>2, <2>3 DEF Writable
<1>5. EndIsFinal'
  BY <1>4 DEF EndIsFinal
<1>20. NothingIsLost'
  <2> SUFFICES ASSUME NEW p \in Pipes PROVE captured'[p] + pipe'[p] = wrote'[p]
    BY DEF NothingIsLost
  <2>1. captured[p] \in Nat /\ pipe[p] \in Nat /\ captured[p] + pipe[p] = wrote[p]
    BY DEF RunnerInv, RunnerTypeOK, NothingIsLost
  <2>2. /\ pipe'[p] = IF p = <<r, t>> THEN 0 ELSE pipe[p]
        /\ captured'[p] = IF p = <<r, t>> THEN captured[p] + pipe[p] ELSE captured[p]
    BY <1>1 DEF RunnerInv, RunnerTypeOK
  <2> QED BY <1>1, <2>1, <2>2
<1> QED BY <1>2, <1>3, <1>5, <1>20 DEF RunnerInv

\* The guard of the end is what makes it final.
LEMMA ReadEndKeeps ==
    ASSUME RunnerInv, NEW r \in Runs, NEW t \in Streams, ReadEnd(r, t)
    PROVE  RunnerInv'
<1>1. /\ pc[r] = "draining" /\ pipe[<<r, t>>] = 0 /\ ~Writable(<<r, t>>)
      /\ reading' = [reading EXCEPT ![r] = @ \ {t}]
      /\ UNCHANGED <<pc, writeEnds, inherited, child, pipe, result>>
  BY DEF ReadEnd
<1>21. UNCHANGED <<captured, wrote>>
  BY DEF ReadEnd
<1>2. RunnerTypeOK'
  BY <1>21, <1>1 DEF RunnerInv, RunnerTypeOK
<1>3. EndsAreOwned' /\ ExitCodeOfExited'
  BY <1>1 DEF RunnerInv, EndsAreOwned, ExitCodeOfExited
<1>4. ASSUME NEW q \in Runs, NEW s \in Streams, SeenEnd(q, s)'
      PROVE  SeenEnd(q, s) \/ (q = r /\ s = t)
  <2>1. reading'[q] = IF q = r THEN reading[q] \ {t} ELSE reading[q]
    BY <1>1 DEF RunnerInv, RunnerTypeOK
  <2>2. s \notin reading'[q] => s \notin reading[q] \/ (q = r /\ s = t)
    BY <2>1
  <2> QED BY <1>1, <1>4, <2>2 DEF SeenEnd
<1>5. EndIsFinal'
  BY <1>1, <1>4 DEF RunnerInv, EndIsFinal, Writable
<1>20. NothingIsLost'
  <2>1. UNCHANGED <<captured, pipe, wrote>>
    BY DEF ReadEnd
  <2> QED BY <2>1 DEF RunnerInv, NothingIsLost
<1> QED BY <1>2, <1>3, <1>5, <1>20 DEF RunnerInv

LEMMA JoinKeeps ==
    ASSUME RunnerInv, NEW r \in Runs, JoinDrains(r)
    PROVE  RunnerInv'
<1>1. /\ pc[r] = "draining" /\ reading[r] = {}
      /\ pc' = [pc EXCEPT ![r] = "waiting"]
      /\ UNCHANGED <<writeEnds, inherited, child, pipe, reading, result>>
  BY DEF JoinDrains, Drained
<1>21. UNCHANGED <<captured, wrote>>
  BY DEF JoinDrains
<1>2. RunnerTypeOK'
  BY <1>21, <1>1 DEF RunnerInv, RunnerTypeOK
<1>3. EndsAreOwned' /\ ExitCodeOfExited'
  BY <1>1 DEF RunnerInv, RunnerTypeOK, EndsAreOwned, ExitCodeOfExited
<1>4. ASSUME NEW q \in Runs, NEW s \in Streams, SeenEnd(q, s)' PROVE SeenEnd(q, s)
  BY <1>1, <1>4 DEF RunnerInv, RunnerTypeOK, SeenEnd
<1>5. EndIsFinal'
  BY <1>1, <1>4 DEF RunnerInv, EndIsFinal, Writable
<1>20. NothingIsLost'
  <2>1. UNCHANGED <<captured, pipe, wrote>>
    BY DEF JoinDrains
  <2> QED BY <2>1 DEF RunnerInv, NothingIsLost
<1> QED BY <1>2, <1>3, <1>5, <1>20 DEF RunnerInv

LEMMA WaitKeeps ==
    ASSUME RunnerInv, NEW r \in Runs, WaitEnds(r) \/ WaitTimesOut(r)
    PROVE  RunnerInv'
<1>1. /\ pc[r] = "waiting" /\ pc' = [pc EXCEPT ![r] = "returned"]
      /\ UNCHANGED <<writeEnds, pipe, reading>>
  BY DEF WaitEnds, WaitTimesOut, Return
<1>2. \/ /\ child[r] = "exited" /\ result' = [result EXCEPT ![r] = "exitCode"]
         /\ UNCHANGED <<child, inherited>>
      \/ /\ result' = [result EXCEPT ![r] = "timedOut"]
         /\ child' = [child EXCEPT ![r] = "exited"]
         /\ inherited' = [inherited EXCEPT ![r] = {}]
  BY DEF WaitEnds, WaitTimesOut, Return, Signalled
<1>21. UNCHANGED <<captured, wrote>>
  BY DEF WaitEnds, WaitTimesOut
<1>3. RunnerTypeOK'
  BY <1>21, <1>1, <1>2 DEF RunnerInv, RunnerTypeOK
<1>4. EndsAreOwned'
  BY <1>1 DEF RunnerInv, RunnerTypeOK, EndsAreOwned
<1>5. ExitCodeOfExited'
  BY <1>1, <1>2 DEF RunnerInv, RunnerTypeOK, ExitCodeOfExited
<1>6. ASSUME NEW q \in Runs, NEW s \in Streams, SeenEnd(q, s)' PROVE SeenEnd(q, s)
  BY <1>1, <1>2, <1>6 DEF RunnerInv, RunnerTypeOK, SeenEnd
<1>7. \A c \in Runs : inherited'[c] \subseteq inherited[c]
  BY <1>2 DEF RunnerInv, RunnerTypeOK
<1>8. EndIsFinal'
  BY <1>1, <1>6, <1>7 DEF RunnerInv, EndIsFinal, Writable
<1>20. NothingIsLost'
  <2>1. UNCHANGED <<captured, pipe, wrote>>
    BY DEF WaitEnds, WaitTimesOut
  <2> QED BY <2>1 DEF RunnerInv, NothingIsLost
<1> QED BY <1>3, <1>4, <1>5, <1>8, <1>20 DEF RunnerInv

\* A child that still writes has a write end, so its stream has not ended.
LEMMA ChildWritesKeeps ==
    ASSUME RunnerInv, NEW r \in Runs, NEW t \in Streams, ChildWrites(r, t)
    PROVE  RunnerInv'
<1>1. /\ <<r, t>> \in inherited[r]
      /\ pipe' = [pipe EXCEPT ![<<r, t>>] = @ + 1]
      /\ wrote' = [wrote EXCEPT ![<<r, t>>] = @ + 1]
      /\ captured' = captured
      /\ UNCHANGED <<pc, writeEnds, reading, result, inherited, child>>
  BY DEF ChildWrites, parentVars
<1>2. RunnerTypeOK'
  BY <1>1 DEF RunnerInv, RunnerTypeOK
<1>3. EndsAreOwned' /\ ExitCodeOfExited'
  BY <1>1 DEF RunnerInv, EndsAreOwned, ExitCodeOfExited
<1>4. ASSUME NEW q \in Runs, NEW s \in Streams, SeenEnd(q, s)'
      PROVE  pipe'[<<q, s>>] = 0 /\ ~(Writable(<<q, s>>)')
  <2>1. SeenEnd(q, s)
    BY <1>1, <1>4 DEF SeenEnd
  <2>2. pipe[<<q, s>>] = 0 /\ ~Writable(<<q, s>>)
    BY <2>1 DEF RunnerInv, EndIsFinal
  <2>3. <<q, s>> # <<r, t>>
    BY <1>1, <2>2 DEF Writable
  <2>4. <<q, s>> \in Pipes /\ pipe \in [Pipes -> Nat]
    BY DEF Pipes, RunnerInv, RunnerTypeOK
  <2> QED BY <1>1, <2>2, <2>3, <2>4 DEF Writable
<1>5. EndIsFinal'
  BY <1>4 DEF EndIsFinal
<1>20. NothingIsLost'
  <2> SUFFICES ASSUME NEW p \in Pipes PROVE captured'[p] + pipe'[p] = wrote'[p]
    BY DEF NothingIsLost
  <2>1. captured[p] \in Nat /\ pipe[p] \in Nat /\ captured[p] + pipe[p] = wrote[p]
    BY DEF RunnerInv, RunnerTypeOK, NothingIsLost
  <2>2. /\ pipe'[p] = IF p = <<r, t>> THEN pipe[p] + 1 ELSE pipe[p]
        /\ wrote'[p] = IF p = <<r, t>> THEN wrote[p] + 1 ELSE wrote[p]
    BY <1>1 DEF RunnerInv, RunnerTypeOK
  <2> QED BY <1>1, <2>1, <2>2
<1> QED BY <1>2, <1>3, <1>5, <1>20 DEF RunnerInv

LEMMA ChildLetsGo ==
    ASSUME RunnerInv, NEW r \in Runs, ChildCloses(r) \/ Ends(r)
    PROVE  RunnerInv'
<1>1. UNCHANGED <<pc, writeEnds, reading, result, pipe>>
  BY DEF ChildCloses, Ends, parentVars
<1>2. \/ child' = child /\ inherited' = [inherited EXCEPT ![r] = @ \ ({r} \X Streams)]
      \/ /\ child' = [child EXCEPT ![r] = "exited"]
         /\ inherited' = [inherited EXCEPT ![r] = {}]
  BY DEF ChildCloses, Ends
<1>21. UNCHANGED <<captured, wrote>>
  BY DEF ChildCloses, Ends, parentVars
<1>3. RunnerTypeOK'
  BY <1>21, <1>1, <1>2 DEF RunnerInv, RunnerTypeOK
<1>4. EndsAreOwned' /\ ExitCodeOfExited'
  BY <1>1, <1>2 DEF RunnerInv, RunnerTypeOK, EndsAreOwned, ExitCodeOfExited
<1>5. \A c \in Runs : inherited'[c] \subseteq inherited[c]
  BY <1>2 DEF RunnerInv, RunnerTypeOK
<1>6. EndIsFinal'
  BY <1>1, <1>5 DEF RunnerInv, EndIsFinal, Writable, SeenEnd
<1>20. NothingIsLost'
  <2>1. UNCHANGED <<captured, pipe, wrote>>
    BY DEF ChildCloses, Ends, parentVars
  <2> QED BY <2>1 DEF RunnerInv, NothingIsLost
<1> QED BY <1>3, <1>4, <1>6, <1>20 DEF RunnerInv

LEMMA RunnerStep == RunnerInv /\ [RunnerNext]_runnerVars => RunnerInv'
<1> SUFFICES ASSUME RunnerInv, [RunnerNext]_runnerVars PROVE RunnerInv'
  OBVIOUS
<1>1. CASE UNCHANGED runnerVars
  BY <1>1 DEF runnerVars, parentVars, RunnerInv, RunnerTypeOK, EndsAreOwned, EndIsFinal,
     ExitCodeOfExited, NothingIsLost, SeenEnd, Writable
<1>2. ASSUME NEW r \in Runs, Caller(r) PROVE RunnerInv'
  <2>1. "out" \in Streams
    BY DEF Streams
  <2> QED BY <1>2, <2>1, CreatePipeKeeps, LaunchKeeps, LaunchFailsKeeps, CloseKeeps,
             ReadSomeKeeps, ReadEndKeeps, JoinKeeps, WaitKeeps DEF Caller
<1>3. ASSUME NEW r \in Runs, ErrThread(r) PROVE RunnerInv'
  <2>1. "err" \in Streams
    BY DEF Streams
  <2> QED BY <1>3, <2>1, ReadSomeKeeps, ReadEndKeeps DEF ErrThread
<1>4. ASSUME NEW r \in Runs, Child(r) \/ ChildCloses(r) \/ ChildCrashes(r) PROVE RunnerInv'
  BY <1>4, ChildWritesKeeps, ChildLetsGo DEF Child, ChildExits, ChildCrashes
<1> QED BY <1>1, <1>2, <1>3, <1>4 DEF RunnerNext

\* Of what a child writes to either stream nothing is lost between it, the pipe and
\* the string it is read into; and a stream whose end a run has seen has ended: its
\* pipe is empty, and nobody holds a write end of it, no other run's child either.
THEOREM StreamsEnd == RunnerSpec => [](NothingIsLost /\ EndIsFinal)
<1>1. RunnerSpec => []RunnerInv
  BY InitOK, RunnerStep, PTL DEF RunnerSpec
<1>2. RunnerInv => NothingIsLost /\ EndIsFinal
  BY DEF RunnerInv
<1> QED BY <1>1, <1>2, PTL

\* A run that returns its child's exit code returns all that the child has written,
\* whatever the other runs do and whichever handles their children hold.
THEOREM OutputIsWhole == RunnerSpec => []ReturnsWholeOutput
<1>1. RunnerInv => ReturnsWholeOutput
  <2> SUFFICES ASSUME RunnerInv, NEW r \in Runs, result[r] = "exitCode"
               PROVE  /\ child[r] = "exited"
                      /\ \A s \in Streams : captured[<<r, s>>] = wrote[<<r, s>>]
    BY DEF ReturnsWholeOutput
  <2>1. child[r] = "exited"
    BY DEF RunnerInv, ExitCodeOfExited
  <2>2. ASSUME NEW s \in Streams PROVE captured[<<r, s>>] = wrote[<<r, s>>]
    <3>1. pipe[<<r, s>>] = 0
      BY DEF RunnerInv, EndIsFinal, SeenEnd
    <3>2. <<r, s>> \in Pipes
      BY DEF Pipes
    <3>3. captured[<<r, s>>] + pipe[<<r, s>>] = wrote[<<r, s>>]
      BY <3>2 DEF RunnerInv, NothingIsLost
    <3>4. captured[<<r, s>>] \in Nat
      BY <3>2 DEF RunnerInv, RunnerTypeOK
    <3> QED BY <3>1, <3>3, <3>4
  <2> QED BY <2>1, <2>2
<1>2. RunnerSpec => []RunnerInv
  BY InitOK, RunnerStep, PTL DEF RunnerSpec
<1> QED BY <1>1, <1>2, PTL
=============================================================================
