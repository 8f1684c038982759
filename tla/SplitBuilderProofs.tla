------------------------- MODULE SplitBuilderProofs -------------------------
(***************************************************************************)
(* Proofs about SplitBuilder: whatever the files, their weights and the    *)
(* number of runners, a split holds every file exactly once, is balanced   *)
(* up to one file per runner, leaves no runner idle needlessly and is near *)
(* the best of all splits.  Then about PlanSizing: the runner count that   *)
(* is selected is the documented one, and the split is made for it.        *)
(***************************************************************************)
EXTENDS PlanSizing, DistributionProofs

(* WeightsForFiles never returns a weight below one millisecond, whatever  *)
(* integers the plan cache holds.                                          *)
LEMMA WeightsArePositive ==
  ASSUME NEW S, NEW cached \in SUBSET S, NEW cache \in [cached -> CachedWeights]
  PROVE  WeightsForFiles(cache, S) \in [S -> Nat \ {0}]
<1>1. ASSUME NEW f \in S
      PROVE  WeightsForFiles(cache, S)[f] \in Nat \ {0}
  <2>1. CASE f \in cached /\ cache[f] > 0
    <3>1. cache[f] \in Int
      BY <2>1, CachedWeightsAssumption
    <3> QED
      BY <2>1, <3>1 DEF WeightsForFiles
  <2>2. CASE ~ (f \in cached /\ cache[f] > 0)
    BY <2>2, DefaultWeightAssumption DEF WeightsForFiles
  <2> QED
    BY <2>1, <2>2
<1> QED
  BY <1>1 DEF WeightsForFiles

(* Init establishes the types; used by every proof below. *)
LEMMA InitTypeOK == Init => TypeOK
<1> SUFFICES ASSUME Init PROVE TypeOK
  OBVIOUS
<1>1. Runnable \subseteq Files /\ weight \in [Runnable -> Nat \ {0}]
  <2>1. PICK S \in SUBSET Files : \E cached \in SUBSET S :
          \E cache \in [cached -> CachedWeights] : weight = WeightsForFiles(cache, S)
    BY DEF Init, ReadWeights
  <2>2. weight \in [S -> Nat \ {0}]
    BY <2>1, WeightsArePositive
  <2> QED
    BY <2>2 DEF Runnable
<1>2. runners \in Nat \ {0}
  BY RequestedRunnersAssumption DEF Init, NormalizedRunners
<1>3. load \in [Runners -> Nat] /\ result \in [Runners -> Seq(Runnable)]
  BY DEF Init, EmptyBuilder, Runners
<1>4. pending \subseteq Runnable
  BY DEF Init
<1> QED
  BY <1>1, <1>2, <1>3, <1>4 DEF TypeOK

(* What one iteration of the loop changes, without the builder record.     *)
LEMMA AddFileEffect ==
  ASSUME TypeOK, NEW f \in Runnable, NEW r \in Runners, AddFile(f, r)
  PROVE  /\ f \in pending
         /\ load' = [load EXCEPT ![r] = @ + weight[f]]
         /\ result' = [result EXCEPT ![r] = Append(@, f)]
         /\ pending' = pending \ {f}
         /\ weight' = weight /\ runners' = runners
         /\ Runners' = Runners /\ Runnable' = Runnable
         /\ \A s \in Runners : load[r] <= load[s]
<1>1. ASSUME NEW s \in Runners
      PROVE  load[r] <= load[s]
  <2>1. IsLightest(load, r) /\ DOMAIN load = Runners
    BY DEF AddFile, TypeOK
  <2>2. load[r] < load[s] \/ load[r] = load[s]
    BY <2>1 DEF IsLightest
  <2>3. load[r] \in Nat /\ load[s] \in Nat
    BY DEF TypeOK
  <2> QED
    BY <2>2, <2>3
<1> QED
  BY <1>1 DEF AddFile, GiveTo, Runners, Runnable

(* An iteration of the loop, and a stutter, keep the shape of the builder. *)
LEMMA NextTypeOK == TypeOK /\ [Next]_vars => TypeOK'
<1> SUFFICES ASSUME TypeOK, [Next]_vars PROVE TypeOK'
  OBVIOUS
<1>1. ASSUME NEW f \in Runnable, NEW r \in Runners, AddFile(f, r)
      PROVE  TypeOK'
  <2>1. load' \in [Runners -> Nat]
    BY <1>1, AddFileEffect DEF TypeOK
  <2>2. result' \in [Runners -> Seq(Runnable)]
    <3>1. result \in [Runners -> Seq(Runnable)]
      BY DEF TypeOK
    <3>2. Append(result[r], f) \in Seq(Runnable)
      BY <3>1
    <3>3. result' = [result EXCEPT ![r] = Append(@, f)]
      BY <1>1, AddFileEffect
    <3> QED
      BY <3>1, <3>2, <3>3
  <2> QED
    BY <1>1, <2>1, <2>2, AddFileEffect DEF TypeOK
<1>2. CASE UNCHANGED vars
  BY <1>2 DEF vars, TypeOK, Runners, Runnable
<1> QED
  BY <1>1, <1>2 DEF Next

(* The state of a builder keeps its shape. *)
THEOREM TypeCorrect == Spec => []TypeOK
BY InitTypeOK, NextTypeOK, PTL DEF Spec

-----------------------------------------------------------------------------

(* Appending a pending file to one runner's list duplicates none and loses *)
(* none: the new position is the only one that holds the file.             *)
LEMMA NextExactlyOnce ==
  ASSUME TypeOK, ExactlyOnce, NEW f \in Runnable, NEW r \in Runners, AddFile(f, r)
  PROVE  ExactlyOnce'
<1> DEFINE n == Len(result[r])
<1>1. /\ result[r] \in Seq(Runnable) /\ n \in Nat
      /\ result' = [result EXCEPT ![r] = Append(@, f)]
      /\ pending' = pending \ {f} /\ f \in pending
      /\ Runners' = Runners /\ Runnable' = Runnable
  BY AddFileEffect DEF TypeOK
<1>2. /\ Len(result'[r]) = n + 1
      /\ result'[r][n + 1] = f
      /\ \A i \in 1 .. n : result'[r][i] = result[r][i]
  BY <1>1 DEF TypeOK
<1>3. \A s \in Runners : s # r => result'[s] = result[s]
  BY <1>1 DEF TypeOK
<1>4. \A s \in Runners : Len(result[s]) \in Nat
  BY DEF TypeOK
<1>5. ASSUME NEW g \in Runnable, g \notin pending'
      PROVE  \E s \in Runners : \E i \in 1 .. Len(result'[s]) : result'[s][i] = g
  <2>1. CASE g = f
    <3>1. n + 1 \in 1 .. Len(result'[r])
      BY <1>1, <1>2
    <3> QED
      BY <2>1, <1>2, <3>1
  <2>2. CASE g # f
    <3>1. PICK s \in Runners : \E i \in 1 .. Len(result[s]) : result[s][i] = g
      BY <2>2, <1>5, <1>1 DEF ExactlyOnce
    <3>2. PICK i \in 1 .. Len(result[s]) : result[s][i] = g
      BY <3>1
    <3>3. i \in 1 .. Len(result'[s]) /\ result'[s][i] = g
      BY <3>2, <1>1, <1>2, <1>3
    <3> QED
      BY <3>3
  <2> QED
    BY <2>1, <2>2
<1>6. ASSUME NEW s \in Runners, NEW i \in 1 .. Len(result'[s])
      PROVE  \/ s = r /\ i = n + 1 /\ result'[s][i] = f
             \/ /\ i \in 1 .. Len(result[s])
                /\ result'[s][i] = result[s][i]
                /\ result'[s][i] # f
  <2>1. CASE s # r
    BY <2>1, <1>3, <1>1 DEF ExactlyOnce
  <2>2. CASE s = r /\ i = n + 1
    BY <2>2, <1>2
  <2>3. CASE s = r /\ i # n + 1
    <3>1. i \in 1 .. n
      BY <2>3, <1>1, <1>2
    <3> QED
      BY <2>3, <3>1, <1>1, <1>2 DEF ExactlyOnce
  <2> QED
    BY <2>1, <2>2, <2>3
<1>7. ASSUME NEW g \in Runnable, g \in pending'
      PROVE  \A s \in Runners : \A i \in 1 .. Len(result'[s]) : result'[s][i] # g
  BY <1>7, <1>1, <1>6 DEF ExactlyOnce
<1>8. ASSUME NEW g \in Runnable, NEW s \in Runners, NEW t \in Runners,
             NEW i \in 1 .. Len(result'[s]), NEW j \in 1 .. Len(result'[t]),
             result'[s][i] = g, result'[t][j] = g
      PROVE  s = t /\ i = j
  <2>1. CASE g = f
    BY <2>1, <1>8, <1>6
  <2>2. CASE g # f
    <3>1. i \in 1 .. Len(result[s]) /\ result[s][i] = g
      BY <2>2, <1>8, <1>6
    <3>2. j \in 1 .. Len(result[t]) /\ result[t][j] = g
      BY <2>2, <1>8, <1>6
    <3> QED
      BY <3>1, <3>2 DEF ExactlyOnce
  <2> QED
    BY <2>1, <2>2
<1> QED
  BY <1>1, <1>5, <1>7, <1>8 DEF ExactlyOnce

(* Every file is in exactly one runner's list, at one position: the CI     *)
(* nodes, or the workers of a node, run each runnable file exactly once.   *)
THEOREM SplitIsExact == Spec => []ExactlyOnce
<1>1. Init => ExactlyOnce
  BY DEF Init, EmptyBuilder, ExactlyOnce, Runners
<1>2. TypeOK /\ ExactlyOnce /\ [Next]_vars => ExactlyOnce'
  <2> SUFFICES ASSUME TypeOK, ExactlyOnce, [Next]_vars PROVE ExactlyOnce'
    OBVIOUS
  <2>1. CASE UNCHANGED vars
    BY <2>1 DEF vars, ExactlyOnce, Runners, Runnable
  <2> QED
    BY <2>1, NextExactlyOnce DEF Next
<1> QED
  BY <1>1, <1>2, TypeCorrect, PTL DEF Spec

-----------------------------------------------------------------------------

(* NoIdleRunner is not inductive, and GreedyBalance alone does not imply   *)
(* it: the strengthening says that a runner has no load exactly when it    *)
(* has no file, and that the last file never carries the whole load of a   *)
(* runner that has two.                                                    *)
BalanceInv ==
  /\ GreedyBalance
  /\ \A r \in Runners : result[r] = <<>> <=> load[r] = 0
  /\ \A r \in Runners : Len(result[r]) >= 2 => load[r] > weight[LastOf(r)]

(* The lightest runner takes the file, so its earlier load bounds nobody.  *)
LEMMA NextBalance ==
  ASSUME TypeOK, BalanceInv, ExactlyOnce,
         NEW f \in Runnable, NEW r \in Runners, AddFile(f, r)
  PROVE  BalanceInv'
<1>1. /\ weight' = weight /\ Runners' = Runners /\ Runnable' = Runnable
      /\ result' = [result EXCEPT ![r] = Append(@, f)]
      /\ load' = [load EXCEPT ![r] = @ + weight[f]]
      /\ \A s \in Runners : load[r] <= load[s]
  BY AddFileEffect
<1>2. /\ load \in [Runners -> Nat] /\ result \in [Runners -> Seq(Runnable)]
      /\ weight \in [Runnable -> Nat \ {0}]
  BY DEF TypeOK
<1>3. load'[r] = load[r] + weight[f] /\ load[r] \in Nat /\ weight[f] \in Nat \ {0}
  BY <1>1, <1>2
<1>4. \A s \in Runners : s # r => load'[s] = load[s] /\ result'[s] = result[s]
  BY <1>1, <1>2
<1>5. /\ result[r] \in Seq(Runnable)
      /\ result'[r] = Append(result[r], f)
      /\ Len(result'[r]) = Len(result[r]) + 1
      /\ result'[r][Len(result'[r])] = f
  BY <1>1, <1>2
<1>6. \A s \in Runners : load'[s] \in Nat /\ load[s] \in Nat /\ load'[s] >= load[s]
  BY <1>1, <1>2, <1>3, <1>4
<1>7. ASSUME NEW s \in Runners, NEW t \in Runners, result'[s] # <<>>
      PROVE  load'[s] - weight[result'[s][Len(result'[s])]] <= load'[t]
  <2>1. CASE s = r
    BY <2>1, <1>1, <1>3, <1>5, <1>6
  <2>2. CASE s # r
    <3>1. result'[s] = result[s] /\ load'[s] = load[s]
      BY <2>2, <1>4
    <3>2. load[s] - weight[result[s][Len(result[s])]] <= load[t]
      BY <3>1, <1>7 DEF BalanceInv, GreedyBalance, LastOf
    <3>3. result[s] \in Seq(Runnable) /\ result[s] # <<>>
      BY <1>2, <1>7, <3>1
    <3>4. weight[result[s][Len(result[s])]] \in Nat
      BY <3>3, <1>2
    <3> QED
      BY <3>1, <3>2, <3>4, <1>6
  <2> QED
    BY <2>1, <2>2
<1>8. ASSUME NEW s \in Runners
      PROVE  result'[s] = <<>> <=> load'[s] = 0
  <2>1. CASE s = r
    BY <2>1, <1>3, <1>5
  <2>2. CASE s # r
    BY <2>2, <1>4 DEF BalanceInv
  <2> QED
    BY <2>1, <2>2
<1>9. ASSUME NEW s \in Runners, Len(result'[s]) >= 2
      PROVE  load'[s] > weight[result'[s][Len(result'[s])]]
  <2>1. CASE s = r
    <3>1. Len(result[r]) >= 1 /\ result[r] # <<>>
      BY <2>1, <1>5, <1>9
    <3>2. load[r] # 0
      BY <3>1 DEF BalanceInv
    <3> QED
      BY <2>1, <3>2, <1>3, <1>5
  <2>2. CASE s # r
    BY <2>2, <1>4, <1>9 DEF BalanceInv, LastOf
  <2> QED
    BY <2>1, <2>2
<1> QED
  BY <1>1, <1>7, <1>8, <1>9 DEF BalanceInv, GreedyBalance, LastOf

(* The strengthened balance holds in every state of the loop. *)
LEMMA BalanceInvariant == Spec => []BalanceInv
<1>1. Init => BalanceInv
  BY DEF Init, EmptyBuilder, BalanceInv, GreedyBalance, Runners
<1>2. TypeOK /\ ExactlyOnce /\ BalanceInv /\ [Next]_vars => BalanceInv'
  <2> SUFFICES ASSUME TypeOK, ExactlyOnce, BalanceInv, [Next]_vars PROVE BalanceInv'
    OBVIOUS
  <2>1. CASE UNCHANGED vars
    BY <2>1 DEF vars, BalanceInv, GreedyBalance, LastOf, Runners, Runnable
  <2> QED
    BY <2>1, NextBalance DEF Next
<1> QED
  BY <1>1, <1>2, TypeCorrect, SplitIsExact, PTL DEF Spec

(* A split is balanced up to the last file of each runner: without it, a   *)
(* runner is no busier than any other.                                     *)
THEOREM SplitIsBalanced == Spec => []GreedyBalance
<1>1. BalanceInv => GreedyBalance
  BY DEF BalanceInv
<1> QED
  BY <1>1, BalanceInvariant, PTL

LEMMA BusyIfTwo == TypeOK /\ BalanceInv => NoIdleRunner
<1> SUFFICES ASSUME TypeOK, BalanceInv,
                    NEW r \in Runners, NEW s \in Runners, Len(result[r]) >= 2
             PROVE  result[s] # <<>>
  BY DEF NoIdleRunner
<1>1. result[r] \in Seq(Runnable) /\ result[r] # <<>>
  BY DEF TypeOK
<1>2. weight[LastOf(r)] \in Nat /\ load[r] \in Nat /\ load[s] \in Nat
  BY <1>1 DEF TypeOK, LastOf
<1>3. load[r] - weight[LastOf(r)] <= load[s]
  BY <1>1 DEF BalanceInv, GreedyBalance
<1>4. load[r] > weight[LastOf(r)]
  BY DEF BalanceInv
<1>5. load[s] # 0
  BY <1>2, <1>3, <1>4
<1> QED
  BY <1>5 DEF BalanceInv

(* No runner is left without a file while another has two.                 *)
THEOREM NoRunnerIdles == Spec => []NoIdleRunner
BY BusyIfTwo, TypeCorrect, BalanceInvariant, PTL

-----------------------------------------------------------------------------
(* The loop and Build.                                                     *)

Loop(w, n) == CHOOSE h : IsLoop(w, n, DOMAIN w, h)

(* The files that the loop has passed come before the others, and the      *)
(* builder is what Build has made of them.                                 *)
LoopInv ==
  /\ \A f \in Runnable \ pending, g \in pending : Precedes(weight, f, g)
  /\ [load |-> load, result |-> result] = Loop(weight, runners)[Runnable \ pending]

(* The lightest runner is one.                                             *)
LEMMA LightestIsUnique ==
  ASSUME NEW N \in Nat, NEW l \in [RunnerIndices(N) -> Nat],
         NEW r \in RunnerIndices(N), IsLightest(l, r)
  PROVE  r = CHOOSE s \in DOMAIN l : IsLightest(l, s)
<1> DEFINE s == CHOOSE t \in DOMAIN l : IsLightest(l, t)
<1>1. s \in RunnerIndices(N) /\ IsLightest(l, s)
  OBVIOUS
<1> HIDE DEF s
<1>2. l[r] < l[s] \/ (l[r] = l[s] /\ r <= s)
  BY <1>1 DEF IsLightest
<1>3. l[s] < l[r] \/ (l[s] = l[r] /\ s <= r)
  BY <1>1 DEF IsLightest
<1>4. l[r] \in Nat /\ l[s] \in Nat /\ r \in Int /\ s \in Int
  BY <1>1 DEF RunnerIndices
<1>5. r = s
  BY <1>2, <1>3, <1>4
<1> QED
  BY <1>5 DEF s

(* The weights of a state are weights that the loop of Build is about.     *)
LEMMA WeightsAreWeighted ==
  ASSUME TypeOK
  PROVE  /\ Weighted(weight) /\ IsLoop(weight, runners, Runnable, Loop(weight, runners))
         /\ Build(weight, runners) = Loop(weight, runners)[Runnable]
         /\ NormalizedRunners(runners) = runners
<1>1. Weighted(weight)
  BY DEF TypeOK, Weighted, Runnable
<1>2. IsLoop(weight, runners, DOMAIN weight, Loop(weight, runners))
  BY <1>1, LoopExists DEF Loop
<1>3. Build(weight, runners) = Loop(weight, runners)[DOMAIN weight]
  BY DEF Build, IsLoop, Pass, Loop
<1>4. NormalizedRunners(runners) = runners
  BY DEF TypeOK, NormalizedRunners
<1> QED
  BY <1>1, <1>2, <1>3, <1>4 DEF Runnable

(* A new builder has passed nothing.                                       *)
LEMMA NewBuilderLoop ==
  ASSUME TypeOK, load = EmptyBuilder(runners).load, result = EmptyBuilder(runners).result,
         pending = Runnable
  PROVE  LoopInv
<1>1. Runnable \ pending = {}
  OBVIOUS
<1>2. Loop(weight, runners)[{}] = EmptyBuilder(runners)
  BY WeightsAreWeighted DEF IsLoop
<1>3. EmptyBuilder(runners) = [load |-> load, result |-> result]
  BY DEF EmptyBuilder
<1> QED
  BY <1>1, <1>2, <1>3 DEF LoopInv

(* An iteration of the loop is one of Build.                               *)
LEMMA AddFileLoop ==
  ASSUME TypeOK, LoopInv, NEW f \in Runnable, NEW r \in Runners, AddFile(f, r)
  PROVE  LoopInv'
<1> DEFINE passed == Runnable \ pending
           b == [load |-> load, result |-> result]
<1>1. /\ f \in pending /\ pending' = pending \ {f} /\ pending \subseteq Runnable
      /\ weight' = weight /\ runners' = runners /\ Runnable' = Runnable
      /\ \A g \in pending \ {f} : Precedes(weight, f, g)
      /\ IsLightest(load, r)
  BY AddFileEffect DEF AddFile, TypeOK
<1>2. Runnable \ pending' = passed \cup {f} /\ passed \cup {f} \in SUBSET Runnable
      /\ (passed \cup {f}) \ {f} = passed /\ passed \cup {f} # {}
  BY <1>1
<1>3. IsLast(weight, passed \cup {f}, f)
  BY <1>1, <1>2 DEF IsLast, LoopInv
<1>4. LastFile(weight, passed \cup {f}) = f
  BY <1>2, <1>3, WeightsAreWeighted, LastIsUnique DEF Runnable
<1>5. Loop(weight, runners)[passed \cup {f}] = Pass(weight, b, f)
  <2>1. Loop(weight, runners)[passed \cup {f}]
          = Pass(weight, Loop(weight, runners)[(passed \cup {f}) \ {f}], f)
    BY <1>2, <1>4, WeightsAreWeighted DEF IsLoop
  <2> QED
    BY <1>2, <2>1 DEF LoopInv
<1>6. Pass(weight, b, f) = [load |-> load', result |-> result']
  <2>1. r = CHOOSE s \in DOMAIN load : IsLightest(load, s)
    BY <1>1, LightestIsUnique DEF TypeOK, Runners
  <2> QED
    BY <2>1 DEF Pass, AddFile, GiveTo
<1>7. \A g \in Runnable \ pending', k \in pending' : Precedes(weight, g, k)
  BY <1>1 DEF LoopInv
<1> QED
  BY <1>1, <1>2, <1>5, <1>6, <1>7 DEF LoopInv

(* distributeSortedFiles, one file at a time with a heap, and Build, which *)
(* the other modules take for it, are the same split.                      *)
THEOREM LoopIsBuild ==
  Spec => [](pending = {} => Build(weight, runners) = [load |-> load, result |-> result])
<1>1. Init => LoopInv
  BY InitTypeOK, NewBuilderLoop DEF Init
<1>2. TypeOK /\ LoopInv /\ [Next]_vars => LoopInv'
  <2> SUFFICES ASSUME TypeOK, LoopInv, [Next]_vars PROVE LoopInv'
    OBVIOUS
  <2>1. CASE UNCHANGED vars
    BY <2>1 DEF vars, LoopInv, Runnable
  <2> QED
    BY <2>1, AddFileLoop DEF Next
<1>3. TypeOK /\ LoopInv => (pending = {} => Build(weight, runners) = [load |-> load, result |-> result])
  BY WeightsAreWeighted DEF LoopInv
<1> QED
  BY <1>1, <1>2, <1>3, TypeCorrect, PTL DEF Spec

-----------------------------------------------------------------------------
(* The selection of the runner count and the split.                        *)

(* Parallelism, as PlanSizing has it, scores the splits of Build.          *)
LEMMA SizingScores ==
  ASSUME NEW n
  PROVE  Sizing!ScoreFor(n) = Sizing!Score(Build(weight, n).load)
<1>1. Sizing!Build(weight, n) = Build(weight, n)
  BY DEF Build, Sizing!Build, EmptyBuilder, Sizing!EmptyBuilder, NormalizedRunners,
     Sizing!NormalizedRunners, RunnerIndices, Sizing!RunnerIndices, LastFile, Sizing!LastFile,
     Precedes, Sizing!Precedes, GiveTo, Sizing!GiveTo, IsLightest, Sizing!IsLightest
<1> QED
  BY <1>1 DEF Sizing!ScoreFor

(* The score of a split for n runners says n.                              *)
LEMMA ScoreCounts ==
  ASSUME Weighted(weight), NEW n \in Nat \ {0}
  PROVE  Sizing!ScoreFor(n).parallelRunners = n
<1>1. Holds(Build(weight, n), DOMAIN weight, n)
  <2>1. NormalizedRunners(n) = n /\ n \in Int
    BY DEF NormalizedRunners
  <2> QED
    BY <2>1, BuildHolds
<1>2. DOMAIN Build(weight, n).load = 0 .. n - 1
  BY <1>1 DEF Holds, RunnerIndices
<1>3. Cardinality(0 .. n - 1) = n
  BY FS_Interval
<1>4. Sizing!Score(Build(weight, n).load).parallelRunners = Cardinality(0 .. n - 1)
  BY <1>2 DEF Sizing!Score, Sizing!Cardinality, Cardinality
<1> QED
  BY <1>3, <1>4, SizingScores

(* A candidate of the selection is the score of the split for its count.   *)
IsScored(s) == s.parallelRunners \in Nat \ {0} /\ s = Sizing!ScoreFor(s.parallelRunners)

(* The list of a single runner takes as long as Build says.                *)
Copied == runners = 1 /\ pending = {} /\ load = Build(weight, runners).load

SizeInv ==
  /\ TypeOK
  /\ IsScored(best.withoutTarget) /\ IsScored(best.lowestWall) /\ IsScored(best.withinTarget)
  /\ next \in Nat \ {0}
  /\ selected \in {0, Sizing!Choice.parallelRunners}
  /\ splitting => selected > 0 /\ runners = selected /\ (LoopInv \/ Copied)

(* The weights that a plan is made with have the type that TypeOK wants.   *)
LEMMA ReadWeightsTyped ==
  ReadWeights => Runnable \subseteq Files /\ weight \in [Runnable -> Nat \ {0}]
<1> SUFFICES ASSUME ReadWeights
             PROVE  Runnable \subseteq Files /\ weight \in [Runnable -> Nat \ {0}]
  OBVIOUS
<1>1. PICK S \in SUBSET Files : \E cached \in SUBSET S :
        \E cache \in [cached -> CachedWeights] : weight = WeightsForFiles(cache, S)
  BY DEF ReadWeights
<1>2. weight \in [S -> Nat \ {0}]
  BY <1>1, WeightsArePositive
<1> QED
  BY <1>2 DEF Runnable

(* A new builder for any number of runners is typed.                       *)
LEMMA NewBuilderTyped ==
  ASSUME NEW n \in Int
  PROVE  /\ NormalizedRunners(n) \in Nat \ {0}
         /\ EmptyBuilder(NormalizedRunners(n)).load
              \in [RunnerIndices(NormalizedRunners(n)) -> Nat]
         /\ EmptyBuilder(NormalizedRunners(n)).result
              \in [RunnerIndices(NormalizedRunners(n)) -> Seq(Runnable)]
BY DEF NormalizedRunners, EmptyBuilder

LEMMA SizeInit == SizingInit => SizeInv
<1> SUFFICES ASSUME SizingInit PROVE SizeInv
  OBVIOUS
<1>1. Runnable \subseteq Files /\ weight \in [Runnable -> Nat \ {0}]
  BY ReadWeightsTyped DEF SizingInit
<1>2. TypeOK
  BY <1>1 DEF SizingInit, TypeOK, EmptyBuilder, Runners
<1>3. Sizing!Lower \in Nat \ {0}
  BY SettingsAssumption DEF SizingInit, Sizing!Begin, Sizing!Lower
<1>4. Weighted(weight)
  BY <1>2, WeightsAreWeighted
<1>5. IsScored(Sizing!ScoreFor(Sizing!Lower))
  BY <1>3, <1>4, ScoreCounts DEF IsScored
<1>6. /\ best.withoutTarget = Sizing!ScoreFor(Sizing!Lower)
      /\ best.lowestWall = Sizing!ScoreFor(Sizing!Lower)
      /\ best.withinTarget = Sizing!ScoreFor(Sizing!Lower)
      /\ next = Sizing!Lower + 1 /\ selected = 0 /\ splitting = FALSE
  BY DEF SizingInit, Sizing!Begin
<1> QED
  BY <1>2, <1>3, <1>5, <1>6 DEF SizeInv

(* One more count: what is best so far stays, or is the new score.         *)
LEMMA ConsiderSize ==
  ASSUME SizeInv, Sizing!Consider, UNCHANGED <<builder, splitting>>
  PROVE  SizeInv'
<1>1. /\ selected = 0 /\ ~ splitting
      /\ weight' = weight /\ runners' = runners /\ load' = load /\ result' = result
      /\ pending' = pending /\ splitting' = splitting /\ selected' = selected
      /\ next' = next + 1
  BY DEF SizeInv, Sizing!Consider, builder
<1>2. Weighted(weight) /\ IsScored(Sizing!ScoreFor(next))
  BY WeightsAreWeighted, ScoreCounts DEF SizeInv, IsScored
<1>3. /\ best'.withoutTarget \in {Sizing!ScoreFor(next), best.withoutTarget}
      /\ best'.lowestWall \in {Sizing!ScoreFor(next), best.lowestWall}
      /\ best'.withinTarget \in {Sizing!ScoreFor(next), best.withinTarget}
  BY DEF Sizing!Consider
<1>4. TypeOK'
  BY <1>1 DEF SizeInv, TypeOK, Runners, Runnable
<1>5. /\ IsScored(best'.withoutTarget) /\ IsScored(best'.lowestWall)
      /\ IsScored(best'.withinTarget)
  BY <1>2, <1>3 DEF SizeInv
<1>6. /\ IsScored(best.withoutTarget)' /\ IsScored(best.lowestWall)'
      /\ IsScored(best.withinTarget)'
  BY <1>1, <1>5 DEF IsScored, Sizing!ScoreFor
<1>7. next' \in Nat \ {0}
  BY <1>1 DEF SizeInv
<1> QED
  BY <1>1, <1>4, <1>6, <1>7 DEF SizeInv

(* The steps of the selection.                                             *)
LEMMA SelectCountSize == SizeInv /\ SelectCount => SizeInv'
<1> SUFFICES ASSUME SizeInv, SelectCount PROVE SizeInv'
  OBVIOUS
<1>1. CASE Sizing!Consider
  BY <1>1, ConsiderSize DEF SelectCount
<1>2. CASE Sizing!Select
  <2>1. /\ weight' = weight /\ runners' = runners /\ load' = load /\ result' = result
        /\ pending' = pending /\ splitting' = splitting /\ best' = best /\ next' = next
        /\ target' = target /\ selected = 0 /\ selected' = Sizing!Choice.parallelRunners
    BY <1>2 DEF SelectCount, Sizing!Select, builder
  <2>2. TypeOK'
    BY <2>1 DEF SizeInv, TypeOK, Runners, Runnable
  <2>3. /\ IsScored(best.withoutTarget)' /\ IsScored(best.lowestWall)'
        /\ IsScored(best.withinTarget)'
    BY <2>1 DEF SizeInv, IsScored, Sizing!ScoreFor
  <2>4. Sizing!Choice' = Sizing!Choice
    BY <2>1 DEF Sizing!Choice
  <2> QED
    BY <2>1, <2>2, <2>3, <2>4 DEF SizeInv
<1> QED
  BY <1>1, <1>2 DEF SelectCount, Sizing!Next

(* A single runner has all the files, each once, and all their time.       *)
LEMMA CopyEffect ==
  ASSUME TypeOK, CopyTestFiles, weight' = weight
  PROVE  TypeOK' /\ Copied' /\ ExactlyOnce'
<1>1. /\ runners' = 1 /\ pending' = {} /\ Runnable' = Runnable /\ Runners' = {0}
      /\ load' = [r \in {0} |-> SumOver(weight, Runnable)]
  BY DEF CopyTestFiles, SumOver, Runnable, Runners, RunnerIndices
<1>2. PICK list \in [1 .. Cardinality(Runnable) -> Runnable] :
        ListsTestFiles(list) /\ result' = [r \in {0} |-> list]
  BY DEF CopyTestFiles
<1>3. /\ Weighted(weight) /\ Weighing(weight, Runnable)
      /\ Runnable \subseteq Nat /\ Cardinality(Runnable) \in Nat
  BY WeightsAreWeighted, WeightedWeighs, WeightedFinite, FilesAssumption
     DEF Weighted, Runnable
<1>4. /\ list \in Seq(Runnable) /\ result'[0] = list /\ Len(list) = Cardinality(Runnable)
      /\ \A i \in 1 .. Len(list) : list[i] \in Runnable
  BY <1>2, <1>3
<1>5. SumOver(weight, Runnable) \in Nat
  BY <1>3, SumTyped
<1>6. TypeOK'
  <2>1. load' \in [Runners' -> Nat]
    BY <1>1, <1>5
  <2>2. result' \in [Runners' -> Seq(Runnable')]
    BY <1>1, <1>2, <1>4
  <2> QED
    BY <1>1, <2>1, <2>2 DEF TypeOK
<1>7. Copied'
  <2>1. Holds(Build(weight, 1), Runnable, 1) /\ Scheduled(weight, Build(weight, 1).load, Runnable, 1)
    <3>1. NormalizedRunners(1) = 1
      BY DEF NormalizedRunners
    <3> QED
      BY <1>3, <3>1, BuildHolds, BuildIsLoop, LoopSchedules DEF Runnable
  <2>2. PICK a \in [Runnable -> {0}] : Build(weight, 1).load[0] = SumOver(weight, Given(a, Runnable, 0))
    BY <2>1 DEF Scheduled, RunnerIndices
  <2>3. Given(a, Runnable, 0) = Runnable
    BY DEF Given
  <2>4. Build(weight, 1).load = load'
    BY <1>1, <2>1, <2>2, <2>3 DEF Holds, RunnerIndices
  <2>5. Build(weight, runners)' = Build(weight, 1)
    BY <1>1 DEF Build
  <2> QED
    BY <1>1, <2>4, <2>5 DEF Copied
<1>8. ExactlyOnce'
  <2>1. \A i, j \in 1 .. Len(list) : list[i] = list[j] => i = j
    <3>1. \A i, j \in 1 .. Len(list) : i < j => list[i] < list[j]
      BY <1>2 DEF ListsTestFiles
    <3>2. \A i \in 1 .. Len(list) : list[i] \in Nat
      BY <1>3, <1>4
    <3> QED
      BY <1>4, <3>1, <3>2
  <2>2. \A f \in Runnable : \E i \in 1 .. Len(list) : list[i] = f
    BY <1>2 DEF ListsTestFiles
  <2>3. \A f \in Runnable : f \notin pending'
          /\ \E r \in Runners' : \E i \in 1 .. Len(result'[r]) : result'[r][i] = f
    BY <1>1, <1>4, <2>2
  <2>4. \A f \in Runnable : \A r, s \in Runners' :
          \A i \in 1 .. Len(result'[r]), j \in 1 .. Len(result'[s]) :
            result'[r][i] = f /\ result'[s][j] = f => r = s /\ i = j
    BY <1>1, <1>4, <2>1
  <2> QED
    BY <1>1, <2>3, <2>4 DEF ExactlyOnce
<1> QED
  BY <1>6, <1>7, <1>8

(* The split that is made is the one for the selected count.               *)
LEMMA CreateTestSplitsSize == SizeInv /\ CreateTestSplits => SizeInv'
<1> SUFFICES ASSUME SizeInv, CreateTestSplits PROVE SizeInv'
  OBVIOUS
<1>1. /\ weight' = weight /\ splitting' /\ best' = best /\ next' = next /\ target' = target
      /\ selected > 0 /\ selected' = selected /\ Runnable' = Runnable
  BY DEF CreateTestSplits, selection, Runnable
<1>2. Sizing!Choice' = Sizing!Choice
  BY <1>1 DEF Sizing!Choice
<1>3. selected \in Nat \ {0}
  <2>1. Sizing!Choice.parallelRunners \in Nat \ {0}
    BY DEF SizeInv, IsScored, Sizing!Choice
  <2> QED
    BY <1>1, <2>1 DEF SizeInv
<1>4. runners' = selected /\ TypeOK' /\ (LoopInv' \/ Copied')
  <2>1. CASE selected > 1
    <3>1. /\ runners' = NormalizedRunners(selected)
          /\ load' = EmptyBuilder(runners').load /\ result' = EmptyBuilder(runners').result
          /\ pending' = Runnable
      BY <2>1 DEF CreateTestSplits, NewBuilder
    <3>2. runners' = selected
      BY <1>3, <3>1 DEF NormalizedRunners
    <3>3. TypeOK'
      BY <1>1, <1>3, <3>1, <3>2 DEF SizeInv, TypeOK, Runners, Runnable, EmptyBuilder
    <3>4. (TypeOK /\ load = EmptyBuilder(runners).load /\ result = EmptyBuilder(runners).result
             /\ pending = Runnable => LoopInv)'
      BY NewBuilderLoop, PTL
    <3> QED
      BY <1>1, <3>1, <3>2, <3>3, <3>4 DEF EmptyBuilder
  <2>2. CASE ~ (selected > 1)
    <3>1. CopyTestFiles /\ selected = 1
      BY <1>3, <2>2 DEF CreateTestSplits
    <3> QED
      BY <1>1, <3>1, CopyEffect DEF SizeInv, Copied
  <2> QED
    BY <2>1, <2>2
<1>5. /\ IsScored(best.withoutTarget)' /\ IsScored(best.lowestWall)'
      /\ IsScored(best.withinTarget)'
  BY <1>1 DEF SizeInv, IsScored, Sizing!ScoreFor
<1> QED
  BY <1>1, <1>2, <1>4, <1>5 DEF SizeInv

(* Distributing the files leaves the selection alone.                      *)
LEMMA SplitNextSize == SizeInv /\ SplitNext => SizeInv'
<1> SUFFICES ASSUME SizeInv, SplitNext PROVE SizeInv'
  OBVIOUS
<1>1. PICK f \in Runnable, r \in Runners : AddFile(f, r)
  BY DEF SplitNext, Next
<1>2. /\ weight' = weight /\ runners' = runners /\ splitting /\ splitting' = splitting
      /\ best' = best /\ next' = next /\ target' = target /\ selected' = selected
  BY <1>1 DEF AddFile, SplitNext, selection
<1>3. TypeOK'
  BY <1>1, NextTypeOK DEF SizeInv, Next
<1>4. LoopInv'
  BY <1>1, <1>2, AddFileLoop DEF SizeInv, Copied, AddFile
<1>5. /\ IsScored(best.withoutTarget)' /\ IsScored(best.lowestWall)'
      /\ IsScored(best.withinTarget)'
  BY <1>2 DEF SizeInv, IsScored, Sizing!ScoreFor
<1>6. Sizing!Choice' = Sizing!Choice
  BY <1>2 DEF Sizing!Choice
<1> QED
  BY <1>2, <1>3, <1>4, <1>5, <1>6 DEF SizeInv

LEMMA SizeStutter == SizeInv /\ UNCHANGED sizingVars => SizeInv'
<1> SUFFICES ASSUME SizeInv, UNCHANGED sizingVars PROVE SizeInv'
  OBVIOUS
<1>1. /\ weight' = weight /\ runners' = runners /\ load' = load /\ result' = result
      /\ pending' = pending /\ splitting' = splitting /\ best' = best /\ next' = next
      /\ target' = target /\ selected' = selected
  BY DEF sizingVars, selection, builder
<1>2. TypeOK' /\ Sizing!Choice' = Sizing!Choice /\ (LoopInv => LoopInv') /\ (Copied => Copied')
  BY <1>1 DEF SizeInv, TypeOK, LoopInv, Copied, Runners, Runnable, Sizing!Choice
<1>3. /\ IsScored(best.withoutTarget)' /\ IsScored(best.lowestWall)'
      /\ IsScored(best.withinTarget)'
  BY <1>1 DEF SizeInv, IsScored, Sizing!ScoreFor
<1> QED
  BY <1>1, <1>2, <1>3 DEF SizeInv

LEMMA SizeInvariant == SizingSpec => []SizeInv
<1>1. SizeInv /\ [SizingNext]_sizingVars => SizeInv'
  BY SelectCountSize, CreateTestSplitsSize, SplitNextSize, SizeStutter DEF SizingNext
<1> QED
  BY <1>1, SizeInit, PTL DEF SizingSpec

(* The split that is written is the one that was scored: its count, wall   *)
(* time, imbalance and total are those that the selection promised.        *)
THEOREM SplitAsSelected == SizingSpec => []SplitIsAsSelected
<1>1. SizeInv => SplitIsAsSelected
  <2> SUFFICES ASSUME SizeInv, splitting, pending = {}
               PROVE  Sizing!Score(load) = Sizing!Choice /\ runners = selected
    BY DEF SplitIsAsSelected
  <2>1. runners = selected /\ selected = Sizing!Choice.parallelRunners
    BY DEF SizeInv
  <2>2. load = Build(weight, runners).load
    <3>1. CASE LoopInv
      <4>1. [load |-> load, result |-> result] = Build(weight, runners)
        BY <3>1, WeightsAreWeighted DEF SizeInv, LoopInv
      <4> QED
        BY <4>1
    <3>2. CASE Copied
      BY <3>2 DEF Copied
    <3> QED
      BY <3>1, <3>2 DEF SizeInv
  <2>3. Sizing!Choice = Sizing!ScoreFor(selected)
    BY <2>1 DEF SizeInv, IsScored, Sizing!Choice
  <2> QED
    BY <2>1, <2>2, <2>3, SizingScores
<1> QED
  BY <1>1, SizeInvariant, PTL

-----------------------------------------------------------------------------
(* The documented choice.                                                  *)

Wall(w, n) == WallTime(Build(w, n).load)
Cost(w, each, n) == Wall(w, n) + n * each

LEMMA WallTyped ==
  ASSUME TypeOK, NEW n \in Nat \ {0}
  PROVE  Sizing!ScoreFor(n).wallTime = Wall(weight, n) /\ Wall(weight, n) \in Nat
<1> DEFINE l == Build(weight, n).load
<1>1. l \in [RunnerIndices(n) -> Nat]
  <2>1. NormalizedRunners(n) = n /\ n \in Int
    BY DEF NormalizedRunners
  <2> QED
    BY <2>1, BuildHolds, WeightsAreWeighted DEF Holds
<1>2. Sizing!ScoreFor(n).wallTime = Sizing!Score(l).wallTime
  BY SizingScores
<1> HIDE DEF l
<1>3. \A S : Sizing!Max(S) = Max(S)
  BY DEF Max, Sizing!Max
<1>4. Sizing!Score(l).wallTime = WallTime(l)
  BY <1>3 DEF Sizing!Score, WallTime
<1> QED
  BY <1>1, <1>2, <1>4, WallTimeIsSlowest DEF l, Wall

LEMMA CostTyped ==
  ASSUME TypeOK, overhead \in Int, NEW n \in Nat \ {0}
  PROVE  /\ Sizing!OverheadMillis \in Nat
         /\ Cost(weight, Sizing!OverheadMillis, n) \in Nat
         /\ Sizing!SelectionScore(Sizing!ScoreFor(n)) = Cost(weight, Sizing!OverheadMillis, n)
<1>1. Sizing!OverheadMillis \in Nat
  BY DEF Sizing!OverheadMillis
<1>2. n * Sizing!OverheadMillis \in Nat
  BY <1>1, Times
<1>3. Sizing!ScoreFor(n).parallelRunners = n
  BY WeightsAreWeighted, ScoreCounts
<1> QED
  BY <1>1, <1>2, <1>3, WallTyped DEF Cost, Sizing!SelectionScore

(* Between scores, a later count must be strictly better.                  *)
LEMMA LaterIsBetter ==
  ASSUME NEW a, NEW b, NEW m \in Int, NEW n \in Int, m > n, NEW c, NEW d, NEW e, NEW f
  PROVE  /\ Sizing!Below(<<a, m, c, d>>, <<b, n, e, f>>) <=> a < b
         /\ Sizing!Below(<<a, m, c>>, <<b, n, e>>) <=> a < b
<1>1. ~ (m < n) /\ m # n
  OBVIOUS
<1>2. Sizing!Below(<<a, m, c, d>>, <<b, n, e, f>>) <=> a < b
  <2> DEFINE x == <<a, m, c, d>>
             y == <<b, n, e, f>>
  <2>1. DOMAIN x = 1 .. 4 /\ x[1] = a /\ x[2] = m /\ y[1] = b /\ y[2] = n
    OBVIOUS
  <2> HIDE DEF x, y
  <2>2. ASSUME NEW i \in 1 .. 4, x[i] < y[i], \A j \in 1 .. i - 1 : x[j] = y[j]
        PROVE  a < b
    <3>1. i = 1 \/ i = 2 \/ 2 \in 1 .. i - 1
      OBVIOUS
    <3> QED
      BY <1>1, <2>1, <2>2, <3>1
  <2>3. ASSUME a < b
        PROVE  \E i \in 1 .. 4 : x[i] < y[i] /\ \A j \in 1 .. i - 1 : x[j] = y[j]
    <3>1. 1 \in 1 .. 4 /\ x[1] < y[1] /\ \A j \in 1 .. 1 - 1 : x[j] = y[j]
      BY <2>1, <2>3
    <3> QED
      BY <3>1
  <2>4. Sizing!Below(x, y) <=> a < b
    BY <2>1, <2>2, <2>3 DEF Sizing!Below
  <2> QED
    BY <2>4 DEF x, y
<1>3. Sizing!Below(<<a, m, c>>, <<b, n, e>>) <=> a < b
  <2> DEFINE x == <<a, m, c>>
             y == <<b, n, e>>
  <2>1. DOMAIN x = 1 .. 3 /\ x[1] = a /\ x[2] = m /\ y[1] = b /\ y[2] = n
    OBVIOUS
  <2> HIDE DEF x, y
  <2>2. ASSUME NEW i \in 1 .. 3, x[i] < y[i], \A j \in 1 .. i - 1 : x[j] = y[j]
        PROVE  a < b
    <3>1. i = 1 \/ i = 2 \/ 2 \in 1 .. i - 1
      OBVIOUS
    <3> QED
      BY <1>1, <2>1, <2>2, <3>1
  <2>3. ASSUME a < b
        PROVE  \E i \in 1 .. 3 : x[i] < y[i] /\ \A j \in 1 .. i - 1 : x[j] = y[j]
    <3>1. 1 \in 1 .. 3 /\ x[1] < y[1] /\ \A j \in 1 .. 1 - 1 : x[j] = y[j]
      BY <2>1, <2>3
    <3> QED
      BY <3>1
  <2>4. Sizing!Below(x, y) <=> a < b
    BY <2>1, <2>2, <2>3 DEF Sizing!Below
  <2> QED
    BY <2>4 DEF x, y
<1> QED
  BY <1>2, <1>3

(* The best of a set of counts, and the counts that meet the target.       *)
IsCheapest(w, each, S, n) ==
  n \in S /\ \A m \in S : \/ Cost(w, each, n) < Cost(w, each, m)
                          \/ Cost(w, each, n) = Cost(w, each, m) /\ n <= m
IsFastest(w, S, n) ==
  n \in S /\ \A m \in S : Wall(w, n) < Wall(w, m) \/ (Wall(w, n) = Wall(w, m) /\ n <= m)
InTime(w, time, S) == {n \in S : Wall(w, n) <= time}

(* The counts that have been considered. *)
Tried == Sizing!Lower .. next - 1

(* What is best so far is the best of the counts that were considered.     *)
BestInv ==
  /\ min \in Int /\ max \in Int /\ overhead \in Int /\ target \in Int
  /\ Sizing!Lower + 1 <= next /\ next <= Sizing!Upper + 1
  /\ selected > 0 => next > Sizing!Upper
  /\ IsCheapest(weight, Sizing!OverheadMillis, Tried, best.withoutTarget.parallelRunners)
  /\ IsFastest(weight, Tried, best.lowestWall.parallelRunners)
  /\ best.found \in BOOLEAN
  /\ best.found <=> target > 0 /\ InTime(weight, target, Tried) # {}
  /\ best.found => IsCheapest(weight, Sizing!OverheadMillis, InTime(weight, target, Tried),
                              best.withinTarget.parallelRunners)

(* The bounds of the loop, and those of the documented comparison.         *)
Top == IF max <= 1 THEN 1 ELSE max

LEMMA LoopBounds ==
  ASSUME TypeOK, min \in Int, max \in Int
  PROVE  /\ Sizing!Lower \in Nat \ {0} /\ Sizing!Upper \in Nat \ {0} /\ Top \in Nat \ {0}
         /\ Sizing!Lower <= Sizing!Upper /\ Sizing!Upper <= Top
         /\ Sizing!Upper < Top => Cardinality(DOMAIN weight) <= Sizing!Upper
<1>2. Cardinality(DOMAIN weight) \in Nat
  BY WeightsAreWeighted, WeightedFinite
<1>3. Sizing!FilesCount = Cardinality(DOMAIN weight)
  BY DEF Sizing!FilesCount, Cardinality, Sizing!Cardinality
<1>4. Sizing!Lower \in Nat \ {0} /\ Sizing!Lower <= Top /\ Top \in Nat \ {0}
  BY DEF Sizing!Lower, Top
<1>5. CASE max <= 1
  BY <1>4, <1>5 DEF Sizing!Upper, Top, Sizing!Lower
<1>6. CASE max > 1
  <2> HIDE DEF Sizing!Lower
  <2> QED
    BY <1>2, <1>3, <1>4, <1>6 DEF Sizing!Upper, Sizing!MaxUseful, Top
<1> QED
  BY <1>5, <1>6

LEMMA BestInit == SizingInit => BestInv
<1> SUFFICES ASSUME SizingInit PROVE BestInv
  OBVIOUS
<1> DEFINE l == Sizing!Lower
           x == Sizing!ScoreFor(l)
           each == Sizing!OverheadMillis
<1>1. TypeOK
  BY SizeInit DEF SizeInv
<1>2. /\ min \in Int /\ max \in Int /\ overhead \in Int /\ target \in Int
      /\ best.withoutTarget = x /\ best.lowestWall = x /\ best.withinTarget = x
      /\ best.found = Sizing!MeetsTarget(x) /\ next = l + 1 /\ selected = 0
  BY SettingsAssumption DEF SizingInit, Sizing!Begin
<1>3. l \in Nat \ {0} /\ l <= Sizing!Upper /\ Sizing!Upper \in Nat
  BY <1>1, <1>2, LoopBounds
<1>4. x.parallelRunners = l /\ x.wallTime = Wall(weight, l) /\ Wall(weight, l) \in Nat
      /\ Cost(weight, each, l) \in Nat
  BY <1>1, <1>2, <1>3, WeightsAreWeighted, ScoreCounts, WallTyped, CostTyped
<1> HIDE DEF l, x, each
<1>5. Tried = {l}
  BY <1>2, <1>3 DEF Tried, l
<1>6. IsCheapest(weight, each, {l}, l) /\ IsFastest(weight, {l}, l)
  BY <1>3, <1>4 DEF IsCheapest, IsFastest
<1>7. best.found = (target > 0 /\ Wall(weight, l) <= target)
  BY <1>2, <1>4 DEF Sizing!MeetsTarget
<1>8. InTime(weight, target, {l}) = IF Wall(weight, l) <= target THEN {l} ELSE {}
  BY DEF InTime
<1>9. best.found \in BOOLEAN /\ (best.found <=> target > 0 /\ InTime(weight, target, {l}) # {})
  BY <1>7, <1>8
<1>10. best.found => IsCheapest(weight, each, InTime(weight, target, {l}), l)
  BY <1>6, <1>7, <1>8
<1> QED
  BY <1>2, <1>3, <1>4, <1>5, <1>6, <1>9, <1>10 DEF BestInv, each, l

(* One more count of the loop.                                             *)
LEMMA ConsiderBest ==
  ASSUME SizeInv, BestInv, Sizing!Consider
  PROVE  BestInv'
<1> DEFINE n == next
           x == Sizing!ScoreFor(n)
           each == Sizing!OverheadMillis
           p == best.withoutTarget.parallelRunners
           q == best.lowestWall.parallelRunners
           r == best.withinTarget.parallelRunners
           replaces == Sizing!MeetsTarget(x) /\ (~ best.found \/ Sizing!Better(x, best.withinTarget))
<1>1. TypeOK /\ n \in Nat \ {0} /\ overhead \in Int /\ min \in Int /\ max \in Int /\ target \in Int
  BY DEF SizeInv, BestInv
<1>2. /\ weight' = weight /\ min' = min /\ max' = max /\ overhead' = overhead
      /\ target' = target /\ selected' = selected /\ selected = 0
      /\ next' = n + 1 /\ n <= Sizing!Upper
      /\ best'.withoutTarget = IF Sizing!Better(x, best.withoutTarget)
                               THEN x ELSE best.withoutTarget
      /\ best'.lowestWall = IF Sizing!BetterWallTime(x, best.lowestWall)
                            THEN x ELSE best.lowestWall
      /\ best'.withinTarget = IF replaces THEN x ELSE best.withinTarget
      /\ best'.found = (best.found \/ replaces)
  BY DEF Sizing!Consider
<1>3. /\ Sizing!Lower' = Sizing!Lower /\ Sizing!Upper' = Sizing!Upper
      /\ Sizing!OverheadMillis' = each
  BY <1>2 DEF Sizing!Lower, Sizing!Upper, Sizing!MaxUseful, Sizing!FilesCount, Sizing!OverheadMillis
<1>4. /\ Sizing!Lower \in Nat \ {0} /\ Sizing!Upper \in Nat \ {0}
      /\ Sizing!Lower + 1 <= n
  BY <1>1, LoopBounds DEF BestInv
<1>5. \A m \in Tried : m \in Nat \ {0} /\ m < n
  BY <1>1, <1>4 DEF Tried
<1>6. Tried' = Tried \cup {n}
  BY <1>1, <1>2, <1>3, <1>4 DEF Tried
<1>7. /\ IsScored(best.withoutTarget) /\ IsScored(best.lowestWall)
      /\ IsScored(best.withinTarget)
  BY DEF SizeInv
<1>8. /\ \A m \in Nat \ {0} : /\ Wall(weight, m) \in Nat
                              /\ Cost(weight, each, m) \in Nat
                              /\ Sizing!ScoreFor(m).wallTime = Wall(weight, m)
                              /\ Sizing!ScoreFor(m).parallelRunners = m
                              /\ Sizing!SelectionScore(Sizing!ScoreFor(m)) = Cost(weight, each, m)
  BY <1>1, WallTyped, CostTyped, WeightsAreWeighted, ScoreCounts
<1>9. ASSUME NEW s, IsScored(s), s.parallelRunners < n
      PROVE  /\ Sizing!Better(x, s)
                  <=> Cost(weight, each, n) < Cost(weight, each, s.parallelRunners)
             /\ Sizing!BetterWallTime(x, s)
                  <=> Wall(weight, n) < Wall(weight, s.parallelRunners)
  <2>1. s.parallelRunners \in Nat \ {0} /\ s = Sizing!ScoreFor(s.parallelRunners)
    BY <1>9 DEF IsScored
  <2>2. /\ x.parallelRunners = n /\ x.wallTime = Wall(weight, n)
        /\ Sizing!SelectionScore(x) = Cost(weight, each, n)
        /\ s.wallTime = Wall(weight, s.parallelRunners)
        /\ Sizing!SelectionScore(s) = Cost(weight, each, s.parallelRunners)
    BY <1>1, <1>8, <2>1
  <2>3. n \in Int /\ s.parallelRunners \in Int /\ n > s.parallelRunners
    BY <1>1, <1>9, <2>1
  <2> HIDE DEF x, n, each
  <2>4. Sizing!Better(x, s) <=> Cost(weight, each, n) < Cost(weight, each, s.parallelRunners)
    <3>1. Sizing!Better(x, s)
            <=> Sizing!Below(<<Cost(weight, each, n), n, x.wallTime, x.imbalance>>,
                             <<Cost(weight, each, s.parallelRunners), s.parallelRunners,
                               s.wallTime, s.imbalance>>)
      BY <2>2 DEF Sizing!Better
    <3> QED
      BY <2>3, <3>1, LaterIsBetter
  <2>5. Sizing!BetterWallTime(x, s) <=> Wall(weight, n) < Wall(weight, s.parallelRunners)
    <3>1. Sizing!BetterWallTime(x, s)
            <=> Sizing!Below(<<Wall(weight, n), n, x.imbalance>>,
                             <<Wall(weight, s.parallelRunners), s.parallelRunners, s.imbalance>>)
      BY <2>2 DEF Sizing!BetterWallTime
    <3> QED
      BY <2>3, <3>1, LaterIsBetter
  <2> QED
    BY <2>4, <2>5
<1>10. x.parallelRunners = n /\ x.wallTime = Wall(weight, n)
  BY <1>1, <1>8
<1>11. Sizing!MeetsTarget(x) <=> target > 0 /\ Wall(weight, n) <= target
  BY <1>10 DEF Sizing!MeetsTarget
<1> HIDE DEF n, x, each, replaces
<1>12. ASSUME NEW S \in SUBSET Tried, NEW k, IsCheapest(weight, each, S, k)
       PROVE  IsCheapest(weight, each, S \cup {n},
                IF Cost(weight, each, n) < Cost(weight, each, k) THEN n ELSE k)
  <2>1. k \in S /\ \A m \in S : \/ Cost(weight, each, k) < Cost(weight, each, m)
                                \/ Cost(weight, each, k) = Cost(weight, each, m) /\ k <= m
    BY <1>12 DEF IsCheapest
  <2>2. \A m \in S \cup {n} : Cost(weight, each, m) \in Nat /\ m \in Nat
    BY <1>1, <1>5, <1>8
  <2>3. k < n
    BY <1>5, <2>1
  <2> QED
    BY <2>1, <2>2, <2>3 DEF IsCheapest
<1>13. IsCheapest(weight, each, Tried', best'.withoutTarget.parallelRunners)
  <2>1. IsCheapest(weight, each, Tried, p)
    BY DEF BestInv, each
  <2>2. p < n
    BY <1>5, <2>1 DEF IsCheapest
  <2>3. Sizing!Better(x, best.withoutTarget) <=> Cost(weight, each, n) < Cost(weight, each, p)
    BY <1>7, <1>9, <2>2
  <2>4. best'.withoutTarget.parallelRunners
          = IF Cost(weight, each, n) < Cost(weight, each, p) THEN n ELSE p
    BY <1>2, <1>10, <2>3
  <2> QED
    BY <1>6, <1>12, <2>1, <2>4
<1>14. IsFastest(weight, Tried', best'.lowestWall.parallelRunners)
  <2>1. IsFastest(weight, Tried, q)
    BY DEF BestInv
  <2>2. q < n /\ q \in Tried
    BY <1>5, <2>1 DEF IsFastest
  <2>3. Sizing!BetterWallTime(x, best.lowestWall) <=> Wall(weight, n) < Wall(weight, q)
    BY <1>7, <1>9, <2>2
  <2>4. best'.lowestWall.parallelRunners
          = IF Wall(weight, n) < Wall(weight, q) THEN n ELSE q
    BY <1>2, <1>10, <2>3
  <2>5. \A m \in Tried \cup {n} : Wall(weight, m) \in Nat /\ m \in Nat
    BY <1>1, <1>5, <1>8
  <2> QED
    BY <1>6, <2>1, <2>2, <2>4, <2>5 DEF IsFastest
<1>15. /\ best.found \in BOOLEAN
       /\ best.found <=> target > 0 /\ InTime(weight, target, Tried) # {}
       /\ best.found => IsCheapest(weight, each, InTime(weight, target, Tried), r)
  BY DEF BestInv, each
<1>16. InTime(weight, target, Tried') = IF Wall(weight, n) <= target
                                        THEN InTime(weight, target, Tried) \cup {n}
                                        ELSE InTime(weight, target, Tried)
  BY <1>6 DEF InTime
<1>17. replaces => target > 0 /\ Wall(weight, n) <= target
  BY <1>11 DEF replaces
<1>18. ~ best.found /\ target > 0 /\ Wall(weight, n) <= target => replaces
  BY <1>11 DEF replaces
<1>19. best'.found \in BOOLEAN
       /\ (best'.found <=> target > 0 /\ InTime(weight, target, Tried') # {})
  <2>1. best'.found <=> best.found \/ replaces
    BY <1>2
  <2>2. best'.found \in BOOLEAN
    BY <1>2
  <2>3. CASE Wall(weight, n) <= target
    BY <1>15, <1>16, <1>17, <1>18, <2>1, <2>2, <2>3
  <2>4. CASE ~ (Wall(weight, n) <= target)
    BY <1>15, <1>16, <1>17, <2>1, <2>2, <2>4
  <2> QED
    BY <2>3, <2>4
<1>20. best'.found => IsCheapest(weight, each, InTime(weight, target, Tried'),
                                 best'.withinTarget.parallelRunners)
  <2> DEFINE S == InTime(weight, target, Tried)
  <2>1. CASE best.found
    <3>1. IsCheapest(weight, each, S, r) /\ S \in SUBSET Tried
      BY <1>15, <2>1 DEF InTime
    <3>2. r < n
      BY <1>5, <3>1 DEF IsCheapest
    <3>3. Sizing!Better(x, best.withinTarget) <=> Cost(weight, each, n) < Cost(weight, each, r)
      BY <1>7, <1>9, <3>2
    <3>4. target > 0
      BY <1>15, <2>1
    <3>5. CASE Wall(weight, n) <= target
      <4>1. replaces <=> Cost(weight, each, n) < Cost(weight, each, r)
        BY <1>11, <2>1, <3>3, <3>4, <3>5 DEF replaces
      <4>2. best'.withinTarget.parallelRunners
              = IF Cost(weight, each, n) < Cost(weight, each, r) THEN n ELSE r
        BY <1>2, <1>10, <4>1
      <4> QED
        BY <1>12, <1>16, <3>1, <3>5, <4>2
    <3>6. CASE ~ (Wall(weight, n) <= target)
      BY <1>2, <1>16, <1>17, <3>1, <3>6
    <3> QED
      BY <3>5, <3>6
  <2>2. CASE ~ best.found
    <3>1. CASE replaces
      <4>1. target > 0 /\ Wall(weight, n) <= target
        BY <1>17, <3>1
      <4>2. S = {}
        BY <1>15, <2>2, <4>1
      <4>3. InTime(weight, target, Tried') = {n} /\ best'.withinTarget.parallelRunners = n
        BY <1>2, <1>10, <1>16, <3>1, <4>1, <4>2
      <4>4. Cost(weight, each, n) \in Nat /\ n \in Nat
        BY <1>1, <1>8
      <4>5. IsCheapest(weight, each, {n}, n)
        BY <4>4 DEF IsCheapest
      <4> QED
        BY <4>3, <4>5
    <3>2. CASE ~ replaces
      BY <1>2, <2>2, <3>2
    <3> QED
      BY <3>1, <3>2
  <2> QED
    BY <2>1, <2>2
<1>21. /\ Sizing!Lower' + 1 <= next' /\ next' <= Sizing!Upper' + 1
       /\ selected' > 0 => next' > Sizing!Upper'
  BY <1>1, <1>2, <1>3, <1>4
<1> QED
  BY <1>1, <1>2, <1>3, <1>13, <1>14, <1>19, <1>20, <1>21 DEF BestInv, each

(* Everything else leaves the best of the counts alone.                    *)
LEMMA BestSteps ==
  ASSUME SizeInv, BestInv,
         \/ Sizing!Select \/ CreateTestSplits \/ SplitNext \/ UNCHANGED sizingVars
  PROVE  BestInv'
<1>1. /\ weight' = weight /\ min' = min /\ max' = max /\ overhead' = overhead
      /\ target' = target /\ best' = best /\ next' = next
      /\ selected' > 0 => next > Sizing!Upper
  <2>1. CASE Sizing!Select
    BY <2>1 DEF Sizing!Select
  <2>2. CASE CreateTestSplits
    BY <2>2 DEF CreateTestSplits, selection, BestInv
  <2>3. CASE SplitNext
    BY <2>3 DEF SplitNext, Next, AddFile, selection, BestInv
  <2>4. CASE UNCHANGED sizingVars
    BY <2>4 DEF sizingVars, selection, BestInv
  <2> QED
    BY <2>1, <2>2, <2>3, <2>4
<1>2. /\ Sizing!Lower' = Sizing!Lower /\ Sizing!Upper' = Sizing!Upper
      /\ Sizing!OverheadMillis' = Sizing!OverheadMillis /\ Tried' = Tried
  BY <1>1 DEF Sizing!Lower, Sizing!Upper, Sizing!MaxUseful, Sizing!FilesCount,
              Sizing!OverheadMillis, Tried
<1> QED
  BY <1>1, <1>2 DEF BestInv

LEMMA BestInvariant == SizingSpec => []BestInv
<1>1. SizeInv /\ BestInv /\ [SizingNext]_sizingVars => BestInv'
  BY ConsiderBest, BestSteps DEF SizingNext, SelectCount, Sizing!Next
<1> QED
  BY <1>1, BestInit, SizeInvariant, PTL DEF SizingSpec

(* The counts that the loop leaves out are no better than the last one.    *)
LEMMA LeftOut ==
  ASSUME SizeInv, BestInv, next > Sizing!Upper, NEW m \in Sizing!AllCounts, m \notin Tried
  PROVE  /\ Sizing!Upper \in Tried /\ Sizing!Upper < m
         /\ Wall(weight, Sizing!Upper) <= Wall(weight, m)
         /\ Cost(weight, Sizing!OverheadMillis, Sizing!Upper)
              <= Cost(weight, Sizing!OverheadMillis, m)
<1> DEFINE u == Sizing!Upper
           each == Sizing!OverheadMillis
<1>1. TypeOK /\ min \in Int /\ max \in Int /\ overhead \in Int /\ next \in Nat
  BY DEF SizeInv, BestInv
<1>2. /\ u \in Nat \ {0} /\ Sizing!Lower \in Nat \ {0} /\ Top \in Nat /\ Sizing!Lower <= u
      /\ u < Top => Cardinality(DOMAIN weight) <= u
  BY <1>1, LoopBounds
<1>3. m \in Sizing!Lower .. Top
  BY DEF Sizing!AllCounts, Top
<1>4. next = u + 1
  BY <1>1, <1>2 DEF BestInv
<1> HIDE DEF u, each
<1>5. u \in Tried /\ u < m /\ u < Top /\ m \in Nat \ {0}
  BY <1>1, <1>2, <1>3, <1>4 DEF Tried
<1>6. Wall(weight, u) <= Wall(weight, m)
  <2>1. Weighted(weight) /\ \A f \in DOMAIN weight : weight[f] > 0
    BY <1>1, WeightsAreWeighted DEF TypeOK, Runnable
  <2> QED
    BY <1>2, <1>5, <2>1, MoreRunnersAreUseless DEF Wall
<1>7. u * each <= m * each /\ u * each \in Nat /\ m * each \in Nat
  <2>1. each \in Nat
    BY <1>1, <1>2, CostTyped DEF each
  <2>2. u \in Nat /\ m \in Nat /\ u <= m
    BY <1>2, <1>5
  <2> QED
    BY <2>1, <2>2, Times, TimesMonotonic
<1>8. Wall(weight, u) \in Nat /\ Wall(weight, m) \in Nat
  BY <1>1, <1>2, <1>5, WallTyped
<1>9. Cost(weight, each, u) <= Cost(weight, each, m)
  BY <1>6, <1>7, <1>8 DEF Cost
<1> QED
  BY <1>5, <1>6, <1>9 DEF u, each

(* What is best of the counts that were considered is best of all.         *)
LEMMA BestOfAll ==
  ASSUME SizeInv, BestInv, next > Sizing!Upper
  PROVE  LET All  == Sizing!AllCounts
             each == Sizing!OverheadMillis
         IN  /\ IsCheapest(weight, each, All, best.withoutTarget.parallelRunners)
             /\ IsFastest(weight, All, best.lowestWall.parallelRunners)
             /\ best.found <=> target > 0 /\ InTime(weight, target, All) # {}
             /\ best.found => IsCheapest(weight, each, InTime(weight, target, All),
                                         best.withinTarget.parallelRunners)
<1> DEFINE All == Sizing!AllCounts
           u == Sizing!Upper
           each == Sizing!OverheadMillis
<1>1. /\ TypeOK /\ min \in Int /\ max \in Int /\ overhead \in Int /\ target \in Int
      /\ next \in Nat /\ next <= u + 1
  BY DEF SizeInv, BestInv
<1>2. /\ u \in Nat \ {0} /\ Sizing!Lower \in Nat \ {0} /\ Top \in Nat
      /\ Sizing!Lower <= u /\ u <= Top
  BY <1>1, LoopBounds
<1>3. All = Sizing!Lower .. Top
  BY DEF Sizing!AllCounts, Top
<1>4. Tried \subseteq All /\ \A m \in Tried : m <= u
  BY <1>1, <1>2, <1>3 DEF Tried
<1>5. \A m \in All : /\ m \in Nat
                     /\ Wall(weight, m) \in Nat
                     /\ Cost(weight, each, m) \in Nat
  BY <1>1, <1>2, <1>3, WallTyped, CostTyped
<1>6. \A m \in All : m \notin Tried => /\ u \in Tried /\ u < m
                                       /\ Wall(weight, u) <= Wall(weight, m)
                                       /\ Cost(weight, each, u) <= Cost(weight, each, m)
  BY LeftOut
<1>7. /\ IsCheapest(weight, each, Tried, best.withoutTarget.parallelRunners)
      /\ IsFastest(weight, Tried, best.lowestWall.parallelRunners)
      /\ best.found \in BOOLEAN
      /\ best.found <=> target > 0 /\ InTime(weight, target, Tried) # {}
      /\ best.found => IsCheapest(weight, each, InTime(weight, target, Tried),
                                  best.withinTarget.parallelRunners)
  BY DEF BestInv
<1> HIDE DEF All, u, each
<1>8. IsCheapest(weight, each, All, best.withoutTarget.parallelRunners)
  BY <1>2, <1>4, <1>5, <1>6, <1>7 DEF IsCheapest
<1>9. IsFastest(weight, All, best.lowestWall.parallelRunners)
  BY <1>2, <1>4, <1>5, <1>6, <1>7 DEF IsFastest
<1>10. InTime(weight, target, Tried) \subseteq InTime(weight, target, All)
  BY <1>4 DEF InTime
<1>11. ASSUME NEW m \in InTime(weight, target, All), m \notin Tried
       PROVE  u \in InTime(weight, target, Tried) /\ m \in All
  <2>1. m \in All /\ Wall(weight, m) <= target
    BY DEF InTime
  <2>2. u \in Tried /\ Wall(weight, u) <= Wall(weight, m) /\ u \in All
    BY <1>4, <1>6, <1>11, <2>1
  <2>3. Wall(weight, u) <= target
    BY <1>1, <1>5, <2>1, <2>2
  <2> QED
    BY <2>1, <2>2, <2>3 DEF InTime
<1>12. best.found <=> target > 0 /\ InTime(weight, target, All) # {}
  <2>1. InTime(weight, target, All) # {} => InTime(weight, target, Tried) # {}
    <3> SUFFICES ASSUME NEW m \in InTime(weight, target, All)
                 PROVE  InTime(weight, target, Tried) # {}
      OBVIOUS
    <3>1. CASE m \in Tried
      BY <3>1 DEF InTime
    <3>2. CASE m \notin Tried
      BY <1>11, <3>2
    <3> QED
      BY <3>1, <3>2
  <2> QED
    BY <1>7, <1>10, <2>1
<1>13. ASSUME best.found
       PROVE  IsCheapest(weight, each, InTime(weight, target, All),
                         best.withinTarget.parallelRunners)
  <2> DEFINE k == best.withinTarget.parallelRunners
  <2>1. /\ k \in InTime(weight, target, Tried)
        /\ \A m \in InTime(weight, target, Tried) :
             \/ Cost(weight, each, k) < Cost(weight, each, m)
             \/ Cost(weight, each, k) = Cost(weight, each, m) /\ k <= m
    BY <1>7, <1>13 DEF IsCheapest
  <2>2. k \in Tried /\ k \in All /\ k <= u
    BY <1>4, <2>1 DEF InTime
  <2> HIDE DEF k
  <2>3. ASSUME NEW m \in InTime(weight, target, All)
        PROVE  \/ Cost(weight, each, k) < Cost(weight, each, m)
               \/ Cost(weight, each, k) = Cost(weight, each, m) /\ k <= m
    <3>1. CASE m \in Tried
      <4>1. m \in InTime(weight, target, Tried)
        BY <3>1 DEF InTime
      <4> QED
        BY <2>1, <4>1
    <3>2. CASE m \notin Tried
      <4>1. m \in All /\ u \in InTime(weight, target, Tried)
        BY <1>11, <3>2
      <4>2. /\ u \in All /\ u < m /\ Cost(weight, each, u) <= Cost(weight, each, m)
        BY <1>4, <1>6, <3>2, <4>1
      <4>3. \/ Cost(weight, each, k) < Cost(weight, each, u)
            \/ Cost(weight, each, k) = Cost(weight, each, u) /\ k <= u
        BY <2>1, <4>1
      <4>4. k \in Nat /\ m \in Nat /\ u \in Nat
        BY <1>5, <2>2, <4>1, <4>2
      <4>5. /\ Cost(weight, each, k) \in Nat /\ Cost(weight, each, u) \in Nat
            /\ Cost(weight, each, m) \in Nat
        BY <1>5, <2>2, <4>1, <4>2
      <4> QED
        BY <4>2, <4>3, <4>4, <4>5
    <3> QED
      BY <3>1, <3>2
  <2>4. k \in InTime(weight, target, All)
    BY <1>10, <2>1
  <2>5. IsCheapest(weight, each, InTime(weight, target, All), k)
    BY <2>3, <2>4 DEF IsCheapest
  <2> QED
    BY <2>5 DEF k
<1> QED
  BY <1>8, <1>9, <1>12, <1>13 DEF All, each

(* The selection stays between the bounds that the user gave, when they    *)
(* make sense, never exceeds a maximum of at least one, and is a count of  *)
(* at least one whatever they are: --min-parallelism and --max-parallelism *)
(* hold, also for fewer files than the minimum.                            *)
THEOREM SelectionRespectsBounds == SizingSpec => []Sizing!SelectionWithinBounds
<1>1. SizeInv /\ BestInv => Sizing!SelectionWithinBounds
  <2> SUFFICES ASSUME SizeInv, BestInv, selected > 0 PROVE Sizing!SelectionWithinBounds
    BY DEF Sizing!SelectionWithinBounds
  <2>1. /\ TypeOK /\ min \in Int /\ max \in Int /\ next \in Nat
        /\ next <= Sizing!Upper + 1 /\ selected = Sizing!Choice.parallelRunners
    BY DEF SizeInv, BestInv
  <2>2. /\ Sizing!Lower \in Nat \ {0} /\ Sizing!Upper \in Nat /\ Top \in Nat
        /\ Sizing!Upper <= Top
    BY <2>1, LoopBounds
  <2>3. selected \in Tried
    BY <2>1 DEF BestInv, IsCheapest, IsFastest, InTime, Sizing!Choice
  <2> HIDE DEF Sizing!Lower, Sizing!Upper
  <2>4. selected \in Int /\ Sizing!Lower <= selected /\ selected <= Top
    BY <2>1, <2>2, <2>3 DEF Tried
  <2>5. 1 <= min /\ min <= max => Sizing!Lower = min
    BY <2>1 DEF Sizing!Lower
  <2>6. max >= 1 => Top = max
    BY <2>1 DEF Top
  <2> QED
    BY <2>1, <2>2, <2>4, <2>5, <2>6 DEF Sizing!SelectionWithinBounds
<1> QED
  BY <1>1, SizeInvariant, BestInvariant, PTL

(* The loop, which scores some counts and keeps the best of them, selects  *)
(* what docs/running.md says of all the counts between the bounds.         *)
THEOREM SelectionIsDocumented == SizingSpec => []SelectsWhatIsDocumented
<1>1. SizeInv /\ BestInv => SelectsWhatIsDocumented
  <2> SUFFICES ASSUME SizeInv, BestInv, selected > 0
               PROVE  selected = Sizing!Documented
    BY DEF SelectsWhatIsDocumented, Sizing!SelectsWhatIsDocumented
  <2> DEFINE All == Sizing!AllCounts
             each == Sizing!OverheadMillis
             wall(n) == Sizing!ScoreFor(n).wallTime
             cost(n) == wall(n) + n * each
             Timely == {n \in All : wall(n) <= target}
             Best(S) == CHOOSE n \in S : \A m \in S :
                          cost(n) < cost(m) \/ (cost(n) = cost(m) /\ n <= m)
             Fast(S) == CHOOSE n \in S : \A m \in S :
                          wall(n) < wall(m) \/ (wall(n) = wall(m) /\ n <= m)
  <2>1. Sizing!Documented = IF target > 0 /\ Timely # {} THEN Best(Timely)
                            ELSE IF target > 0 THEN Fast(All) ELSE Best(All)
    BY DEF Sizing!Documented, Sizing!BestOf
  <2>2. /\ TypeOK /\ min \in Int /\ max \in Int /\ overhead \in Int /\ target \in Int
        /\ next > Sizing!Upper
        /\ selected = Sizing!Choice.parallelRunners
    BY DEF SizeInv, BestInv
  <2>3. All \subseteq Nat \ {0}
    <3>1. Sizing!Lower \in Nat \ {0} /\ Top \in Nat \ {0}
      BY <2>2, LoopBounds
    <3> QED
      BY <3>1 DEF Sizing!AllCounts, Top
  <2>4. \A n \in All : /\ n \in Nat
                       /\ wall(n) = Wall(weight, n) /\ Wall(weight, n) \in Nat
                       /\ cost(n) = Cost(weight, each, n) /\ Cost(weight, each, n) \in Nat
    BY <2>2, <2>3, WallTyped, CostTyped DEF Cost
  <2>5. Timely = InTime(weight, target, All) /\ Timely \subseteq All
    BY <2>4 DEF InTime
  <2>6. /\ IsCheapest(weight, each, All, best.withoutTarget.parallelRunners)
        /\ IsFastest(weight, All, best.lowestWall.parallelRunners)
        /\ best.found <=> target > 0 /\ Timely # {}
        /\ best.found => IsCheapest(weight, each, Timely, best.withinTarget.parallelRunners)
    BY <2>2, <2>5, BestOfAll
  <2> HIDE DEF All, each, wall, cost, Timely
  <2>7. ASSUME NEW S \in SUBSET All, NEW k, IsCheapest(weight, each, S, k)
        PROVE  k = Best(S)
    <3>1. k \in S /\ \A m \in S : cost(k) < cost(m) \/ (cost(k) = cost(m) /\ k <= m)
      BY <2>4, <2>7 DEF IsCheapest
    <3>2. ASSUME NEW n \in S, \A m \in S : cost(n) < cost(m) \/ (cost(n) = cost(m) /\ n <= m)
          PROVE  n = k
      <4>1. /\ cost(n) < cost(k) \/ (cost(n) = cost(k) /\ n <= k)
            /\ cost(k) < cost(n) \/ (cost(k) = cost(n) /\ k <= n)
        BY <3>1, <3>2
      <4>2. cost(n) \in Nat /\ cost(k) \in Nat /\ n \in Nat /\ k \in Nat
        BY <2>4, <3>1
      <4> QED
        BY <4>1, <4>2
    <3> QED
      BY <3>1, <3>2
  <2>8. ASSUME NEW k, IsFastest(weight, All, k)
        PROVE  k = Fast(All)
    <3>1. k \in All /\ \A m \in All : wall(k) < wall(m) \/ (wall(k) = wall(m) /\ k <= m)
      BY <2>4, <2>8 DEF IsFastest
    <3>2. ASSUME NEW n \in All, \A m \in All : wall(n) < wall(m) \/ (wall(n) = wall(m) /\ n <= m)
          PROVE  n = k
      <4>1. /\ wall(n) < wall(k) \/ (wall(n) = wall(k) /\ n <= k)
            /\ wall(k) < wall(n) \/ (wall(k) = wall(n) /\ k <= n)
        BY <3>1, <3>2
      <4>2. wall(n) \in Nat /\ wall(k) \in Nat /\ n \in Nat /\ k \in Nat
        BY <2>4, <3>1
      <4> QED
        BY <4>1, <4>2
    <3> QED
      BY <3>1, <3>2
  <2>9. CASE best.found
    <3>1. selected = best.withinTarget.parallelRunners
      BY <2>2, <2>9 DEF Sizing!Choice
    <3> QED
      BY <2>1, <2>5, <2>6, <2>7, <2>9, <3>1
  <2>10. CASE ~ best.found /\ target <= 0
    <3>1. selected = best.withoutTarget.parallelRunners
      BY <2>2, <2>10 DEF Sizing!Choice
    <3>2. ~ (target > 0)
      BY <2>2, <2>10
    <3> QED
      BY <2>1, <2>6, <2>7, <3>1, <3>2
  <2>11. CASE ~ best.found /\ ~ (target <= 0)
    <3>1. selected = best.lowestWall.parallelRunners
      BY <2>2, <2>11 DEF Sizing!Choice
    <3>2. target > 0
      BY <2>2, <2>11
    <3> QED
      BY <2>1, <2>6, <2>8, <2>11, <3>1, <3>2
  <2> QED
    BY <2>9, <2>10, <2>11
<1> QED
  BY <1>1, SizeInvariant, BestInvariant, PTL

-----------------------------------------------------------------------------
(* The split and the best one.                                             *)

(* Some assignment attains the optimum.                                    *)
LEMMA OptimumIsAttained ==
  ASSUME TypeOK
  PROVE  /\ OptimalWallTime \in Nat
         /\ \E o \in [Runnable -> Runners] :
              \A r \in Runners : SumOver(weight, Given(o, Runnable, r)) <= OptimalWallTime
<1> DEFINE Loads(a) == [r \in Runners |-> SumOver(weight, Given(a, Runnable, r))]
           Slowest(a) == Max({SumOver(weight, Given(a, Runnable, r)) : r \in Runners})
           All == {Slowest(a) : a \in [Runnable -> Runners]}
<1>1. OptimalWallTime = Min(All)
  BY DEF OptimalWallTime, SumOver, Given
<1>2. runners \in Nat \ {0} /\ Runners = RunnerIndices(runners) /\ 0 \in Runners
  BY DEF TypeOK, Runners, RunnerIndices
<1>3. Weighing(weight, Runnable)
  BY WeightsAreWeighted, WeightedWeighs DEF Runnable
<1>4. ASSUME NEW a
      PROVE  /\ Slowest(a) \in Nat
             /\ \A r \in Runners : SumOver(weight, Given(a, Runnable, r)) <= Slowest(a)
  <2>1. \A r : SumOver(weight, Given(a, Runnable, r)) \in Nat
    <3>1. \A r : Given(a, Runnable, r) \in SUBSET Runnable
      BY DEF Given
    <3> QED
      BY <1>3, <3>1, WeighingPart, SumTyped
  <2>2. Loads(a) \in [RunnerIndices(runners) -> Nat]
    BY <1>2, <2>1
  <2>3. Slowest(a) = WallTime(Loads(a))
    <3>1. {Loads(a)[r] : r \in DOMAIN Loads(a)}
            = {SumOver(weight, Given(a, Runnable, r)) : r \in Runners}
      OBVIOUS
    <3> QED
      BY <3>1 DEF WallTime
  <2>4. \A r \in Runners : Loads(a)[r] = SumOver(weight, Given(a, Runnable, r))
    OBVIOUS
  <2> HIDE DEF Loads, Slowest
  <2> QED
    BY <1>2, <2>2, <2>3, <2>4, WallTimeIsSlowest
<1> HIDE DEF Slowest
<1>5. All \in SUBSET Nat /\ All # {}
  <2>1. [f \in Runnable |-> 0] \in [Runnable -> Runners]
    BY <1>2
  <2> QED
    BY <1>4, <2>1
<1>6. Min(All) \in All
  <2> HIDE DEF All
  <2>1. \E m \in All : \A k \in All : m <= k
    BY <1>5, LeastNumber
  <2> QED
    BY <2>1 DEF Min
<1> QED
  BY <1>1, <1>4, <1>5, <1>6

LEMMA BuiltIsNearOptimal == TypeOK /\ (LoopInv \/ Copied) => NearOptimal
<1> SUFFICES ASSUME TypeOK, LoopInv \/ Copied, pending = {} PROVE NearOptimal
  BY DEF NearOptimal
<1>1. LoopInv => Build(weight, runners) = [load |-> load, result |-> result]
  BY WeightsAreWeighted DEF LoopInv
<1>2. Build(weight, runners).load = load
  BY <1>1 DEF Copied
<1>3. Score(load).wallTime = WallTime(Build(weight, runners).load)
  BY <1>2, ScoreTells
<1>4. /\ Weighted(weight) /\ runners \in Nat \ {0}
      /\ Runners = RunnerIndices(runners) /\ Runnable = DOMAIN weight
  BY WeightsAreWeighted DEF TypeOK, Runners, Runnable
<1>5. 3 * runners * WallTime(Build(weight, runners).load) <= (4 * runners - 1) * OptimalWallTime
  BY <1>4, OptimumIsAttained, BuildIsNearOptimal
<1> QED
  BY <1>1, <1>3, <1>5 DEF NearOptimal, Copied

(* A split needs at most 4/3 - 1/(3n) of the time of the best split of the *)
(* same files between n runners.                                           *)
THEOREM SplitIsNearOptimal == Spec => []NearOptimal
<1>1. Init => LoopInv
  BY InitTypeOK, NewBuilderLoop DEF Init
<1>2. TypeOK /\ LoopInv /\ [Next]_vars => LoopInv'
  <2> SUFFICES ASSUME TypeOK, LoopInv, [Next]_vars PROVE LoopInv'
    OBVIOUS
  <2>1. CASE UNCHANGED vars
    BY <2>1 DEF vars, LoopInv, Runnable
  <2> QED
    BY <2>1, AddFileLoop DEF Next
<1> QED
  BY <1>1, <1>2, TypeCorrect, BuiltIsNearOptimal, PTL DEF Spec

-----------------------------------------------------------------------------
(* What is true of the loop is true of the split that a plan is made with. *)

SplitInv == ExactlyOnce /\ ((BalanceInv /\ LoopInv) \/ Copied)

(* A new builder has nothing to be wrong about.                            *)
LEMMA NewBuilderSplit ==
  TypeOK /\ load = EmptyBuilder(runners).load /\ result = EmptyBuilder(runners).result
    /\ pending = Runnable => SplitInv
<1> SUFFICES ASSUME TypeOK, load = EmptyBuilder(runners).load,
                    result = EmptyBuilder(runners).result, pending = Runnable
             PROVE  SplitInv
  OBVIOUS
<1>1. \A r \in Runners : load[r] = 0 /\ result[r] = <<>>
  BY DEF EmptyBuilder, Runners
<1>2. ExactlyOnce
  BY <1>1 DEF ExactlyOnce
<1>3. BalanceInv
  BY <1>1 DEF BalanceInv, GreedyBalance
<1> QED
  BY <1>2, <1>3, NewBuilderLoop DEF SplitInv

LEMMA SameBuilderSplit ==
  SplitInv /\ weight' = weight /\ UNCHANGED builder => SplitInv'
BY DEF SplitInv, builder, ExactlyOnce, BalanceInv, GreedyBalance, LoopInv, Copied, LastOf, Runners,
       Runnable

LEMMA SplitInitInv == SizingInit => SplitInv
<1> SUFFICES ASSUME SizingInit PROVE SplitInv
  OBVIOUS
<1>1. TypeOK
  BY SizeInit DEF SizeInv
<1> QED
  BY <1>1, NewBuilderSplit DEF SizingInit

LEMMA SplitStep == TypeOK /\ TypeOK' /\ SplitInv /\ [SizingNext]_sizingVars => SplitInv'
<1> SUFFICES ASSUME TypeOK, TypeOK', SplitInv, [SizingNext]_sizingVars PROVE SplitInv'
  OBVIOUS
<1>1. CASE SelectCount
  <2>1. weight' = weight /\ UNCHANGED builder
    BY <1>1 DEF SelectCount, Sizing!Next, Sizing!Consider, Sizing!Select
  <2> QED
    BY <2>1, SameBuilderSplit
<1>2. CASE CreateTestSplits /\ selected > 1
  <2>1. /\ load' = EmptyBuilder(runners').load /\ result' = EmptyBuilder(runners').result
        /\ pending' = Runnable'
    BY <1>2 DEF CreateTestSplits, NewBuilder, Runnable
  <2>2. (TypeOK /\ load = EmptyBuilder(runners).load /\ result = EmptyBuilder(runners).result
           /\ pending = Runnable => SplitInv)'
    BY NewBuilderSplit, PTL
  <2> QED
    BY <2>1, <2>2 DEF EmptyBuilder
<1>3. CASE CreateTestSplits /\ ~ (selected > 1)
  <2>1. CopyTestFiles /\ weight' = weight
    BY <1>3 DEF CreateTestSplits
  <2> QED
    BY <2>1, CopyEffect DEF SplitInv
<1>4. CASE SplitNext
  <2>1. PICK f \in Runnable, r \in Runners : AddFile(f, r)
    BY <1>4 DEF SplitNext, Next
  <2>2. BalanceInv /\ LoopInv
    BY <2>1 DEF SplitInv, Copied, AddFile
  <2> QED
    BY <2>1, <2>2, NextExactlyOnce, NextBalance, AddFileLoop DEF SplitInv
<1>5. CASE UNCHANGED sizingVars
  BY <1>5, SameBuilderSplit DEF sizingVars
<1> QED
  BY <1>1, <1>2, <1>3, <1>4, <1>5 DEF SizingNext

LEMMA SplitInvariant == SizingSpec => [](TypeOK /\ SplitInv)
<1>1. SizeInv => TypeOK
  BY DEF SizeInv
<1> QED
  BY <1>1, SizeInvariant, SplitInitInv, SplitStep, PTL DEF SizingSpec

(* Whatever count the planner selects, its split holds every file exactly  *)
(* once, leaves no runner idle needlessly and is close to the best split.  *)
THEOREM PlannedSplit == SizingSpec => [](ExactlyOnce /\ NoIdleRunner /\ NearOptimal)
<1>1. TypeOK /\ SplitInv => ExactlyOnce /\ NoIdleRunner /\ NearOptimal
  <2>1. TypeOK /\ Copied => NoIdleRunner
    BY DEF Copied, NoIdleRunner, TypeOK, Runners, RunnerIndices
  <2> QED
    BY <2>1, BusyIfTwo, BuiltIsNearOptimal DEF SplitInv
<1> QED
  BY <1>1, SplitInvariant, PTL
=============================================================================
