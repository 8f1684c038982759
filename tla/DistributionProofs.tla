------------------------- MODULE DistributionProofs -------------------------
(***************************************************************************)
(* Proofs about Distribution: the loop that distributes files is defined   *)
(* for any weights, its outcome holds every file exactly once, more runners*)
(* than files do not help, and no assignment of the files is faster by more*)
(* than the classical factor 4/3 - 1/(3n).  What is true of every set of   *)
(* files is proved from a smallest set of files for which it would be      *)
(* false.                                                                  *)
(***************************************************************************)
EXTENDS Distribution, FiniteSetTheorems, WellFoundedInduction, TLAPS

(* Among sets of subsets of a finite set, one has no smaller one beside it.*)
LEMMA MinimalSet ==
  ASSUME NEW D, IsFiniteSet(D), NEW F \in SUBSET SUBSET D, F # {}
  PROVE  \E A \in F : \A B \in F : B \subseteq A => B = A
<1>1. IsWellFoundedOn(StrictSubsetOrdering(D), SUBSET D)
  BY FS_StrictSubsetOrderingWellFounded, FS_FiniteSubsetsOfFinite
<1>2. \E A \in F : \A B \in F : ~ (<<B, A>> \in StrictSubsetOrdering(D))
  BY <1>1, WFMin
<1> QED
  BY <1>2 DEF StrictSubsetOrdering

-----------------------------------------------------------------------------

(* The files of a list and their weights.                                  *)
Weighted(w) == DOMAIN w \subseteq Files /\ w \in [DOMAIN w -> Nat]

LEMMA WeightedFinite ==
  ASSUME NEW w, Weighted(w)
  PROVE  IsFiniteSet(DOMAIN w) /\ Cardinality(DOMAIN w) \in Nat
BY FilesAssumption, FS_Subset, FS_CardinalityType DEF Weighted

(* Precedes is a strict total order.                                       *)
LEMMA PrecedesOrders ==
  ASSUME NEW w, Weighted(w)
  PROVE  /\ \A f \in DOMAIN w : ~ Precedes(w, f, f)
         /\ \A f, g \in DOMAIN w : f # g => Precedes(w, f, g) \/ Precedes(w, g, f)
         /\ \A f, g, h \in DOMAIN w :
              Precedes(w, f, g) /\ Precedes(w, g, h) => Precedes(w, f, h)
<1>1. \A f \in DOMAIN w : f \in Nat /\ w[f] \in Nat
  BY FilesAssumption DEF Weighted
<1> QED
  BY <1>1 DEF Precedes

IsLast(w, S, f) == f \in S /\ \A g \in S \ {f} : Precedes(w, g, f)

(* Every list of files has a last one.                                     *)
LEMMA LastExists ==
  ASSUME NEW w, Weighted(w), NEW S \in SUBSET DOMAIN w, S # {}
  PROVE  IsLast(w, S, LastFile(w, S))
<1> DEFINE Bad == {T \in SUBSET DOMAIN w : T # {} /\ ~ \E f \in T : IsLast(w, T, f)}
<1>1. Bad = {}
  <2> SUFFICES ASSUME Bad # {} PROVE FALSE
    OBVIOUS
  <2>1. IsFiniteSet(DOMAIN w) /\ Bad \in SUBSET SUBSET DOMAIN w
    BY FilesAssumption, FS_Subset DEF Weighted
  <2> HIDE DEF Bad
  <2>2. PICK T \in Bad : \A B \in Bad : B \subseteq T => B = T
    BY <2>1, MinimalSet
  <2> USE DEF Bad
  <2>3. PICK f \in T : TRUE
    OBVIOUS
  <2>4. CASE T = {f}
    BY <2>4 DEF IsLast
  <2>5. CASE T # {f}
    <3>1. T \ {f} \notin Bad /\ T \ {f} \in SUBSET DOMAIN w /\ T \ {f} # {}
      BY <2>2, <2>3, <2>5
    <3>2. PICK g \in T \ {f} : IsLast(w, T \ {f}, g)
      BY <3>1
    <3>3. CASE Precedes(w, f, g)
      BY <3>2, <3>3 DEF IsLast
    <3>4. CASE ~ Precedes(w, f, g)
      <4>1. f \in DOMAIN w /\ g \in DOMAIN w /\ f # g /\ T \subseteq DOMAIN w
        BY <2>3, <3>2
      <4>2. Precedes(w, g, f)
        BY <3>4, <4>1, PrecedesOrders
      <4>3. \A h \in T \ {f} : Precedes(w, h, f)
        BY <3>2, <4>1, <4>2, PrecedesOrders DEF IsLast
      <4> QED
        BY <2>3, <4>3 DEF IsLast
    <3> QED
      BY <3>3, <3>4
  <2> QED
    BY <2>4, <2>5
<1>2. PICK f \in S : IsLast(w, S, f)
  BY <1>1
<1> QED
  BY <1>2 DEF IsLast, LastFile

(* A list of files has one last file.                                      *)
LEMMA LastIsUnique ==
  ASSUME NEW w, Weighted(w), NEW S \in SUBSET DOMAIN w, NEW f, IsLast(w, S, f)
  PROVE  LastFile(w, S) = f
<1>1. IsLast(w, S, LastFile(w, S))
  BY LastExists DEF IsLast
<1> QED
  BY <1>1, PrecedesOrders DEF IsLast

-----------------------------------------------------------------------------

(* What the loop makes of the builder b, reaching file f.                  *)
Pass(w, b, f) == GiveTo(b, CHOOSE r \in DOMAIN b.load : IsLightest(b.load, r), f, w[f])

(* The loop over the files of D: h[S] is the builder when it has passed S. *)
IsLoop(w, n, D, h) ==
  h = [S \in SUBSET D |->
         IF S = {} THEN EmptyBuilder(NormalizedRunners(n))
         ELSE Pass(w, h[S \ {LastFile(w, S)}], LastFile(w, S))]

(* The loop ends whatever the files: the recursion of Build is well        *)
(* founded.                                                                *)
LEMMA LoopExists ==
  ASSUME NEW w, Weighted(w), NEW n, NEW D \in SUBSET DOMAIN w
  PROVE  \E h : IsLoop(w, n, D, h)
<1> DEFINE Bad == {T \in SUBSET DOMAIN w : ~ \E h : IsLoop(w, n, T, h)}
<1>1. ASSUME Bad # {} PROVE FALSE
  <2>1. IsFiniteSet(DOMAIN w) /\ Bad \in SUBSET SUBSET DOMAIN w
    BY FilesAssumption, FS_Subset DEF Weighted
  <2> HIDE DEF Bad
  <2>2. PICK T \in Bad : \A B \in Bad : B \subseteq T => B = T
    BY <1>1, <2>1, MinimalSet
  <2> USE DEF Bad
  <2>3. CASE T = {}
    <3> DEFINE e == [S \in SUBSET {} |-> EmptyBuilder(NormalizedRunners(n))]
    <3>1. \A S \in SUBSET {} : S = {}
      OBVIOUS
    <3>2. IsLoop(w, n, {}, e)
      BY <3>1 DEF IsLoop
    <3> QED
      BY <2>3, <3>2
  <2>4. CASE T # {}
    <3> DEFINE f == LastFile(w, T)
               R == T \ {f}
    <3>1. IsLast(w, T, f) /\ f \in T /\ T \subseteq DOMAIN w
      BY <2>4, LastExists DEF IsLast
    <3>2. R \notin Bad /\ R \in SUBSET DOMAIN w
      BY <2>2, <3>1
    <3>3. PICK h : IsLoop(w, n, R, h)
      BY <3>2
    <3> DEFINE k == [S \in SUBSET T |-> IF f \in S THEN Pass(w, h[S \ {f}], f) ELSE h[S]]
    <3>4. ASSUME NEW S \in SUBSET T, f \in S
          PROVE  LastFile(w, S) = f
      <4>1. IsLast(w, S, f) /\ S \in SUBSET DOMAIN w
        BY <3>1, <3>4 DEF IsLast
      <4> QED
        BY <4>1, LastIsUnique
    <3> HIDE DEF f
    <3>5. ASSUME NEW S \in SUBSET T
          PROVE  k[S] = IF S = {} THEN EmptyBuilder(NormalizedRunners(n))
                        ELSE Pass(w, k[S \ {LastFile(w, S)}], LastFile(w, S))
      <4>1. CASE f \in S
        <5>1. k[S \ {f}] = h[S \ {f}] /\ k[S] = Pass(w, h[S \ {f}], f)
          BY <4>1
        <5> QED
          BY <3>4, <4>1, <5>1
      <4>2. CASE f \notin S
        <5>1. S \in SUBSET R /\ k[S] = h[S]
          BY <4>2
        <5>2. h[S] = IF S = {} THEN EmptyBuilder(NormalizedRunners(n))
                     ELSE Pass(w, h[S \ {LastFile(w, S)}], LastFile(w, S))
          BY <3>3, <5>1 DEF IsLoop
        <5>3. k[S \ {LastFile(w, S)}] = h[S \ {LastFile(w, S)}]
          BY <4>2
        <5> QED
          BY <5>1, <5>2, <5>3
      <4> QED
        BY <4>1, <4>2
    <3> HIDE DEF k
    <3>6. k = [S \in SUBSET T |-> k[S]]
      BY DEF k
    <3>7. IsLoop(w, n, T, k)
      BY <3>5, <3>6 DEF IsLoop
    <3> QED
      BY <3>7
  <2> QED
    BY <2>3, <2>4
<1> QED
  BY <1>1

(* Build is the last value of the loop.                                    *)
LEMMA BuildIsLoop ==
  ASSUME NEW w, Weighted(w), NEW n
  PROVE  \E h : IsLoop(w, n, DOMAIN w, h) /\ Build(w, n) = h[DOMAIN w]
<1>1. \E h : IsLoop(w, n, DOMAIN w, h)
  BY LoopExists
<1>2. Build(w, n) = (CHOOSE h : IsLoop(w, n, DOMAIN w, h))[DOMAIN w]
  BY DEF Build, IsLoop, Pass
<1> QED
  BY <1>1, <1>2

-----------------------------------------------------------------------------

(* Among numbers, one is least.                                            *)
LEMMA LeastNumber ==
  ASSUME NEW T \in SUBSET Nat, T # {}
  PROVE  \E m \in T : \A k \in T : m <= k
<1>1. PICK m \in T : \A k \in T : ~ (<<k, m>> \in OpToRel(<, Nat))
  BY NatLessThanWellFounded, WFMin
<1>2. ASSUME NEW k \in T PROVE m <= k
  <2>1. ~ (<<k, m>> \in {ss \in Nat \X Nat : ss[1] < ss[2]})
    BY <1>1 DEF OpToRel
  <2> QED
    BY <2>1
<1> QED
  BY <1>2

(* The heap has a top: a runner of the least load with the lowest index.   *)
LEMMA LightestExists ==
  ASSUME NEW N \in Nat \ {0}, NEW load \in [RunnerIndices(N) -> Nat]
  PROVE  /\ (CHOOSE r \in DOMAIN load : IsLightest(load, r)) \in RunnerIndices(N)
         /\ IsLightest(load, CHOOSE r \in DOMAIN load : IsLightest(load, r))
<1> DEFINE Loads == {load[r] : r \in RunnerIndices(N)}
<1>1. RunnerIndices(N) \subseteq Nat /\ 0 \in RunnerIndices(N) /\ DOMAIN load = RunnerIndices(N)
  BY DEF RunnerIndices
<1>2. Loads \in SUBSET Nat /\ Loads # {}
  BY <1>1
<1>3. PICK m \in Loads : \A k \in Loads : m <= k
  BY <1>2, LeastNumber
<1> DEFINE Tops == {r \in RunnerIndices(N) : load[r] = m}
<1>4. Tops \in SUBSET Nat /\ Tops # {}
  BY <1>1
<1>5. PICK r \in Tops : \A s \in Tops : r <= s
  BY <1>4, LeastNumber
<1>6. ASSUME NEW s \in RunnerIndices(N)
      PROVE  load[r] < load[s] \/ (load[r] = load[s] /\ r <= s)
  <2>1. load[r] <= load[s] /\ load[r] \in Nat /\ load[s] \in Nat
    BY <1>3
  <2> QED
    BY <1>5, <2>1
<1>7. r \in DOMAIN load /\ IsLightest(load, r)
  BY <1>1, <1>6 DEF IsLightest
<1> QED
  BY <1>1, <1>7

(* A builder of N runners that holds every file of S at one place.         *)
Holds(b, S, N) ==
  /\ b.load \in [RunnerIndices(N) -> Nat]
  /\ b.result \in [RunnerIndices(N) -> Seq(S)]
  /\ \A f \in S : \E r \in RunnerIndices(N) :
       \E i \in 1 .. Len(b.result[r]) : b.result[r][i] = f
  /\ \A r, s \in RunnerIndices(N) :
       \A i \in 1 .. Len(b.result[r]), j \in 1 .. Len(b.result[s]) :
         b.result[r][i] = b.result[s][j] => r = s /\ i = j

(* The loop body gives its file to one runner.                             *)
LEMMA PassHolds ==
  ASSUME NEW w, Weighted(w), NEW S \in SUBSET DOMAIN w, NEW f \in S,
         NEW N \in Nat \ {0}, NEW b, Holds(b, S \ {f}, N)
  PROVE  Holds(Pass(w, b, f), S, N)
<1> DEFINE r == CHOOSE s \in DOMAIN b.load : IsLightest(b.load, s)
           c == Pass(w, b, f)
<1>1. r \in RunnerIndices(N)
  BY LightestExists DEF Holds
<1>2. /\ c.load = [b.load EXCEPT ![r] = @ + w[f]]
      /\ c.result = [b.result EXCEPT ![r] = Append(@, f)]
  BY DEF Pass, GiveTo
<1> HIDE DEF r, c
<1>3. w[f] \in Nat
  BY DEF Weighted
<1>4. c.load \in [RunnerIndices(N) -> Nat]
  BY <1>1, <1>2, <1>3 DEF Holds
<1>5. /\ b.result \in [RunnerIndices(N) -> Seq(S)]
      /\ b.result[r] \in Seq(S \ {f}) /\ b.result[r] \in Seq(S)
  <2>1. \A s \in RunnerIndices(N) : b.result[s] \in Seq(S \ {f})
    BY DEF Holds
  <2>2. \A s \in RunnerIndices(N) : b.result[s] \in Seq(S)
    BY <2>1
  <2> QED
    BY <1>1, <2>1, <2>2 DEF Holds
<1>6. /\ Append(b.result[r], f) \in Seq(S) /\ Len(b.result[r]) \in Nat
      /\ Len(Append(b.result[r], f)) = Len(b.result[r]) + 1
      /\ Append(b.result[r], f)[Len(b.result[r]) + 1] = f
      /\ \A i \in 1 .. Len(b.result[r]) : Append(b.result[r], f)[i] = b.result[r][i]
  BY <1>5
<1>7. c.result \in [RunnerIndices(N) -> Seq(S)]
  BY <1>1, <1>2, <1>5, <1>6
<1>8. /\ c.result[r] = Append(b.result[r], f)
      /\ \A s \in RunnerIndices(N) : s # r => c.result[s] = b.result[s]
  BY <1>1, <1>2, <1>5
<1>9. ASSUME NEW s \in RunnerIndices(N), NEW i \in 1 .. Len(c.result[s])
      PROVE  \/ s = r /\ i = Len(b.result[r]) + 1 /\ c.result[s][i] = f
             \/ /\ i \in 1 .. Len(b.result[s])
                /\ c.result[s][i] = b.result[s][i]
                /\ c.result[s][i] # f
  <2>1. ASSUME NEW k \in 1 .. Len(b.result[s])
        PROVE  b.result[s][k] # f
    <3>1. b.result[s] \in Seq(S \ {f})
      BY DEF Holds
    <3> QED
      BY <3>1
  <2>2. CASE s # r
    BY <1>8, <2>1, <2>2
  <2>3. CASE s = r /\ i = Len(b.result[r]) + 1
    BY <1>6, <1>8, <2>3
  <2>4. CASE s = r /\ i # Len(b.result[r]) + 1
    <3>1. i \in 1 .. Len(b.result[r])
      BY <1>6, <1>8, <2>4
    <3> QED
      BY <1>6, <1>8, <2>1, <2>4, <3>1
  <2> QED
    BY <2>2, <2>3, <2>4
<1>10. ASSUME NEW g \in S
       PROVE  \E s \in RunnerIndices(N) : \E i \in 1 .. Len(c.result[s]) : c.result[s][i] = g
  <2>1. CASE g = f
    <3>1. Len(b.result[r]) + 1 \in 1 .. Len(c.result[r])
      BY <1>6, <1>8
    <3> QED
      BY <1>1, <1>6, <1>8, <2>1, <3>1
  <2>2. CASE g # f
    <3>1. PICK s \in RunnerIndices(N) : \E i \in 1 .. Len(b.result[s]) : b.result[s][i] = g
      BY <2>2 DEF Holds
    <3>2. PICK i \in 1 .. Len(b.result[s]) : b.result[s][i] = g
      BY <3>1
    <3>3. i \in 1 .. Len(c.result[s]) /\ c.result[s][i] = g
      BY <1>6, <1>8, <3>2
    <3> QED
      BY <3>3
  <2> QED
    BY <2>1, <2>2
<1>11. ASSUME NEW s \in RunnerIndices(N), NEW t \in RunnerIndices(N),
              NEW i \in 1 .. Len(c.result[s]), NEW j \in 1 .. Len(c.result[t]),
              c.result[s][i] = c.result[t][j]
       PROVE  s = t /\ i = j
  <2>1. CASE c.result[s][i] = f
    <3>1. s = r /\ i = Len(b.result[r]) + 1
      BY <1>9, <2>1
    <3>2. t = r /\ j = Len(b.result[r]) + 1
      BY <1>9, <1>11, <2>1
    <3> QED
      BY <3>1, <3>2
  <2>2. CASE c.result[s][i] # f
    <3>1. /\ i \in 1 .. Len(b.result[s]) /\ c.result[s][i] = b.result[s][i]
          /\ j \in 1 .. Len(b.result[t]) /\ c.result[t][j] = b.result[t][j]
      BY <1>9, <1>11, <2>2
    <3>2. b.result[s][i] = b.result[t][j]
      BY <1>11, <3>1
    <3> QED
      BY <3>1, <3>2 DEF Holds
  <2> QED
    BY <2>1, <2>2
<1>12. Holds(c, S, N)
  BY <1>4, <1>7, <1>10, <1>11 DEF Holds
<1> QED
  BY <1>12 DEF c

(* Whatever part of the files the loop has passed is in the builder.       *)
LEMMA LoopHolds ==
  ASSUME NEW w, Weighted(w), NEW n \in Int, NEW h, IsLoop(w, n, DOMAIN w, h),
         NEW S \in SUBSET DOMAIN w
  PROVE  Holds(h[S], S, NormalizedRunners(n))
<1> DEFINE N == NormalizedRunners(n)
           Bad == {T \in SUBSET DOMAIN w : ~ Holds(h[T], T, N)}
<1>0. N \in Nat \ {0}
  BY DEF NormalizedRunners
<1> HIDE DEF N
<1>1. ASSUME Bad # {} PROVE FALSE
  <2>1. IsFiniteSet(DOMAIN w) /\ Bad \in SUBSET SUBSET DOMAIN w
    BY FilesAssumption, FS_Subset DEF Weighted
  <2> HIDE DEF Bad
  <2>2. PICK T \in Bad : \A B \in Bad : B \subseteq T => B = T
    BY <1>1, <2>1, MinimalSet
  <2> USE DEF Bad
  <2>3. CASE T = {}
    <3>1. h[T] = EmptyBuilder(N)
      BY <2>3 DEF IsLoop, N
    <3>2. Holds(EmptyBuilder(N), {}, N)
      BY <1>0 DEF Holds, EmptyBuilder
    <3> QED
      BY <2>3, <3>1, <3>2
  <2>4. CASE T # {}
    <3> DEFINE f == LastFile(w, T)
    <3>1. f \in T /\ T \in SUBSET DOMAIN w
      BY <2>4, LastExists DEF IsLast
    <3>2. h[T] = Pass(w, h[T \ {f}], f)
      BY <2>4 DEF IsLoop
    <3> HIDE DEF f
    <3>3. Holds(h[T \ {f}], T \ {f}, N)
      BY <2>2, <3>1
    <3> QED
      BY <1>0, <3>1, <3>2, <3>3, PassHolds
  <2> QED
    BY <2>3, <2>4
<1> QED
  BY <1>1 DEF N

(* A split holds every file at one place of one runner's list, whatever    *)
(* the weights and the number of runners that was asked for.               *)
THEOREM BuildHolds ==
  ASSUME NEW w, Weighted(w), NEW n \in Int
  PROVE  Holds(Build(w, n), DOMAIN w, NormalizedRunners(n))
BY BuildIsLoop, LoopHolds

-----------------------------------------------------------------------------
(* The wall time of a split.                                               *)

(* One runner is the slowest.                                              *)
LEMMA SlowestExists ==
  ASSUME NEW N \in Nat \ {0}, NEW load \in [RunnerIndices(N) -> Nat]
  PROVE  \E r \in RunnerIndices(N) : \A s \in RunnerIndices(N) : load[s] <= load[r]
<1> DEFINE D == RunnerIndices(N)
           Bad == {T \in SUBSET D : T # {} /\ ~ \E r \in T : \A s \in T : load[s] <= load[r]}
<1>1. IsFiniteSet(D) /\ 0 \in D
  BY FS_Interval DEF RunnerIndices
<1> HIDE DEF D
<1>2. ASSUME Bad # {} PROVE FALSE
  <2> HIDE DEF Bad
  <2>1. Bad \in SUBSET SUBSET D
    BY DEF Bad
  <2>2. PICK T \in Bad : \A B \in Bad : B \subseteq T => B = T
    BY <1>1, <1>2, <2>1, MinimalSet
  <2> USE DEF Bad
  <2>3. PICK r \in T : TRUE
    OBVIOUS
  <2>4. \A t \in T : load[t] \in Nat
    BY DEF D
  <2>5. CASE T = {r}
    BY <2>4, <2>5
  <2>6. CASE T # {r}
    <3>1. T \ {r} \notin Bad /\ T \ {r} \in SUBSET D /\ T \ {r} # {}
      BY <2>2, <2>3, <2>6
    <3>2. PICK t \in T \ {r} : \A s \in T \ {r} : load[s] <= load[t]
      BY <3>1
    <3>3. CASE load[r] <= load[t]
      BY <3>2, <3>3
    <3>4. CASE ~ (load[r] <= load[t])
      BY <2>4, <3>2, <3>4
    <3> QED
      BY <3>3, <3>4
  <2> QED
    BY <2>5, <2>6
<1>3. D \notin Bad
  BY <1>2
<1> QED
  BY <1>1, <1>3 DEF D

WallTime(load) == Max({load[r] : r \in DOMAIN load})

LEMMA ScoreTells == ASSUME NEW load PROVE Score(load).wallTime = WallTime(load)
BY DEF Score, WallTime

(* Max finds it.                                                           *)
LEMMA WallTimeIsSlowest ==
  ASSUME NEW N \in Nat \ {0}, NEW load \in [RunnerIndices(N) -> Nat]
  PROVE  /\ WallTime(load) \in Nat
         /\ \E r \in RunnerIndices(N) : WallTime(load) = load[r]
         /\ \A r \in RunnerIndices(N) : load[r] <= WallTime(load)
<1> DEFINE S == {load[r] : r \in DOMAIN load}
<1>1. PICK r \in RunnerIndices(N) : \A s \in RunnerIndices(N) : load[s] <= load[r]
  BY SlowestExists
<1>2. S \subseteq Nat /\ load[r] \in S /\ DOMAIN load = RunnerIndices(N)
  OBVIOUS
<1>3. \A y \in S : load[r] >= y
  BY <1>1, <1>2
<1>4. Max(S) \in S /\ \A y \in S : Max(S) >= y
  <2> HIDE DEF S
  <2> QED
    BY <1>2, <1>3 DEF Max
<1> QED
  BY <1>2, <1>4 DEF WallTime

(* A runner needs at least the time of each of its files.                  *)
Carries(w, b, N) ==
  \A r \in RunnerIndices(N) : \A i \in 1 .. Len(b.result[r]) : w[b.result[r][i]] <= b.load[r]

(* No runner has two files.                                                *)
Alone(w, b, N) ==
  \A r \in RunnerIndices(N) :
    \/ b.result[r] = <<>> /\ b.load[r] = 0
    \/ Len(b.result[r]) = 1 /\ b.load[r] = w[b.result[r][1]]

LEMMA PassCarries ==
  ASSUME NEW w, Weighted(w), NEW S \in SUBSET DOMAIN w, NEW f \in S,
         NEW N \in Nat \ {0}, NEW b, Holds(b, S \ {f}, N), Carries(w, b, N)
  PROVE  Carries(w, Pass(w, b, f), N)
<1> DEFINE r == CHOOSE s \in DOMAIN b.load : IsLightest(b.load, s)
           c == Pass(w, b, f)
<1>1. r \in RunnerIndices(N)
  BY LightestExists DEF Holds
<1>2. /\ c.load = [b.load EXCEPT ![r] = @ + w[f]]
      /\ c.result = [b.result EXCEPT ![r] = Append(@, f)]
  BY DEF Pass, GiveTo
<1> HIDE DEF r, c
<1>3. w[f] \in Nat /\ \A g \in S : w[g] \in Nat
  BY DEF Weighted
<1>4. b.load \in [RunnerIndices(N) -> Nat] /\ b.result \in [RunnerIndices(N) -> Seq(S \ {f})]
  BY DEF Holds
<1>5. ASSUME NEW s \in RunnerIndices(N), NEW i \in 1 .. Len(c.result[s])
      PROVE  w[c.result[s][i]] <= c.load[s]
  <2>1. CASE s # r
    BY <1>1, <1>2, <1>4, <2>1 DEF Carries
  <2>2. CASE s = r
    <3>1. c.load[s] = b.load[s] + w[f] /\ c.result[s] = Append(b.result[s], f)
          /\ b.load[s] \in Nat /\ b.result[s] \in Seq(S \ {f})
      BY <1>1, <1>2, <1>4, <2>2
    <3>2. CASE i = Len(b.result[s]) + 1
      BY <1>3, <3>1, <3>2
    <3>3. CASE i # Len(b.result[s]) + 1
      <4>1. i \in 1 .. Len(b.result[s]) /\ c.result[s][i] = b.result[s][i]
        BY <3>1, <3>3
      <4>2. w[b.result[s][i]] <= b.load[s] /\ w[b.result[s][i]] \in Nat
        BY <1>3, <3>1, <4>1 DEF Carries
      <4>3. b.load[s] <= c.load[s] /\ c.load[s] \in Nat
        BY <1>3, <3>1
      <4>4. \A x, y, z \in Nat : x <= y /\ y <= z => x <= z
        OBVIOUS
      <4> QED
        BY <3>1, <4>1, <4>2, <4>3, <4>4
    <3> QED
      BY <3>2, <3>3
  <2> QED
    BY <2>1, <2>2
<1>6. Carries(w, c, N)
  BY <1>5 DEF Carries
<1> QED
  BY <1>6 DEF c

(* While there are fewer files than runners, one runner is idle, and the   *)
(* next file goes to an idle one.                                          *)
LEMMA PassAlone ==
  ASSUME NEW w, Weighted(w), \A g \in DOMAIN w : w[g] > 0,
         NEW S \in SUBSET DOMAIN w, NEW f \in S,
         NEW N \in Nat \ {0}, Cardinality(DOMAIN w) <= N,
         NEW b, Holds(b, S \ {f}, N), Alone(w, b, N)
  PROVE  Alone(w, Pass(w, b, f), N)
<1> DEFINE r == CHOOSE s \in DOMAIN b.load : IsLightest(b.load, s)
           c == Pass(w, b, f)
<1>1. r \in RunnerIndices(N) /\ IsLightest(b.load, r)
  BY LightestExists DEF Holds
<1>2. /\ c.load = [b.load EXCEPT ![r] = @ + w[f]]
      /\ c.result = [b.result EXCEPT ![r] = Append(@, f)]
  BY DEF Pass, GiveTo
<1> HIDE DEF r, c
<1>3. b.load \in [RunnerIndices(N) -> Nat] /\ b.result \in [RunnerIndices(N) -> Seq(S \ {f})]
  BY DEF Holds
<1>4. w[f] \in Nat /\ \A g \in DOMAIN w : w[g] \in Nat /\ w[g] > 0
  BY DEF Weighted
<1>5. \E s \in RunnerIndices(N) : b.result[s] = <<>>
  <2> SUFFICES ASSUME \A s \in RunnerIndices(N) : b.result[s] # <<>> PROVE FALSE
    OBVIOUS
  <2> DEFINE g == [s \in RunnerIndices(N) |-> b.result[s][1]]
  <2>1. \A s \in RunnerIndices(N) : 1 \in 1 .. Len(b.result[s]) /\ b.result[s][1] \in S \ {f}
    BY <1>3
  <2>2. \A s, t \in RunnerIndices(N) : b.result[s][1] = b.result[t][1] => s = t
    BY <2>1 DEF Holds
  <2>3. g \in Injection(RunnerIndices(N), S \ {f})
    BY <2>1, <2>2 DEF Injection, IsInjective
  <2>4. IsFiniteSet(DOMAIN w)
    BY FilesAssumption, FS_Subset DEF Weighted
  <2>5. IsFiniteSet(S \ {f}) /\ Cardinality(S \ {f}) <= Cardinality(DOMAIN w)
        /\ (Cardinality(DOMAIN w) = Cardinality(S \ {f}) => DOMAIN w = S \ {f})
    BY <2>4, FS_Subset
  <2>6. Cardinality(RunnerIndices(N)) <= Cardinality(S \ {f}) /\ Cardinality(RunnerIndices(N)) = N
    BY <2>3, <2>5, FS_Injection, FS_Interval DEF RunnerIndices
  <2>7. Cardinality(S \ {f}) \in Nat /\ Cardinality(DOMAIN w) \in Nat
    BY <2>4, <2>5, FS_CardinalityType
  <2> QED
    BY <2>5, <2>6, <2>7
<1>6. b.result[r] = <<>> /\ b.load[r] = 0
  <2>1. PICK s \in RunnerIndices(N) : b.result[s] = <<>>
    BY <1>5
  <2>2. b.load[s] = 0
    BY <2>1 DEF Alone
  <2>3. b.load[r] = 0
    <3>1. b.load[r] <= b.load[s]
      BY <1>1, <1>3 DEF IsLightest
    <3> QED
      BY <1>1, <1>3, <2>2, <3>1
  <2>4. CASE Len(b.result[r]) = 1 /\ b.load[r] = w[b.result[r][1]]
    <3>1. b.result[r][1] \in S \ {f}
      BY <1>1, <1>3, <2>4
    <3> QED
      BY <1>4, <2>3, <2>4, <3>1
  <2> QED
    BY <1>1, <2>3, <2>4 DEF Alone
<1>7. ASSUME NEW s \in RunnerIndices(N)
      PROVE  \/ c.result[s] = <<>> /\ c.load[s] = 0
             \/ Len(c.result[s]) = 1 /\ c.load[s] = w[c.result[s][1]]
  <2>1. CASE s # r
    BY <1>1, <1>2, <1>3, <2>1 DEF Alone
  <2>2. CASE s = r
    <3>1. c.load[s] = 0 + w[f] /\ c.result[s] = Append(<<>>, f)
      BY <1>1, <1>2, <1>3, <1>6, <2>2
    <3> QED
      BY <1>4, <3>1
  <2> QED
    BY <2>1, <2>2
<1>8. Alone(w, c, N)
  BY <1>7 DEF Alone
<1> QED
  BY <1>8 DEF c

(* Both are true of the loop at any point.                                 *)
LEMMA LoopCarries ==
  ASSUME NEW w, Weighted(w), NEW N \in Nat \ {0}, NEW h, IsLoop(w, N, DOMAIN w, h),
         NEW S \in SUBSET DOMAIN w
  PROVE  /\ Carries(w, h[S], N)
         /\ Cardinality(DOMAIN w) <= N /\ (\A g \in DOMAIN w : w[g] > 0) => Alone(w, h[S], N)
<1> DEFINE Few == Cardinality(DOMAIN w) <= N /\ \A g \in DOMAIN w : w[g] > 0
           Bad == {T \in SUBSET DOMAIN w :
                     ~ (Carries(w, h[T], N) /\ (Few => Alone(w, h[T], N)))}
<1>1. NormalizedRunners(N) = N /\ N \in Int
  BY DEF NormalizedRunners
<1>2. ASSUME Bad # {} PROVE FALSE
  <2>1. IsFiniteSet(DOMAIN w) /\ Bad \in SUBSET SUBSET DOMAIN w
    BY FilesAssumption, FS_Subset DEF Weighted
  <2> HIDE DEF Bad
  <2>2. PICK T \in Bad : \A B \in Bad : B \subseteq T => B = T
    BY <1>2, <2>1, MinimalSet
  <2> USE DEF Bad
  <2>3. CASE T = {}
    <3>1. h[T] = EmptyBuilder(N)
      BY <1>1, <2>3 DEF IsLoop
    <3>2. Carries(w, EmptyBuilder(N), N) /\ Alone(w, EmptyBuilder(N), N)
      BY DEF Carries, Alone, EmptyBuilder
    <3> QED
      BY <3>1, <3>2
  <2>4. CASE T # {}
    <3> DEFINE f == LastFile(w, T)
    <3>1. f \in T /\ T \in SUBSET DOMAIN w
      BY <2>4, LastExists DEF IsLast
    <3>2. h[T] = Pass(w, h[T \ {f}], f)
      BY <2>4 DEF IsLoop
    <3> HIDE DEF f
    <3>3. Carries(w, h[T \ {f}], N) /\ (Few => Alone(w, h[T \ {f}], N))
      BY <2>2, <3>1
    <3>4. Holds(h[T \ {f}], T \ {f}, N)
      BY <1>1, <3>1, LoopHolds
    <3>5. Carries(w, h[T], N)
      BY <3>1, <3>2, <3>3, <3>4, PassCarries
    <3>6. Few => Alone(w, h[T], N)
      BY <3>1, <3>2, <3>3, <3>4, PassAlone
    <3> QED
      BY <3>5, <3>6
  <2> QED
    BY <2>3, <2>4
<1> QED
  BY <1>2

(* More runners than files make no plan faster.                            *)
THEOREM MoreRunnersAreUseless ==
  ASSUME NEW w, Weighted(w), \A f \in DOMAIN w : w[f] > 0,
         NEW n \in Nat \ {0}, NEW m \in Nat \ {0}, Cardinality(DOMAIN w) <= n
  PROVE  WallTime(Build(w, n).load) <= WallTime(Build(w, m).load)
<1> DEFINE b == Build(w, n)
           c == Build(w, m)
<1> SUFFICES WallTime(b.load) <= WallTime(c.load)
  OBVIOUS
<1>1. /\ Holds(b, DOMAIN w, n) /\ Carries(w, b, n) /\ Alone(w, b, n)
      /\ Holds(c, DOMAIN w, m) /\ Carries(w, c, m)
  <2>1. n \in Int /\ m \in Int /\ NormalizedRunners(n) = n /\ NormalizedRunners(m) = m
    BY DEF NormalizedRunners
  <2>2. Holds(b, DOMAIN w, n) /\ Holds(c, DOMAIN w, m)
    BY <2>1, BuildHolds
  <2>3. PICK h : IsLoop(w, n, DOMAIN w, h) /\ b = h[DOMAIN w]
    BY BuildIsLoop
  <2>4. PICK k : IsLoop(w, m, DOMAIN w, k) /\ c = k[DOMAIN w]
    BY BuildIsLoop
  <2> HIDE DEF b, c
  <2>5. Carries(w, b, n) /\ Alone(w, b, n)
    BY <2>3, LoopCarries
  <2>6. Carries(w, c, m)
    BY <2>4, LoopCarries
  <2> QED
    BY <2>2, <2>5, <2>6
<1> HIDE DEF b, c
<1>2. b.load \in [RunnerIndices(n) -> Nat] /\ c.load \in [RunnerIndices(m) -> Nat]
  BY <1>1 DEF Holds
<1>3. /\ WallTime(c.load) \in Nat
      /\ \A s \in RunnerIndices(m) : c.load[s] <= WallTime(c.load)
  BY <1>2, WallTimeIsSlowest
<1>4. PICK r \in RunnerIndices(n) : WallTime(b.load) = b.load[r]
  BY <1>2, WallTimeIsSlowest
<1>5. CASE b.load[r] = 0
  BY <1>3, <1>4, <1>5
<1>6. CASE Len(b.result[r]) = 1 /\ b.load[r] = w[b.result[r][1]]
  <2>1. b.result[r][1] \in DOMAIN w
    BY <1>1, <1>6 DEF Holds
  <2>2. PICK s \in RunnerIndices(m) :
          \E i \in 1 .. Len(c.result[s]) : c.result[s][i] = b.result[r][1]
    BY <1>1, <2>1 DEF Holds
  <2>3. PICK i \in 1 .. Len(c.result[s]) : c.result[s][i] = b.result[r][1]
    BY <2>2
  <2>4. w[b.result[r][1]] <= c.load[s]
    BY <1>1, <2>3 DEF Carries
  <2>5. w[b.result[r][1]] \in Nat /\ c.load[s] \in Nat /\ c.load[s] <= WallTime(c.load)
    BY <1>2, <1>3, <2>1 DEF Weighted
  <2> QED
    BY <1>3, <1>4, <1>6, <2>4, <2>5
<1> QED
  BY <1>1, <1>5, <1>6 DEF Alone

-----------------------------------------------------------------------------
(* Sums of weights.                                                        *)

SumOver(w, S) == MapThenSumSet(LAMBDA f : w[f], S)

AnyOf(S) == CHOOSE f \in S : TRUE

(* The fold that sums the weights of the subsets of D, one file at a time. *)
IsSum(w, D, h) ==
  h = [S \in SUBSET D |-> IF S = {} THEN 0 ELSE w[AnyOf(S)] + h[S \ {AnyOf(S)}]]

(* The sum of a set is the same whichever larger set the fold is about.    *)
LEMMA SumsAgree ==
  ASSUME NEW D, IsFiniteSet(D), NEW C \in SUBSET D, NEW w,
         NEW h, IsSum(w, D, h), NEW k, IsSum(w, C, k), NEW S \in SUBSET C
  PROVE  h[S] = k[S]
<1> DEFINE Bad == {T \in SUBSET C : h[T] # k[T]}
<1>1. ASSUME Bad # {} PROVE FALSE
  <2>1. IsFiniteSet(C) /\ Bad \in SUBSET SUBSET C
    BY FS_Subset
  <2> HIDE DEF Bad
  <2>2. PICK T \in Bad : \A B \in Bad : B \subseteq T => B = T
    BY <1>1, <2>1, MinimalSet
  <2> USE DEF Bad
  <2>3. CASE T = {}
    BY <2>3 DEF IsSum
  <2>4. CASE T # {}
    <3> DEFINE x == AnyOf(T)
    <3>1. x \in T
      BY <2>4 DEF AnyOf
    <3>2. h[T] = w[x] + h[T \ {x}] /\ k[T] = w[x] + k[T \ {x}]
      BY <2>4 DEF IsSum
    <3> HIDE DEF x
    <3>3. h[T \ {x}] = k[T \ {x}]
      BY <2>2, <3>1
    <3> QED
      BY <3>2, <3>3
  <2> QED
    BY <2>3, <2>4
<1> QED
  BY <1>1

(* The fold ends for every finite set.                                     *)
LEMMA SumExists ==
  ASSUME NEW D, IsFiniteSet(D), NEW w
  PROVE  \E h : IsSum(w, D, h)
<1> DEFINE Bad == {T \in SUBSET D : ~ \E h : IsSum(w, T, h)}
<1>1. ASSUME Bad # {} PROVE FALSE
  <2>1. Bad \in SUBSET SUBSET D
    OBVIOUS
  <2> HIDE DEF Bad
  <2>2. PICK T \in Bad : \A B \in Bad : B \subseteq T => B = T
    BY <1>1, <2>1, MinimalSet
  <2> USE DEF Bad
  <2> DEFINE sum[S \in SUBSET T] == CHOOSE h : IsSum(w, S, h)
             next(S) == sum[S \ {AnyOf(S)}][S \ {AnyOf(S)}]
             k == [S \in SUBSET T |-> IF S = {} THEN 0 ELSE w[AnyOf(S)] + next(S)]
  <2>3. ASSUME NEW S \in SUBSET T, S # T
        PROVE  IsSum(w, S, sum[S])
    <3>1. S \notin Bad
      BY <2>2, <2>3
    <3>2. \E h : IsSum(w, S, h)
      BY <3>1
    <3> QED
      BY <3>2
  <2>4. ASSUME NEW S \in SUBSET T, S # {}
        PROVE  AnyOf(S) \in S
    BY <2>4 DEF AnyOf
  <2> HIDE DEF sum
  <2>5. ASSUME NEW S \in SUBSET T, S # T, S # {}
        PROVE  sum[S][S] = w[AnyOf(S)] + next(S)
    <3> DEFINE R == S \ {AnyOf(S)}
    <3>1. R \in SUBSET S /\ R \in SUBSET T /\ R # T
      BY <2>4, <2>5
    <3>2. IsSum(w, S, sum[S]) /\ IsSum(w, R, sum[R]) /\ IsFiniteSet(S)
      BY <2>3, <2>5, <3>1, FS_Subset
    <3> HIDE DEF R
    <3>3. sum[S][R] = sum[R][R]
      BY <3>1, <3>2, SumsAgree
    <3>4. sum[S][S] = w[AnyOf(S)] + sum[S][R]
      BY <2>5, <3>2 DEF IsSum, R
    <3> QED
      BY <3>3, <3>4 DEF R
  <2>6. ASSUME NEW S \in SUBSET T, S # {}
        PROVE  next(S) = k[S \ {AnyOf(S)}]
    <3> DEFINE R == S \ {AnyOf(S)}
    <3>1. R \in SUBSET T /\ R # T
      BY <2>4, <2>6
    <3> HIDE DEF R
    <3>2. CASE R = {}
      BY <2>3, <3>1, <3>2 DEF IsSum, R
    <3>3. CASE R # {}
      BY <2>5, <3>1, <3>3 DEF R
    <3> QED
      BY <3>2, <3>3
  <2>7. IsSum(w, T, k)
    <3> HIDE DEF next
    <3>1. k = [S \in SUBSET T |-> IF S = {} THEN 0 ELSE w[AnyOf(S)] + k[S \ {AnyOf(S)}]]
      <4>1. \A S \in SUBSET T : S # {} => next(S) = k[S \ {AnyOf(S)}]
        BY <2>6
      <4> DEFINE j == k
      <4> HIDE DEF j
      <4>2. \A S \in SUBSET T : S # {} => next(S) = j[S \ {AnyOf(S)}]
        BY <4>1 DEF j
      <4>3. k = [S \in SUBSET T |-> IF S = {} THEN 0 ELSE w[AnyOf(S)] + j[S \ {AnyOf(S)}]]
        BY <4>2
      <4> QED
        BY <4>3 DEF j
    <3> HIDE DEF k
    <3> QED
      BY <3>1 DEF IsSum
  <2> QED
    BY <2>7
<1>2. D \notin Bad
  BY <1>1
<1> QED
  BY <1>2

(* MapThenSumSet adds the weights one file at a time.                      *)
LEMMA SumIsFold ==
  ASSUME NEW S, IsFiniteSet(S), NEW w
  PROVE  \E h : IsSum(w, S, h) /\ SumOver(w, S) = h[S]
<1>1. \E h : IsSum(w, S, h)
  BY SumExists
<1>2. SumOver(w, S) = (CHOOSE h : IsSum(w, S, h))[S]
  BY DEF SumOver, MapThenSumSet, MapThenFoldSet, IsSum, AnyOf
<1> QED
  BY <1>1, <1>2

LEMMA SumOfNone == ASSUME NEW w PROVE SumOver(w, {}) = 0
<1>1. PICK h : IsSum(w, {}, h) /\ SumOver(w, {}) = h[{}]
  BY SumIsFold, FS_EmptySet
<1> QED
  BY <1>1 DEF IsSum

LEMMA SumOfSome ==
  ASSUME NEW S, IsFiniteSet(S), S # {}, NEW w
  PROVE  \E f \in S : SumOver(w, S) = w[f] + SumOver(w, S \ {f})
<1> DEFINE f == AnyOf(S)
           R == S \ {f}
<1>1. f \in S
  BY DEF AnyOf
<1>2. PICK h : IsSum(w, S, h) /\ SumOver(w, S) = h[S]
  BY SumIsFold
<1>3. SumOver(w, S) = w[f] + h[R]
  BY <1>2 DEF IsSum
<1> HIDE DEF R
<1>4. R \in SUBSET S /\ IsFiniteSet(R)
  BY FS_Subset DEF R
<1>5. PICK k : IsSum(w, R, k) /\ SumOver(w, R) = k[R]
  BY <1>4, SumIsFold
<1>6. h[R] = k[R]
  BY <1>2, <1>4, <1>5, SumsAgree
<1> HIDE DEF f
<1> QED
  BY <1>1, <1>3, <1>5, <1>6 DEF R

(* The files of a sum, and weights for them.                               *)
Weighing(w, S) == IsFiniteSet(S) /\ \A f \in S : w[f] \in Nat

LEMMA WeighingPart ==
  ASSUME NEW S, NEW w, Weighing(w, S), NEW T \in SUBSET S
  PROVE  Weighing(w, T)
BY FS_Subset DEF Weighing

LEMMA SumTyped ==
  ASSUME NEW S, NEW w, Weighing(w, S)
  PROVE  SumOver(w, S) \in Nat
<1> DEFINE Bad == {T \in SUBSET S : SumOver(w, T) \notin Nat}
<1>1. ASSUME Bad # {} PROVE FALSE
  <2>1. IsFiniteSet(S) /\ Bad \in SUBSET SUBSET S
    BY DEF Weighing
  <2> HIDE DEF Bad
  <2>2. PICK T \in Bad : \A B \in Bad : B \subseteq T => B = T
    BY <1>1, <2>1, MinimalSet
  <2> USE DEF Bad
  <2>3. T # {}
    BY SumOfNone
  <2>4. PICK f \in T : SumOver(w, T) = w[f] + SumOver(w, T \ {f})
    BY <2>1, <2>3, SumOfSome, FS_Subset
  <2>5. SumOver(w, T \ {f}) \in Nat
    BY <2>2
  <2>6. w[f] \in Nat
    BY DEF Weighing
  <2> QED
    BY <2>4, <2>5, <2>6
<1> QED
  BY <1>1

(* The order in which a fold adds the weights does not matter.             *)
LEMMA SumRemove ==
  ASSUME NEW S, NEW w, Weighing(w, S), NEW f \in S
  PROVE  SumOver(w, S) = w[f] + SumOver(w, S \ {f})
<1> DEFINE Bad == {T \in SUBSET S : \E g \in T : SumOver(w, T) # w[g] + SumOver(w, T \ {g})}
<1>1. ASSUME Bad # {} PROVE FALSE
  <2>1. IsFiniteSet(S) /\ Bad \in SUBSET SUBSET S
    BY DEF Weighing
  <2> HIDE DEF Bad
  <2>2. PICK T \in Bad : \A B \in Bad : B \subseteq T => B = T
    BY <1>1, <2>1, MinimalSet
  <2> USE DEF Bad
  <2>3. PICK g \in T : SumOver(w, T) # w[g] + SumOver(w, T \ {g})
    OBVIOUS
  <2>4. PICK h \in T : SumOver(w, T) = w[h] + SumOver(w, T \ {h})
    BY <2>1, <2>3, SumOfSome, FS_Subset
  <2>5. g # h
    BY <2>3, <2>4
  <2>6. SumOver(w, T \ {h}) = w[g] + SumOver(w, (T \ {h}) \ {g})
    <3>1. T \ {h} \notin Bad /\ T \ {h} \in SUBSET S /\ g \in T \ {h}
      BY <2>2, <2>5
    <3> QED
      BY <3>1
  <2>7. SumOver(w, T \ {g}) = w[h] + SumOver(w, (T \ {g}) \ {h})
    <3>1. T \ {g} \notin Bad /\ T \ {g} \in SUBSET S /\ h \in T \ {g}
      BY <2>2, <2>5
    <3> QED
      BY <3>1
  <2>8. (T \ {h}) \ {g} = (T \ {g}) \ {h} /\ (T \ {g}) \ {h} \in SUBSET S
    OBVIOUS
  <2>9. SumOver(w, (T \ {g}) \ {h}) \in Nat
    BY <2>8, WeighingPart, SumTyped
  <2>10. w[g] \in Nat /\ w[h] \in Nat
    BY DEF Weighing
  <2>11. w[h] + SumOver(w, T \ {h}) = w[g] + SumOver(w, T \ {g})
    BY ONLY <2>6, <2>7, <2>8, <2>9, <2>10
  <2> QED
    BY ONLY <2>3, <2>4, <2>11
<1> QED
  BY <1>1

(* A sum is the sum of two parts.                                          *)
LEMMA SumSplits ==
  ASSUME NEW S, NEW w, Weighing(w, S), NEW A \in SUBSET S
  PROVE  SumOver(w, S) = SumOver(w, A) + SumOver(w, S \ A)
<1> DEFINE Bad == {T \in SUBSET A : SumOver(w, S) # SumOver(w, T) + SumOver(w, S \ T)}
<1>1. ASSUME Bad # {} PROVE FALSE
  <2>1. IsFiniteSet(A) /\ Bad \in SUBSET SUBSET A
    BY FS_Subset DEF Weighing
  <2> HIDE DEF Bad
  <2>2. PICK T \in Bad : \A B \in Bad : B \subseteq T => B = T
    BY <1>1, <2>1, MinimalSet
  <2> USE DEF Bad
  <2>3. ASSUME T = {} PROVE FALSE
    <3>1. S \ T = S
      BY <2>3
    <3> QED
      BY <2>3, <3>1, SumOfNone, SumTyped
  <2>4. PICK f \in T : TRUE
    BY <2>3
  <2> DEFINE R == T \ {f}
  <2>5. R \notin Bad /\ R \in SUBSET A
    BY <2>2
  <2>6. SumOver(w, S) = SumOver(w, R) + SumOver(w, S \ R)
    BY <2>5
  <2>7. SumOver(w, T) = w[f] + SumOver(w, R)
    <3>1. Weighing(w, T)
      BY WeighingPart
    <3> QED
      BY <3>1, SumRemove
  <2>8. SumOver(w, S \ R) = w[f] + SumOver(w, S \ T)
    <3>1. Weighing(w, S \ R) /\ f \in S \ R
      BY WeighingPart
    <3>2. (S \ R) \ {f} = S \ T
      OBVIOUS
    <3> QED
      BY <3>1, <3>2, SumRemove
  <2>9. SumOver(w, R) \in Nat /\ SumOver(w, S \ T) \in Nat /\ w[f] \in Nat
    <3>1. Weighing(w, R) /\ Weighing(w, S \ T)
      BY WeighingPart
    <3> QED
      BY <3>1, SumTyped DEF Weighing
  <2> HIDE DEF R
  <2>10. SumOver(w, S) # SumOver(w, T) + SumOver(w, S \ T)
    OBVIOUS
  <2> HIDE DEF Bad
  <2> QED
    BY <2>6, <2>7, <2>8, <2>9, <2>10
<1> QED
  BY <1>1

(* A part weighs no more than the whole.                                   *)
LEMMA SumOfPart ==
  ASSUME NEW S, NEW w, Weighing(w, S), NEW T \in SUBSET S
  PROVE  SumOver(w, T) <= SumOver(w, S)
<1>1. Weighing(w, T) /\ Weighing(w, S \ T)
  BY WeighingPart
<1> QED
  BY <1>1, SumSplits, SumTyped

-----------------------------------------------------------------------------
(* The files of S that the assignment a gives to runner r.                 *)

Given(a, S, r) == {f \in S : a[f] = r}

(* When each of n runners has between lo and hi, they have together        *)
(* between n * lo and n * hi.                                              *)
LEMMA SumOfShares ==
  ASSUME NEW S, NEW w, Weighing(w, S), NEW n \in Nat, NEW a \in [S -> RunnerIndices(n)],
         NEW lo \in Nat, NEW hi \in Nat,
         \A r \in RunnerIndices(n) :
           lo <= SumOver(w, Given(a, S, r)) /\ SumOver(w, Given(a, S, r)) <= hi
  PROVE  n * lo <= SumOver(w, S) /\ SumOver(w, S) <= n * hi
<1> DEFINE First(k) == {f \in S : a[f] < k}
           Fine(k) == k * lo <= SumOver(w, First(k)) /\ SumOver(w, First(k)) <= k * hi
           Bad == {k \in 0 .. n : ~ Fine(k)}
<1>0. \A f \in S : a[f] \in Int /\ a[f] >= 0 /\ a[f] < n
  BY DEF RunnerIndices
<1>1. ASSUME Bad # {} PROVE FALSE
  <2>1. PICK k \in Bad : \A j \in Bad : k <= j
    <3>1. Bad \in SUBSET Nat
      OBVIOUS
    <3> HIDE DEF Bad
    <3> QED
      BY <1>1, <3>1, LeastNumber
  <2>2. CASE k = 0
    <3>1. First(0) = {}
      BY <1>0
    <3> QED
      BY <2>2, <3>1, SumOfNone
  <2>3. CASE k # 0
    <3> DEFINE j == k - 1
    <3>1. j \in 0 .. n /\ j \in RunnerIndices(n) /\ k = j + 1 /\ j \in Nat /\ k \in Nat
      BY <2>3 DEF RunnerIndices
    <3>2. j \notin Bad
      BY <2>1, <3>1
    <3>3. Fine(j)
      BY <3>1, <3>2
    <3>4. First(j) \in SUBSET First(k) /\ First(k) \ First(j) = Given(a, S, j)
      BY <1>0, <3>1 DEF Given
    <3>5. SumOver(w, First(k)) = SumOver(w, First(j)) + SumOver(w, Given(a, S, j))
      <4>1. Weighing(w, First(k))
        BY WeighingPart
      <4> HIDE DEF First, j
      <4> QED
        BY <3>4, <4>1, SumSplits
    <3>6. SumOver(w, First(j)) \in Nat /\ SumOver(w, Given(a, S, j)) \in Nat
      <4>1. Weighing(w, First(j)) /\ Weighing(w, Given(a, S, j))
        BY WeighingPart DEF Given
      <4> HIDE DEF First, j
      <4> QED
        BY <4>1, SumTyped
    <3>7. lo <= SumOver(w, Given(a, S, j)) /\ SumOver(w, Given(a, S, j)) <= hi
      BY <3>1
    <3>8. k * lo = j * lo + lo /\ k * hi = j * hi + hi /\ j * lo \in Nat /\ j * hi \in Nat
      BY <3>1
    <3>9. k * lo <= SumOver(w, First(k)) /\ SumOver(w, First(k)) <= k * hi
      <4>1. j * lo <= SumOver(w, First(j)) /\ SumOver(w, First(j)) <= j * hi
        BY <3>3
      <4> HIDE DEF First, j
      <4> QED
        BY <3>5, <3>6, <3>7, <3>8, <4>1
    <3> QED
      BY <3>9
  <2> QED
    BY <2>2, <2>3
<1>2. Fine(n)
  <2>1. n \in 0 .. n
    OBVIOUS
  <2>2. n \notin Bad
    <3> HIDE DEF Bad
    <3> QED
      BY <1>1
  <2> HIDE DEF Fine
  <2> QED
    BY <2>1, <2>2
<1>3. First(n) = S
  BY <1>0
<1> QED
  BY <1>2, <1>3

-----------------------------------------------------------------------------
(* Files of more than a third of the time, and the whole schedule.         *)

LEMMA Times == \A a, b \in Nat : a * b \in Nat
OBVIOUS

LEMMA TimesMonotonic == \A a, b, c \in Nat : a <= b => a * c <= b * c
<1> SUFFICES ASSUME NEW a \in Nat, NEW b \in Nat, NEW c \in Nat, a <= b PROVE a * c <= b * c
  OBVIOUS
<1>1. b - a \in Nat /\ (b - a) * c \in Nat
  OBVIOUS
<1>2. b * c = a * c + (b - a) * c
  OBVIOUS
<1> QED
  BY <1>1, <1>2, Times

(* A sum of one weight, and one of two and the rest.                       *)
LEMMA SumOfOne ==
  ASSUME NEW w, NEW f, w[f] \in Nat
  PROVE  SumOver(w, {f}) = w[f]
<1>1. Weighing(w, {f}) /\ {f} \ {f} = {}
  BY FS_Singleton DEF Weighing
<1>2. SumOver(w, {f}) = w[f] + SumOver(w, {f} \ {f})
  BY <1>1, SumRemove
<1> QED
  BY <1>1, <1>2, SumOfNone

LEMMA SumOfTwo ==
  ASSUME NEW S, NEW w, Weighing(w, S), NEW f \in S, NEW g \in S, f # g
  PROVE  /\ SumOver(w, S) = w[f] + w[g] + SumOver(w, S \ {f, g})
         /\ SumOver(w, S \ {f, g}) \in Nat
<1>1. Weighing(w, S \ {f}) /\ Weighing(w, S \ {f, g})
  BY WeighingPart
<1>2. g \in S \ {f} /\ (S \ {f}) \ {g} = S \ {f, g}
  OBVIOUS
<1>3. /\ SumOver(w, S) = w[f] + SumOver(w, S \ {f})
      /\ SumOver(w, S \ {f}) = w[g] + SumOver(w, S \ {f, g})
  BY <1>1, <1>2, SumRemove
<1>4. SumOver(w, S \ {f, g}) \in Nat /\ w[f] \in Nat /\ w[g] \in Nat
  BY <1>1, SumTyped DEF Weighing
<1> QED
  BY <1>3, <1>4

(* Files of more than a third of W.  When they fit within W on n runners,  *)
(* no runner has more than two of them.  Then the lightest one still fits  *)
(* within W on the runner that has least, however the others are placed:   *)
(* count a file that leaves no room for the lightest one as two files.     *)
(* There is room for 2n; if l did not fit anywhere, the others would count *)
(* 2n already.                                                             *)
LEMMA LightestFits ==
  ASSUME NEW S, NEW w, Weighing(w, S), NEW l \in S, \A f \in S : w[l] <= w[f],
         NEW n \in Nat, NEW W \in Nat, 3 * w[l] > W,
         NEW o \in [S -> RunnerIndices(n)],
         \A r \in RunnerIndices(n) : SumOver(w, Given(o, S, r)) <= W,
         NEW L \in Nat, NEW a \in [S \ {l} -> RunnerIndices(n)],
         \A r \in RunnerIndices(n) : L <= SumOver(w, Given(a, S \ {l}, r))
  PROVE  L + w[l] <= W
<1> DEFINE p == w[l]
           T == S \ {l}
           v == [f \in S |-> IF w[f] + p > W THEN 2 ELSE 1]
<1>1. /\ Weighing(v, S) /\ Weighing(v, T)
      /\ \A f \in S : v[f] \in 1 .. 2 /\ w[f] \in Nat
  <2>1. \A f \in S : v[f] \in 1 .. 2
    OBVIOUS
  <2>2. Weighing(v, S)
    BY <2>1 DEF Weighing
  <2> HIDE DEF v
  <2> QED
    BY <2>1, <2>2, WeighingPart DEF Weighing
<1>2. \A f \in S : v[f] = IF w[f] + p > W THEN 2 ELSE 1
  OBVIOUS
<1> HIDE DEF v
<1>3. \A r : /\ Weighing(w, Given(o, S, r)) /\ Weighing(v, Given(o, S, r))
             /\ Weighing(w, Given(a, T, r)) /\ Weighing(v, Given(a, T, r))
  <2>1. \A r : Given(o, S, r) \in SUBSET S /\ Given(a, T, r) \in SUBSET S
    BY DEF Given
  <2> QED
    BY <1>1, <2>1, WeighingPart
<1>4. p <= W
  <2> DEFINE A == Given(o, S, o[l])
  <2>1. l \in A /\ o[l] \in RunnerIndices(n)
    BY DEF Given
  <2>2. Weighing(w, A) /\ SumOver(w, A) <= W
    BY <1>3, <2>1
  <2> HIDE DEF A
  <2>3. SumOver(w, A) = p + SumOver(w, A \ {l})
    BY <2>1, <2>2, SumRemove
  <2>4. SumOver(w, A \ {l}) \in Nat
    BY <2>2, WeighingPart, SumTyped
  <2>5. SumOver(w, A) \in Nat /\ p \in Nat
    BY <1>1, <2>2, SumTyped
  <2> QED
    BY <2>2, <2>3, <2>4, <2>5
<1>5. ASSUME NEW r \in RunnerIndices(n)
      PROVE  SumOver(v, Given(o, S, r)) <= 2
  <2> DEFINE A == Given(o, S, r)
  <2>1. /\ Weighing(w, A) /\ Weighing(v, A) /\ A \in SUBSET S
        /\ SumOver(w, A) <= W
    BY <1>3 DEF Given
  <2> HIDE DEF A
  <2>2. CASE A = {}
    BY <2>2, SumOfNone DEF A
  <2>3. ASSUME NEW f \in A, A = {f}
        PROVE  SumOver(v, A) <= 2
    <3>1. v[f] \in 1 .. 2 /\ v[f] \in Nat
      BY <1>1, <2>1
    <3>2. SumOver(v, {f}) = v[f]
      BY <3>1, SumOfOne
    <3> QED
      BY <2>3, <3>1, <3>2
  <2>4. ASSUME NEW f \in A, NEW g \in A, f # g
        PROVE  SumOver(v, A) <= 2
    <3> DEFINE R == A \ {f, g}
    <3>1. /\ SumOver(w, A) = w[f] + w[g] + SumOver(w, R)
          /\ SumOver(w, R) \in Nat
          /\ SumOver(v, A) = v[f] + v[g] + SumOver(v, R)
      BY <2>1, <2>4, SumOfTwo
    <3>2. p <= w[f] /\ p <= w[g] /\ p \in Nat /\ w[f] \in Nat /\ w[g] \in Nat
      BY <1>1, <2>1
    <3>3. v[f] = 1 /\ v[g] = 1
      <4>1. ~ (w[f] + p > W) /\ ~ (w[g] + p > W)
        BY <2>1, <3>1, <3>2
      <4> QED
        BY <1>2, <2>1, <4>1
    <3>4. R = {}
      <4> SUFFICES ASSUME NEW h \in R PROVE FALSE
        OBVIOUS
      <4>1. Weighing(w, R) /\ h \in S
        BY <2>1, WeighingPart
      <4>2. SumOver(w, R) = w[h] + SumOver(w, R \ {h}) /\ SumOver(w, R \ {h}) \in Nat
        <5> HIDE DEF R
        <5>1. Weighing(w, R \ {h})
          BY <4>1, WeighingPart
        <5> QED
          BY <4>1, <5>1, SumRemove, SumTyped
      <4>3. p <= w[h] /\ w[h] \in Nat
        BY <1>1, <4>1
      <4> HIDE DEF R
      <4> QED
        BY <2>1, <3>1, <3>2, <4>2, <4>3
    <3>5. SumOver(v, R) = 0
      BY <3>4, SumOfNone
    <3> HIDE DEF R
    <3> QED
      BY <3>1, <3>3, <3>5
  <2>5. SumOver(v, A) <= 2
    <3>1. A = {} \/ (\E f \in A : A = {f}) \/ (\E f, g \in A : f # g)
      OBVIOUS
    <3>2. CASE A = {}
      BY <3>2, SumOfNone
    <3> QED
      BY <2>3, <2>4, <3>1, <3>2
  <2> QED
    BY <2>5 DEF A
<1>6. ASSUME L + p > W, NEW r \in RunnerIndices(n)
      PROVE  2 <= SumOver(v, Given(a, T, r))
  <2> DEFINE A == Given(a, T, r)
  <2>1. /\ Weighing(w, A) /\ Weighing(v, A) /\ A \in SUBSET S
        /\ L <= SumOver(w, A)
    BY <1>3 DEF Given
  <2> HIDE DEF A
  <2>2. ASSUME A = {} PROVE FALSE
    BY <1>1, <1>4, <1>6, <2>1, <2>2, SumOfNone
  <2>3. ASSUME NEW f \in A, A = {f}
        PROVE  SumOver(v, A) = 2
    <3>1. SumOver(w, A) = w[f] /\ SumOver(v, A) = v[f]
      <4>1. w[f] \in Nat /\ v[f] \in Nat
        BY <1>1, <2>1
      <4>2. SumOver(w, {f}) = w[f] /\ SumOver(v, {f}) = v[f]
        BY <4>1, SumOfOne
      <4> QED
        BY <2>3, <4>2
    <3>2. w[f] + p > W
      BY <1>1, <1>6, <2>1, <3>1
    <3> QED
      BY <1>2, <2>1, <3>1, <3>2
  <2>4. ASSUME NEW f \in A, NEW g \in A, f # g
        PROVE  SumOver(v, A) >= 2
    <3>1. SumOver(v, A) = v[f] + v[g] + SumOver(v, A \ {f, g}) /\ SumOver(v, A \ {f, g}) \in Nat
      BY <2>1, <2>4, SumOfTwo
    <3>2. v[f] \in 1 .. 2 /\ v[g] \in 1 .. 2
      BY <1>1, <2>1
    <3> QED
      BY <3>1, <3>2
  <2>5. 2 <= SumOver(v, A)
    <3>1. (\E f \in A : A = {f}) \/ (\E f, g \in A : f # g)
      BY <2>2
    <3>2. CASE \E f \in A : A = {f}
      BY <2>3, <3>2
    <3>3. CASE \E f, g \in A : f # g
      <4>1. SumOver(v, A) >= 2 /\ SumOver(v, A) \in Nat
        BY <2>1, <2>4, <3>3, SumTyped
      <4> QED
        BY <4>1
    <3> QED
      BY <3>1, <3>2, <3>3
  <2> QED
    BY <2>5 DEF A
<1>7. SumOver(v, S) <= n * 2
  <2>1. \A r \in RunnerIndices(n) : 0 <= SumOver(v, Given(o, S, r))
    <3>1. \A r : SumOver(v, Given(o, S, r)) \in Nat
      BY <1>3, SumTyped
    <3> QED
      BY <3>1
  <2> QED
    BY <1>1, <1>5, <2>1, SumOfShares
<1>8. ASSUME L + p > W
      PROVE  n * 2 <= SumOver(v, T)
  <2> DEFINE hi == SumOver(v, T)
  <2>1. \A r \in RunnerIndices(n) : SumOver(v, Given(a, T, r)) <= hi
    <3>1. \A r : Given(a, T, r) \in SUBSET T
      BY DEF Given
    <3> QED
      BY <1>1, <3>1, SumOfPart
  <2>2. hi \in Nat
    BY <1>1, SumTyped
  <2>3. \A r \in RunnerIndices(n) : 2 <= SumOver(v, Given(a, T, r))
    BY <1>6, <1>8
  <2> HIDE DEF hi, T
  <2> QED
    BY <1>1, <2>1, <2>2, <2>3, SumOfShares DEF T
<1>9. SumOver(v, S) = v[l] + SumOver(v, T) /\ v[l] \in 1 .. 2 /\ SumOver(v, T) \in Nat
  BY <1>1, SumRemove, SumTyped
<1>10. ~ (L + p > W)
  BY <1>7, <1>8, <1>9
<1> QED
  BY <1>1, <1>10

-----------------------------------------------------------------------------
(* The loop is list scheduling.                                            *)

(* The files of S that come before file l.                                 *)
Before(w, S, l) == {f \in S : Precedes(w, f, l)}

(* The loads of n runners are those of an assignment of the files S, and   *)
(* without its last file l a runner has no more than any other runner had  *)
(* before l.                                                               *)
Scheduled(w, load, S, n) ==
  \E a \in [S -> RunnerIndices(n)] :
    /\ \A r \in RunnerIndices(n) : load[r] = SumOver(w, Given(a, S, r))
    /\ \A r \in RunnerIndices(n) :
         \/ load[r] = 0
         \/ \E l \in S :
              /\ a[l] = r
              /\ \A s \in RunnerIndices(n) :
                   load[r] - w[l] <= SumOver(w, Given(a, Before(w, S, l), s))

LEMMA WeightedWeighs ==
  ASSUME NEW w, Weighted(w), NEW S \in SUBSET DOMAIN w
  PROVE  Weighing(w, S)
BY WeightedFinite, FS_Subset DEF Weighted, Weighing

(* The loop body keeps this: the lightest runner takes the file.           *)
LEMMA PassSchedules ==
  ASSUME NEW w, Weighted(w), NEW S \in SUBSET DOMAIN w, NEW f, IsLast(w, S, f),
         NEW n \in Nat \ {0}, NEW b, b.load \in [RunnerIndices(n) -> Nat],
         Scheduled(w, b.load, S \ {f}, n)
  PROVE  Scheduled(w, Pass(w, b, f).load, S, n)
<1> DEFINE r == CHOOSE s \in DOMAIN b.load : IsLightest(b.load, s)
           T == S \ {f}
           load == Pass(w, b, f).load
<1>1. r \in RunnerIndices(n) /\ IsLightest(b.load, r)
  BY LightestExists
<1>2. load = [b.load EXCEPT ![r] = @ + w[f]]
  BY DEF Pass, GiveTo
<1> HIDE DEF r, load
<1>3. /\ f \in S /\ w[f] \in Nat /\ Weighing(w, S)
      /\ \A g \in T : Precedes(w, g, f)
  BY WeightedWeighs DEF Weighted, IsLast
<1>4. \A s \in RunnerIndices(n) : b.load[r] <= b.load[s]
  <2>1. \A s \in RunnerIndices(n) : b.load[s] \in Nat
    OBVIOUS
  <2> QED
    BY <1>1, <2>1 DEF IsLightest
<1>5. PICK a \in [T -> RunnerIndices(n)] :
        /\ \A s \in RunnerIndices(n) : b.load[s] = SumOver(w, Given(a, T, s))
        /\ \A t \in RunnerIndices(n) :
             \/ b.load[t] = 0
             \/ \E l \in T :
                  /\ a[l] = t
                  /\ \A s \in RunnerIndices(n) :
                       b.load[t] - w[l] <= SumOver(w, Given(a, Before(w, T, l), s))
  BY DEF Scheduled
<1> DEFINE c == [g \in S |-> IF g = f THEN r ELSE a[g]]
<1>6. /\ c \in [S -> RunnerIndices(n)] /\ c[f] = r /\ \A g \in T : c[g] = a[g]
  BY <1>1, <1>3, <1>5
<1> HIDE DEF c
<1>7. \A s : s # r => Given(c, S, s) = Given(a, T, s)
  BY <1>6 DEF Given
<1>8. Given(c, S, r) \ {f} = Given(a, T, r) /\ f \in Given(c, S, r)
  BY <1>3, <1>6 DEF Given
<1>9. ASSUME NEW s \in RunnerIndices(n)
      PROVE  load[s] = SumOver(w, Given(c, S, s))
  <2>1. CASE s # r
    BY <1>2, <1>5, <1>7, <2>1
  <2>2. CASE s = r
    <3>1. Weighing(w, Given(c, S, r))
      BY <1>3, WeighingPart DEF Given
    <3>2. SumOver(w, Given(c, S, r)) = w[f] + SumOver(w, Given(a, T, r))
      BY <1>8, <3>1, SumRemove
    <3>3. load[r] = b.load[r] + w[f] /\ b.load[r] = SumOver(w, Given(a, T, r))
      BY <1>1, <1>2, <1>5
    <3>4. b.load[r] \in Nat
      BY <1>1
    <3> QED
      BY <1>3, <2>2, <3>2, <3>3, <3>4
  <2> QED
    BY <2>1, <2>2
<1>10. \A g \in T : ~ Precedes(w, f, g)
  <2>1. f \in DOMAIN w /\ T \in SUBSET DOMAIN w
    BY <1>3
  <2> QED
    BY <1>3, <2>1, PrecedesOrders
<1>11. Before(w, S, f) = T
  <2>1. f \in DOMAIN w
    BY <1>3
  <2> QED
    BY <1>3, <2>1, PrecedesOrders DEF Before
<1>12. ASSUME NEW t \in RunnerIndices(n), t # r, load[t] # 0
       PROVE  \E l \in S :
                /\ c[l] = t
                /\ \A s \in RunnerIndices(n) :
                     load[t] - w[l] <= SumOver(w, Given(c, Before(w, S, l), s))
  <2>1. load[t] = b.load[t]
    BY <1>2, <1>12
  <2>2. PICK l \in T :
          /\ a[l] = t
          /\ \A s \in RunnerIndices(n) :
               b.load[t] - w[l] <= SumOver(w, Given(a, Before(w, T, l), s))
    BY <1>5, <1>12, <2>1
  <2>3. \A s : Given(c, Before(w, S, l), s) = Given(a, Before(w, T, l), s)
    BY <1>6, <1>10 DEF Before, Given
  <2>4. l \in S /\ c[l] = t
    BY <1>6, <2>2
  <2> QED
    BY <2>1, <2>2, <2>3, <2>4
<1>13. ASSUME NEW s \in RunnerIndices(n)
       PROVE  load[r] - w[f] <= SumOver(w, Given(c, Before(w, S, f), s))
  <2>1. Given(c, T, s) = Given(a, T, s)
    BY <1>6 DEF Given
  <2>2. load[r] = b.load[r] + w[f] /\ b.load[r] \in Nat /\ b.load[s] \in Nat
    BY <1>1, <1>2
  <2>3. b.load[s] = SumOver(w, Given(a, T, s))
    BY <1>5
  <2> QED
    BY <1>3, <1>4, <1>11, <2>1, <2>2, <2>3
<1>14. \A t \in RunnerIndices(n) :
         \/ load[t] = 0
         \/ \E l \in S :
              /\ c[l] = t
              /\ \A s \in RunnerIndices(n) :
                   load[t] - w[l] <= SumOver(w, Given(c, Before(w, S, l), s))
  BY <1>3, <1>6, <1>12, <1>13
<1>15. Scheduled(w, load, S, n)
  BY <1>6, <1>9, <1>14 DEF Scheduled
<1> QED
  BY <1>15 DEF load

(* Whatever part of the files the loop has passed is scheduled so.         *)
LEMMA LoopSchedules ==
  ASSUME NEW w, Weighted(w), NEW n \in Nat \ {0}, NEW h, IsLoop(w, n, DOMAIN w, h),
         NEW S \in SUBSET DOMAIN w
  PROVE  Scheduled(w, h[S].load, S, n)
<1> DEFINE Bad == {T \in SUBSET DOMAIN w : ~ Scheduled(w, h[T].load, T, n)}
<1>0. NormalizedRunners(n) = n /\ n \in Int
  BY DEF NormalizedRunners
<1>1. ASSUME Bad # {} PROVE FALSE
  <2>1. IsFiniteSet(DOMAIN w) /\ Bad \in SUBSET SUBSET DOMAIN w
    BY WeightedFinite
  <2> HIDE DEF Bad
  <2>2. PICK T \in Bad : \A B \in Bad : B \subseteq T => B = T
    BY <1>1, <2>1, MinimalSet
  <2> USE DEF Bad
  <2>3. CASE T = {}
    <3>1. h[T] = EmptyBuilder(n)
      BY <1>0, <2>3 DEF IsLoop
    <3>2. \A r \in RunnerIndices(n) : h[T].load[r] = 0
      BY <3>1 DEF EmptyBuilder
    <3> DEFINE a == [f \in {} |-> 0]
    <3>3. a \in [{} -> RunnerIndices(n)] /\ \A r : Given(a, {}, r) = {}
      BY DEF Given
    <3> HIDE DEF a
    <3>4. Scheduled(w, h[T].load, {}, n)
      BY <3>2, <3>3, SumOfNone DEF Scheduled
    <3> QED
      BY <2>3, <3>4
  <2>4. CASE T # {}
    <3> DEFINE f == LastFile(w, T)
    <3>1. IsLast(w, T, f) /\ f \in T /\ T \in SUBSET DOMAIN w
      BY <2>4, LastExists DEF IsLast
    <3>2. h[T] = Pass(w, h[T \ {f}], f)
      BY <2>4 DEF IsLoop
    <3> HIDE DEF f
    <3>3. Scheduled(w, h[T \ {f}].load, T \ {f}, n)
      BY <2>2, <3>1
    <3>4. h[T \ {f}].load \in [RunnerIndices(n) -> Nat]
      <4>1. Holds(h[T \ {f}], T \ {f}, NormalizedRunners(n))
        BY <1>0, <3>1, LoopHolds
      <4> QED
        BY <1>0, <4>1 DEF Holds
    <3> QED
      BY <3>1, <3>2, <3>3, <3>4, PassSchedules
  <2> QED
    BY <2>3, <2>4
<1> QED
  BY <1>1

(* Each runner of such a schedule needs at most 4/3 - 1/(3n) of the time W *)
(* that n runners need under any assignment o.                             *)
LEMMA ScheduledIsNear ==
  ASSUME NEW w, Weighted(w), NEW S \in SUBSET DOMAIN w, NEW n \in Nat \ {0},
         NEW load \in [RunnerIndices(n) -> Nat], Scheduled(w, load, S, n),
         NEW W \in Nat, NEW o \in [S -> RunnerIndices(n)],
         \A s \in RunnerIndices(n) : SumOver(w, Given(o, S, s)) <= W,
         NEW r \in RunnerIndices(n)
  PROVE  3 * n * load[r] <= (4 * n - 1) * W
<1>0. \A z \in Nat : n * z \in Nat /\ 3 * n * z = 3 * (n * z) /\ (4 * n - 1) * z = 4 * (n * z) - z
  <2> SUFFICES ASSUME NEW z \in Nat
               PROVE  n * z \in Nat /\ 3 * n * z = 3 * (n * z) /\ (4 * n - 1) * z = 4 * (n * z) - z
    OBVIOUS
  <2> QED
    BY Times
<1>1. W <= n * W
  <2>1. 1 * W <= n * W
    BY TimesMonotonic
  <2> QED
    BY <2>1
<1>2. CASE load[r] = 0
  <2>1. n * 0 = 0
    OBVIOUS
  <2> QED
    BY <1>0, <1>1, <1>2, <2>1
<1>3. ASSUME NEW a \in [S -> RunnerIndices(n)],
             \A s \in RunnerIndices(n) : load[s] = SumOver(w, Given(a, S, s)),
             NEW l \in S, a[l] = r,
             \A s \in RunnerIndices(n) :
               load[r] - w[l] <= SumOver(w, Given(a, Before(w, S, l), s))
      PROVE  3 * n * load[r] <= (4 * n - 1) * W
  <2> DEFINE p == w[l]
             L == load[r] - p
             T == Before(w, S, l)
             U == T \cup {l}
             b == [f \in T |-> a[f]]
             q == [f \in U |-> o[f]]
  <2>1. /\ U \in SUBSET S /\ U \in SUBSET DOMAIN w /\ l \in U /\ U \ {l} = T /\ T \in SUBSET S
        /\ l \in DOMAIN w
    BY PrecedesOrders DEF Before
  <2>2. \A f \in DOMAIN w : w[f] \in Nat
    BY DEF Weighted
  <2>3. \A f \in U : p <= w[f]
    BY <2>1, <2>2 DEF Before, Precedes
  <2>4. Weighing(w, S) /\ Weighing(w, U) /\ Weighing(w, T)
    BY <2>1, WeightedWeighs
  <2>5. L \in Nat /\ p \in Nat
    <3> DEFINE A == Given(a, S, r)
    <3>1. l \in A /\ Weighing(w, A) /\ load[r] = SumOver(w, A)
      BY <1>3, <2>4, WeighingPart DEF Given
    <3> HIDE DEF A
    <3>2. Weighing(w, A \ {l})
      BY <3>1, WeighingPart
    <3>3. load[r] = p + SumOver(w, A \ {l}) /\ SumOver(w, A \ {l}) \in Nat
      BY <3>1, <3>2, SumRemove, SumTyped
    <3> QED
      BY <2>1, <2>2, <3>3
  <2>6. b \in [T -> RunnerIndices(n)] /\ \A s : Given(b, T, s) = Given(a, T, s)
    BY <2>1 DEF Given
  <2>7. q \in [U -> RunnerIndices(n)] /\ \A s : Given(q, U, s) \in SUBSET Given(o, S, s)
    BY <2>1 DEF Given
  <2> HIDE DEF b, q, U
  <2>8. \A s \in RunnerIndices(n) : L <= SumOver(w, Given(b, T, s))
    BY <1>3, <2>6
  <2>9. \A s \in RunnerIndices(n) : SumOver(w, Given(q, U, s)) <= W
    <3>1. ASSUME NEW s \in RunnerIndices(n)
          PROVE  SumOver(w, Given(q, U, s)) <= W
      <4>1. Weighing(w, Given(o, S, s)) /\ Weighing(w, Given(q, U, s))
        BY <2>4, <2>7, WeighingPart DEF Given
      <4>2. SumOver(w, Given(q, U, s)) <= SumOver(w, Given(o, S, s))
        BY <2>7, <4>1, SumOfPart
      <4>3. SumOver(w, Given(q, U, s)) \in Nat /\ SumOver(w, Given(o, S, s)) \in Nat
        BY <4>1, SumTyped
      <4> QED
        BY <4>2, <4>3
    <3> QED
      BY <3>1
  <2> HIDE DEF T, L
  <2>10. SumOver(w, U) = p + SumOver(w, T) /\ SumOver(w, U) \in Nat /\ SumOver(w, T) \in Nat
    BY <2>1, <2>4, SumRemove, SumTyped
  <2>11. SumOver(w, U) <= n * W
    <3>1. \A s \in RunnerIndices(n) : 0 <= SumOver(w, Given(q, U, s))
      <4>1. \A s : Given(q, U, s) \in SUBSET U
        BY DEF Given
      <4>2. \A s : SumOver(w, Given(q, U, s)) \in Nat
        BY <2>4, <4>1, WeighingPart, SumTyped
      <4> QED
        BY <4>2
    <3> QED
      BY <2>4, <2>7, <2>9, <3>1, SumOfShares
  <2>12. n * L <= SumOver(w, T)
    <3>1. \A s \in RunnerIndices(n) : SumOver(w, Given(b, T, s)) <= SumOver(w, T)
      <4>1. \A s : Given(b, T, s) \in SUBSET T
        BY DEF Given
      <4> QED
        BY <2>4, <4>1, SumOfPart
    <3> QED
      BY <2>4, <2>5, <2>6, <2>8, <2>10, <3>1, SumOfShares
  <2>13. load[r] = L + p
    BY <2>5 DEF L
  <2>14. CASE 3 * p <= W
    <3>1. (3 * p) * (n - 1) <= W * (n - 1)
      BY <2>5, <2>14, TimesMonotonic
    <3>2. (3 * p) * (n - 1) = 3 * (n * p) - 3 * p /\ W * (n - 1) = n * W - W
      BY <2>5
    <3>3. n * (L + p) = n * L + n * p
      BY <2>5
    <3>4. n * L \in Nat /\ n * p \in Nat /\ n * W \in Nat
      BY <1>0, <2>5
    <3>5. 3 * (n * (L + p)) <= 4 * (n * W) - W
      BY <2>5, <2>10, <2>11, <2>12, <3>1, <3>2, <3>3, <3>4
    <3> QED
      BY <1>0, <2>5, <2>13, <3>5
  <2>15. CASE 3 * p > W
    <3>1. U \ {l} = T
      BY <2>1
    <3>2. L + p <= W
      BY <2>1, <2>3, <2>4, <2>5, <2>6, <2>7, <2>8, <2>9, <2>15, LightestFits
    <3>3. (L + p) * n <= W * n
      BY <2>5, <3>2, TimesMonotonic
    <3>4. n * (L + p) <= n * W /\ n * (L + p) \in Nat /\ n * W \in Nat
      BY <1>0, <2>5, <3>3
    <3>5. 3 * (n * (L + p)) <= 4 * (n * W) - W
      BY <1>1, <3>4
    <3> QED
      BY <1>0, <2>5, <2>13, <3>5
  <2> QED
    BY <2>5, <2>14, <2>15
<1> QED
  BY <1>2, <1>3 DEF Scheduled

(* A split needs at most 4/3 - 1/(3n) of the time that n runners need      *)
(* under any assignment of the same files.                                 *)
THEOREM BuildIsNearOptimal ==
  ASSUME NEW w, Weighted(w), NEW n \in Nat \ {0},
         NEW o \in [DOMAIN w -> RunnerIndices(n)], NEW W \in Nat,
         \A r \in RunnerIndices(n) : SumOver(w, Given(o, DOMAIN w, r)) <= W
  PROVE  3 * n * WallTime(Build(w, n).load) <= (4 * n - 1) * W
<1> DEFINE load == Build(w, n).load
<1>1. NormalizedRunners(n) = n /\ n \in Int
  BY DEF NormalizedRunners
<1>2. load \in [RunnerIndices(n) -> Nat]
  BY <1>1, BuildHolds DEF Holds
<1>3. Scheduled(w, load, DOMAIN w, n)
  BY BuildIsLoop, LoopSchedules
<1> HIDE DEF load
<1>4. PICK r \in RunnerIndices(n) : WallTime(load) = load[r]
  BY <1>2, WallTimeIsSlowest
<1> QED
  BY <1>2, <1>3, <1>4, ScheduledIsNear DEF load
=============================================================================
