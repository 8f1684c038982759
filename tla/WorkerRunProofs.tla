-------------------------- MODULE WorkerRunProofs --------------------------
(***************************************************************************)
(* Proofs about WorkerRun, for any number of files, any commands and Node  *)
(* options and any number of signals: the list of files is the one that    *)
(* was promised, a report of an earlier discovery is not read, each worker *)
(* is asked for its own files and keeps the user's options, the library    *)
(* is loaded where it belongs, nothing is left behind and no signal is     *)
(* lost.                                                                   *)
(*                                                                         *)
(* First come the lemmas about CommandLines: what the elements are that    *)
(* Keeping and Without leave of a sequence, and how often Node options     *)
(* load a module.                                                          *)
(***************************************************************************)
EXTENDS WorkerRun, FiniteSetTheorems, WellFoundedInduction, TLAPS

(* Sequences that are built one element at a time.                         *)

(* What holds at 0, and at i when it does at i - 1, holds up to n.         *)
LEMMA UpTo ==
  ASSUME NEW n \in Nat, NEW S, 0 \in S, \A i \in 1 .. n : i - 1 \in S => i \in S
  PROVE  0 .. n \subseteq S
<1> DEFINE Bad == {i \in 0 .. n : i \notin S}
<1>1. ASSUME Bad # {} PROVE FALSE
  <2>1. Bad \subseteq Nat
    OBVIOUS
  <2>2. PICK i \in Bad : \A j \in Bad : ~ (<<j, i>> \in OpToRel(<, Nat))
    BY <1>1, <2>1, NatLessThanWellFounded, WFMin
  <2>3. \A j \in Bad : ~ (j < i)
    BY <2>1, <2>2 DEF OpToRel
  <2>4. i \in 1 .. n /\ i - 1 \in 0 .. n
    OBVIOUS
  <2> QED
    BY <2>3, <2>4
<1> QED
  BY <1>1

(* Values that are each made of the one before.                            *)
IsChain(h, n, base, turn) ==
  /\ h[0] = base
  /\ \A i \in 1 .. n : h[i] = turn[i][h[i - 1]]

LEMMA ChainExists ==
  ASSUME NEW n \in Nat, NEW X, NEW base \in X, NEW turn \in [1 .. n -> [X -> X]]
  PROVE  \E h \in [0 .. n -> X] : IsChain(h, n, base, turn)
<1> DEFINE S == {m \in 0 .. n : \E h \in [0 .. m -> X] : IsChain(h, m, base, turn)}
<1>1. 0 \in S
  <2> DEFINE h == [m \in 0 .. 0 |-> base]
  <2>1. h \in [0 .. 0 -> X] /\ IsChain(h, 0, base, turn)
    BY DEF IsChain
  <2> QED
    BY <2>1
<1>2. ASSUME NEW i \in 1 .. n, i - 1 \in S PROVE i \in S
  <2>1. PICK h \in [0 .. i - 1 -> X] : IsChain(h, i - 1, base, turn)
    BY <1>2
  <2> DEFINE k == [m \in 0 .. i |-> IF m = i THEN turn[i][h[i - 1]] ELSE h[m]]
  <2>2. h[i - 1] \in X /\ turn[i] \in [X -> X]
    OBVIOUS
  <2>3. k \in [0 .. i -> X]
    BY <2>2
  <2>4. IsChain(k, i, base, turn)
    <3>1. k[0] = base
      BY <2>1 DEF IsChain
    <3>2. \A m \in 1 .. i : k[m] = turn[m][k[m - 1]]
      <4> TAKE m \in 1 .. i
      <4>1. m - 1 # i /\ k[m - 1] = h[m - 1]
        OBVIOUS
      <4> QED
        BY <4>1, <2>1 DEF IsChain
    <3> QED
      BY <3>1, <3>2 DEF IsChain
  <2> QED
    BY <2>3, <2>4
<1> HIDE DEF S
<1>3. 0 .. n \subseteq S
  BY <1>1, <1>2, UpTo
<1> QED
  BY <1>3 DEF S

-----------------------------------------------------------------------------
(* Keeping.                                                                *)

(* u[n] is what Keeping has kept of the first n elements.                  *)
IsKept(u, s, places) ==
  u = [n \in 0 .. Len(s) |->
         IF n = 0 THEN <<>>
         ELSE IF n \in places THEN Append(u[n - 1], s[n]) ELSE u[n - 1]]

LEMMA KeptExists ==
  ASSUME NEW A, NEW s \in Seq(A), NEW places
  PROVE  \E u \in [0 .. Len(s) -> Seq(A)] : IsKept(u, s, places) /\ Keeping(s, places) = u[Len(s)]
<1> DEFINE n == Len(s)
           turn == [i \in 1 .. n |-> [t \in Seq(A) |->
                      IF i \in places THEN Append(t, s[i]) ELSE t]]
<1>1. turn \in [1 .. n -> [Seq(A) -> Seq(A)]]
  OBVIOUS
<1>2. n \in Nat /\ <<>> \in Seq(A)
  OBVIOUS
<1>3. PICK h \in [0 .. n -> Seq(A)] : IsChain(h, n, <<>>, turn)
  <2> HIDE DEF n, turn
  <2> QED
    BY <1>1, <1>2, ChainExists
<1>4. ASSUME NEW i \in 0 .. n
      PROVE  h[i] = IF i = 0 THEN <<>>
                    ELSE IF i \in places THEN Append(h[i - 1], s[i]) ELSE h[i - 1]
  <2>1. CASE i = 0
    BY <1>3, <2>1 DEF IsChain
  <2>2. CASE i # 0
    <3>1. i \in 1 .. n /\ i - 1 \in 0 .. n
      BY <2>2
    <3>2. h[i] = turn[i][h[i - 1]] /\ h[i - 1] \in Seq(A)
      BY <3>1, <1>3 DEF IsChain
    <3> QED
      BY <3>1, <3>2, <2>2
  <2> QED
    BY <2>1, <2>2
<1>5. IsKept(h, s, places)
  BY <1>4 DEF IsKept
<1> DEFINE u == CHOOSE u : IsKept(u, s, places)
<1>6. IsKept(u, s, places)
  BY <1>5
<1>7. Keeping(s, places) = u[n]
  BY DEF Keeping, IsKept
<1> HIDE DEF u
<1>8. u \in [0 .. n -> Seq(A)]
  <2> DEFINE S == {i \in 0 .. n : u[i] \in Seq(A)}
  <2>1. 0 \in S
    BY <1>6 DEF IsKept
  <2>2. \A i \in 1 .. n : i - 1 \in S => i \in S
    <3> SUFFICES ASSUME NEW i \in 1 .. n, u[i - 1] \in Seq(A) PROVE u[i] \in Seq(A)
      OBVIOUS
    <3>1. u[i] = IF i \in places THEN Append(u[i - 1], s[i]) ELSE u[i - 1]
      <4>1. i \in 0 .. Len(s) /\ i # 0
        BY <1>2
      <4> QED
        BY <1>6, <4>1 DEF IsKept
    <3>2. s[i] \in A
      OBVIOUS
    <3> QED
      BY <3>1, <3>2
  <2> HIDE DEF S
  <2>3. 0 .. n \subseteq S
    BY <2>1, <2>2, <1>2, UpTo
  <2> QED
    BY <2>3, <1>6 DEF S, IsKept
<1> QED
  BY <1>6, <1>7, <1>8

(* An order-preserving numbering of the places that are kept.              *)
IsNumbering(h, m, places) ==
  /\ h \in [1 .. m -> places]
  /\ \A a, b \in 1 .. m : a < b => h[a] < h[b]
  /\ \A i \in places : \E a \in 1 .. m : h[a] = i

(* What is kept are the elements at the places, in their order.            *)
LEMMA KeepingPlaces ==
  ASSUME NEW A, NEW s \in Seq(A), NEW places \in SUBSET (1 .. Len(s))
  PROVE  /\ Keeping(s, places) \in Seq(A)
         /\ \E h : /\ IsNumbering(h, Len(Keeping(s, places)), places)
                  /\ \A a \in 1 .. Len(Keeping(s, places)) : Keeping(s, places)[a] = s[h[a]]
<1>1. PICK u \in [0 .. Len(s) -> Seq(A)] :
        IsKept(u, s, places) /\ Keeping(s, places) = u[Len(s)]
  BY KeptExists
<1> DEFINE Upto(i) == {j \in places : j <= i}
           Good(i, h) == /\ IsNumbering(h, Len(u[i]), Upto(i))
                         /\ \A a \in 1 .. Len(u[i]) : u[i][a] = s[h[a]]
           S == {i \in 0 .. Len(s) : \E h : Good(i, h)}
<1>2. Len(s) \in Nat /\ \A j \in places : j \in 1 .. Len(s)
  OBVIOUS
<1>3. 0 \in S
  <2>1. u[0] = <<>>
    BY <1>1, <1>2 DEF IsKept
  <2>4. Upto(0) = {}
    BY <1>2
  <2> DEFINE e == [a \in {} |-> a]
  <2>2. Len(u[0]) = 0 /\ 1 .. 0 = {}
    BY <2>1
  <2>3. Good(0, e)
    BY <2>1, <2>2, <2>4 DEF IsNumbering
  <2>5. 0 \in 0 .. Len(s)
    BY <1>2
  <2> QED
    BY <2>3, <2>5
<1>4. ASSUME NEW i \in 1 .. Len(s), i - 1 \in S PROVE i \in S
  <2>1. PICK g : Good(i - 1, g)
    BY <1>4
  <2>2. i \in 0 .. Len(s) /\ i - 1 \in 0 .. Len(s) /\ i # 0
    BY <1>2
  <2>3. u[i] = IF i \in places THEN Append(u[i - 1], s[i]) ELSE u[i - 1]
    BY <1>1, <2>2 DEF IsKept
  <2> DEFINE m == Len(u[i - 1])
  <2>4. u[i - 1] \in Seq(A) /\ m \in Nat /\ s[i] \in A
    BY <2>2
  <2>5. CASE i \in places
    <3> DEFINE h == [a \in 1 .. m + 1 |-> IF a = m + 1 THEN i ELSE g[a]]
    <3>1. /\ Len(u[i]) = m + 1 /\ u[i][m + 1] = s[i]
          /\ \A a \in 1 .. m : u[i][a] = u[i - 1][a]
      BY <2>3, <2>4, <2>5
    <3> HIDE DEF m
    <3>2. Upto(i) = Upto(i - 1) \cup {i} /\ \A j \in Upto(i - 1) : j < i
      <4>1. \A j \in places : j <= i <=> j <= i - 1 \/ j = i
        BY <1>2
      <4>2. \A j \in places : j <= i - 1 => j < i
        BY <1>2
      <4> QED
        BY <2>5, <4>1, <4>2
    <3>4. h[m + 1] = i
      BY <2>4
    <3>5. \A a \in 1 .. m + 1 : a \in 1 .. m \/ a = m + 1
      BY <2>4
    <3>6. IsNumbering(g, m, Upto(i - 1)) /\ \A a \in 1 .. m : u[i - 1][a] = s[g[a]]
      BY <2>1 DEF m
    <3>3. \A a \in 1 .. m : h[a] = g[a] /\ h[a] \in Upto(i - 1)
      <4> HIDE DEF Upto
      <4> QED
        BY <3>6, <2>4 DEF IsNumbering
    <3> HIDE DEF h, Upto
    <3>7. h \in [1 .. m + 1 -> Upto(i)]
      BY <3>2, <3>3, <3>4, <3>5 DEF h
    <3>8. \A a, b \in 1 .. m + 1 : a < b => h[a] < h[b]
      <4> TAKE a \in 1 .. m + 1, b \in 1 .. m + 1
      <4> HAVE a < b
      <4>1. a \in 1 .. m
        BY <2>4
      <4>2. CASE b = m + 1
        BY <4>1, <4>2, <3>2, <3>3, <3>4
      <4>3. CASE b \in 1 .. m
        BY <4>1, <4>3, <3>3, <3>6 DEF IsNumbering
      <4> QED
        BY <4>2, <4>3, <3>5
    <3>9. \A j \in Upto(i) : \E a \in 1 .. m + 1 : h[a] = j
      <4> TAKE j \in Upto(i)
      <4>1. CASE j = i
        BY <4>1, <3>4, <2>4
      <4>2. CASE j \in Upto(i - 1)
        <5>1. PICK a \in 1 .. m : g[a] = j
          BY <4>2, <3>6 DEF IsNumbering
        <5> QED
          BY <5>1, <3>3, <2>4
      <4> QED
        BY <4>1, <4>2, <3>2
    <3>10. \A a \in 1 .. m + 1 : u[i][a] = s[h[a]]
      BY <3>1, <3>3, <3>4, <3>5, <3>6
    <3> USE DEF Upto
    <3>11. Good(i, h)
      BY <3>1, <3>7, <3>8, <3>9, <3>10 DEF IsNumbering
    <3> QED
      BY <2>2, <3>11
  <2>6. CASE i \notin places
    <3>1. Upto(i) = Upto(i - 1) /\ u[i] = u[i - 1]
      <4>1. \A j \in places : j <= i <=> j <= i - 1
        BY <1>2, <2>6
      <4> QED
        BY <2>3, <2>6, <4>1
    <3>2. Good(i, g)
      BY <2>1, <3>1
    <3> QED
      BY <2>2, <3>2
  <2> QED
    BY <2>5, <2>6
<1> HIDE DEF S
<1>5. 0 .. Len(s) \subseteq S
  BY <1>2, <1>3, <1>4, UpTo
<1>6. Len(s) \in 0 .. Len(s) /\ Upto(Len(s)) = places
  <2>1. \A j \in places : j <= Len(s)
    BY <1>2
  <2> QED
    BY <1>2, <2>1
<1>7. \E h : Good(Len(s), h)
  BY <1>5, <1>6 DEF S
<1> QED
  BY <1>1, <1>6, <1>7

-----------------------------------------------------------------------------
(* Node options.                                                           *)

Places(options, module) == {i \in DOMAIN options : options[i].module = module}

LEMMA PlacesFinite ==
  ASSUME NEW A, NEW s \in Seq(A), NEW module
  PROVE  /\ IsFiniteSet(Places(s, module)) /\ TimesLoaded(s, module) \in Nat
         /\ TimesLoaded(s, module) = 0 <=> \A x \in ToSet(s) : x.module # module
<1>1. DOMAIN s = 1 .. Len(s) /\ Len(s) \in Nat
  OBVIOUS
<1>2. IsFiniteSet(1 .. Len(s)) /\ Places(s, module) \subseteq 1 .. Len(s)
  BY <1>1, FS_Interval DEF Places
<1>3. IsFiniteSet(Places(s, module))
  BY <1>2, FS_Subset
<1>4. Cardinality(Places(s, module)) \in Nat
      /\ (Cardinality(Places(s, module)) = 0 <=> Places(s, module) = {})
  BY <1>3, FS_CardinalityType, FS_EmptySet
<1>5. Places(s, module) = {} <=> \A x \in ToSet(s) : x.module # module
  BY DEF Places, ToSet
<1>6. TimesLoaded(s, module) = Cardinality(Places(s, module))
  BY DEF TimesLoaded, Places
<1> QED
  BY <1>3, <1>4, <1>5, <1>6

(* Renumbering the places where a module is loaded does not change how     *)
(* often it is.                                                            *)
LEMMA SameTimes ==
  ASSUME NEW A, NEW s \in Seq(A), NEW t \in Seq(A), NEW module,
         NEW h \in [Places(t, module) -> Places(s, module)],
         \A a, b \in Places(t, module) : h[a] = h[b] => a = b,
         \A i \in Places(s, module) : \E a \in Places(t, module) : h[a] = i
  PROVE  TimesLoaded(t, module) = TimesLoaded(s, module)
<1>1. IsFiniteSet(Places(s, module)) /\ IsFiniteSet(Places(t, module))
  BY PlacesFinite
<1>2. h \in Bijection(Places(t, module), Places(s, module))
  BY DEF Bijection, Injection, Surjection, IsInjective
<1>3. Cardinality(Places(t, module)) = Cardinality(Places(s, module))
  BY <1>1, <1>2, FS_Bijection DEF ExistsBijection
<1> QED
  BY <1>3 DEF TimesLoaded, Places

(* A module that is stripped in its forms is gone; others stay.            *)
LEMMA StripTimes ==
  ASSUME NEW s \in Seq(NodeArg), NEW forms, NEW module
  PROVE  /\ Strip(s, forms, module) \in Seq(NodeArg)
         /\ ToSet(Strip(s, forms, module)) =
              {x \in ToSet(s) : ~ (x.module = module /\ x.form \in forms)}
         /\ \A m : m # module => TimesLoaded(Strip(s, forms, module), m) = TimesLoaded(s, m)
<1> DEFINE places == {i \in DOMAIN s : ~ (s[i].module = module /\ s[i].form \in forms)}
           t == Keeping(s, places)
<1>1. places \in SUBSET (1 .. Len(s)) /\ DOMAIN s = 1 .. Len(s) /\ Len(s) \in Nat
  OBVIOUS
<1>2. Strip(s, forms, module) = t
  BY DEF Strip
<1> HIDE DEF t, places
<1>3. t \in Seq(NodeArg)
  BY <1>1, KeepingPlaces DEF t
<1>4. PICK h : IsNumbering(h, Len(t), places) /\ \A a \in 1 .. Len(t) : t[a] = s[h[a]]
  BY <1>1, KeepingPlaces DEF t
<1>5. DOMAIN t = 1 .. Len(t) /\ Len(t) \in Nat
  BY <1>3
<1>6. \A i \in DOMAIN t : h[i] \in DOMAIN s /\ t[i] = s[h[i]]
                            /\ ~ (s[h[i]].module = module /\ s[h[i]].form \in forms)
  BY <1>4, <1>5 DEF IsNumbering, places
<1>7. ASSUME NEW m, m # module PROVE TimesLoaded(t, m) = TimesLoaded(s, m)
  <2> DEFINE g == [a \in Places(t, m) |-> h[a]]
  <2>1. g \in [Places(t, m) -> Places(s, m)]
    BY <1>6 DEF Places
  <2>2. \A a, b \in Places(t, m) : g[a] = g[b] => a = b
    <3> TAKE a \in Places(t, m), b \in Places(t, m)
    <3>1. a \in 1 .. Len(t) /\ b \in 1 .. Len(t)
      BY <1>5 DEF Places
    <3>2. a < b \/ b < a \/ a = b
      BY <3>1, <1>5
    <3>3. h[a] \in Nat /\ h[b] \in Nat
      BY <3>1, <1>5, <1>6, <1>1
    <3> QED
      BY <3>1, <3>2, <3>3, <1>4 DEF IsNumbering
  <2>3. \A i \in Places(s, m) : \E a \in Places(t, m) : g[a] = i
    <3> TAKE i \in Places(s, m)
    <3>1. i \in places
      BY <1>7 DEF Places, places
    <3>2. PICK a \in 1 .. Len(t) : h[a] = i
      BY <3>1, <1>4 DEF IsNumbering
    <3>3. a \in Places(t, m)
      BY <3>2, <1>4, <1>5 DEF Places
    <3> QED
      BY <3>2, <3>3
  <2> HIDE DEF g
  <2> QED
    BY <1>3, <2>1, <2>2, <2>3, SameTimes
<1>8. ToSet(t) = {x \in ToSet(s) : ~ (x.module = module /\ x.form \in forms)}
  <2>1. ASSUME NEW x \in ToSet(t) PROVE x \in ToSet(s) /\ ~ (x.module = module /\ x.form \in forms)
    BY <1>6 DEF ToSet
  <2>2. ASSUME NEW x \in ToSet(s), ~ (x.module = module /\ x.form \in forms) PROVE x \in ToSet(t)
    <3>1. PICK i \in DOMAIN s : x = s[i]
      BY DEF ToSet
    <3>2. i \in places
      BY <2>2, <3>1 DEF places
    <3>3. PICK a \in 1 .. Len(t) : h[a] = i
      BY <3>2, <1>4 DEF IsNumbering
    <3>4. t[a] = x
      BY <1>4, <3>1, <3>3
    <3> QED
      BY <1>5, <3>4 DEF ToSet
  <2> QED
    BY <2>1, <2>2
<1> QED
  BY <1>2, <1>3, <1>7, <1>8

LEMMA ConcatShape ==
  ASSUME NEW A, NEW s \in Seq(A), NEW t \in Seq(A)
  PROVE  /\ s \o t \in Seq(A) /\ Len(s \o t) = Len(s) + Len(t)
         /\ \A i \in 1 .. Len(s) : (s \o t)[i] = s[i]
         /\ \A i \in 1 .. Len(t) : (s \o t)[Len(s) + i] = t[i]
         /\ DOMAIN (s \o t) = 1 .. Len(s) + Len(t)
         /\ \A k \in 1 .. Len(s) + Len(t) :
              k \in 1 .. Len(s) \/ \E i \in 1 .. Len(t) : k = Len(s) + i
<1>1. \A k \in 1 .. Len(s) + Len(t) : k \in 1 .. Len(s) \/ \E i \in 1 .. Len(t) : k = Len(s) + i
  <2> TAKE k \in 1 .. Len(s) + Len(t)
  <2>1. Len(s) \in Nat /\ Len(t) \in Nat
    OBVIOUS
  <2>2. CASE k > Len(s)
    <3>1. k - Len(s) \in 1 .. Len(t) /\ k = Len(s) + (k - Len(s))
      BY <2>1, <2>2
    <3> QED
      BY <3>1
  <2> QED
    BY <2>1, <2>2
<1> QED
  BY <1>1

LEMMA ConcatTimes ==
  ASSUME NEW A, NEW s \in Seq(A), NEW t \in Seq(A), NEW module
  PROVE  TimesLoaded(s \o t, module) = TimesLoaded(s, module) + TimesLoaded(t, module)
<1> DEFINE u == s \o t
           n == Len(s)
           P == Places(s, module)
           Q == {k \in Places(u, module) : k > n}
<1>1. n \in Nat /\ Len(t) \in Nat /\ DOMAIN s = 1 .. n /\ DOMAIN t = 1 .. Len(t)
  OBVIOUS
<1>2. /\ u \in Seq(A) /\ DOMAIN u = 1 .. n + Len(t)
      /\ \A i \in 1 .. n : u[i] = s[i]
      /\ \A i \in 1 .. Len(t) : u[n + i] = t[i]
  BY ConcatShape
<1> HIDE DEF u, n
<1>3. Places(u, module) = P \cup Q /\ P \cap Q = {}
  <2>1. ASSUME NEW k \in 1 .. n PROVE k \in 1 .. n + Len(t) /\ ~ (k > n) /\ u[k] = s[k]
    BY <1>1, <1>2
  <2>2. ASSUME NEW k \in 1 .. n + Len(t), ~ (k > n) PROVE k \in 1 .. n
    BY <1>1, <2>2
  <2> QED
    BY <1>1, <1>2, <2>1, <2>2 DEF Places
<1>4. IsFiniteSet(Places(u, module)) /\ IsFiniteSet(P) /\ IsFiniteSet(Places(t, module))
  BY <1>2, PlacesFinite
<1>5. IsFiniteSet(Q)
  BY <1>3, <1>4, FS_Subset
<1>6. Cardinality(Q) = Cardinality(Places(t, module))
  <2> DEFINE h == [i \in Places(t, module) |-> n + i]
  <2>1. \A i \in Places(t, module) : i \in 1 .. Len(t)
    BY <1>1 DEF Places
  <2>2. ASSUME NEW i \in Places(t, module) PROVE n + i \in Q
    <3>1. n + i \in 1 .. n + Len(t) /\ n + i > n
      BY <1>1, <2>1
    <3> QED
      BY <3>1, <2>1, <1>2 DEF Places
  <2>3. ASSUME NEW k \in Q PROVE \E i \in Places(t, module) : h[i] = k
    <3>1. k \in 1 .. n + Len(t) /\ k > n /\ u[k].module = module
      BY <1>2 DEF Places
    <3>2. k - n \in 1 .. Len(t) /\ n + (k - n) = k
      BY <1>1, <3>1
    <3>3. k - n \in Places(t, module)
      BY <3>1, <3>2, <1>1, <1>2 DEF Places
    <3> QED
      BY <3>2, <3>3
  <2>4. \A i, j \in Places(t, module) : h[i] = h[j] => i = j
    BY <1>1, <2>1
  <2>5. h \in Bijection(Places(t, module), Q)
    BY <2>2, <2>3, <2>4 DEF Bijection, Injection, Surjection, IsInjective
  <2> QED
    BY <1>4, <1>5, <2>5, FS_Bijection DEF ExistsBijection
<1>7. Cardinality(P \cup Q) = Cardinality(P) + Cardinality(Q)
  <2>1. Cardinality(P \cap Q) = 0
    BY <1>3, FS_EmptySet
  <2>2. Cardinality(P) \in Nat /\ Cardinality(Q) \in Nat
    BY <1>4, <1>5, FS_CardinalityType
  <2>3. Cardinality(P \cup Q) = Cardinality(P) + Cardinality(Q) - Cardinality(P \cap Q)
    BY <1>4, <1>5, FS_Union
  <2> HIDE DEF P, Q
  <2> QED
    BY <2>1, <2>2, <2>3
<1> QED
  BY <1>3, <1>6, <1>7 DEF TimesLoaded, Places, u

LEMMA OneTimes ==
  ASSUME NEW A, NEW x \in A
  PROVE  /\ <<x>> \in Seq(A) /\ Len(<<x>>) = 1 /\ <<x>>[1] = x
         /\ \A module : TimesLoaded(<<x>>, module) = IF x.module = module THEN 1 ELSE 0
<1> SUFFICES ASSUME NEW module
             PROVE  TimesLoaded(<<x>>, module) = IF x.module = module THEN 1 ELSE 0
  OBVIOUS
<1>1. {i \in DOMAIN <<x>> : <<x>>[i].module = module} = IF x.module = module THEN {1} ELSE {}
  OBVIOUS
<1> QED
  BY <1>1, FS_Singleton, FS_EmptySet DEF TimesLoaded

LEMMA ConcatElements ==
  ASSUME NEW A, NEW s \in Seq(A), NEW t \in Seq(A)
  PROVE  ToSet(s \o t) = ToSet(s) \cup ToSet(t)
<1> DEFINE u == s \o t
<1>1. DOMAIN s = 1 .. Len(s) /\ DOMAIN t = 1 .. Len(t) /\ Len(s) \in Nat /\ Len(t) \in Nat
  OBVIOUS
<1>2. /\ DOMAIN u = 1 .. Len(s) + Len(t)
      /\ \A i \in 1 .. Len(s) : u[i] = s[i]
      /\ \A i \in 1 .. Len(t) : u[Len(s) + i] = t[i]
      /\ \A k \in 1 .. Len(s) + Len(t) :
           k \in 1 .. Len(s) \/ \E i \in 1 .. Len(t) : k = Len(s) + i
  BY ConcatShape
<1> HIDE DEF u
<1>3. /\ \A i \in 1 .. Len(s) : i \in 1 .. Len(s) + Len(t)
      /\ \A i \in 1 .. Len(t) : Len(s) + i \in 1 .. Len(s) + Len(t)
  BY <1>1
<1>4. \A x \in ToSet(u) : x \in ToSet(s) \cup ToSet(t)
  <2> TAKE x \in ToSet(u)
  <2>1. PICK k \in 1 .. Len(s) + Len(t) : x = u[k]
    BY <1>2 DEF ToSet
  <2>2. CASE k \in 1 .. Len(s)
    BY <1>1, <1>2, <2>1, <2>2 DEF ToSet
  <2>3. ASSUME NEW i \in 1 .. Len(t), k = Len(s) + i PROVE x \in ToSet(t)
    BY <1>1, <1>2, <2>1, <2>3 DEF ToSet
  <2> QED
    BY <1>2, <2>2, <2>3
<1>5. ASSUME NEW x \in ToSet(s) PROVE x \in ToSet(u)
  BY <1>1, <1>2, <1>3 DEF ToSet
<1>6. ASSUME NEW x \in ToSet(t) PROVE x \in ToSet(u)
  <2>1. PICK i \in 1 .. Len(t) : x = t[i]
    BY <1>1 DEF ToSet
  <2>2. Len(s) + i \in DOMAIN u /\ u[Len(s) + i] = x
    BY <1>2, <1>3, <2>1
  <2> QED
    BY <2>2 DEF ToSet
<1> QED
  BY <1>4, <1>5, <1>6 DEF u

(* Names of modules, and the options that the platform adds.               *)
InitOption == Load("-r M", CIInit)
RegisterOption == Load("--import M", Register)

LEMMA ModuleNames ==
  /\ CIInit # Register /\ "adapter" \notin {CIInit, Register}
  /\ \A m : m \in Spelled(m) /\ Spelled(m) \subseteq Containing(m)
  /\ CIInit \notin Containing(Register) /\ Register \notin Containing(CIInit)
BY DEF CIInit, InitPath, Register, RegisterPath, Lookalike, Spelled, Containing

LEMMA LoadedArgs ==
  /\ InitOption \in NodeArg /\ InitOption.module = CIInit /\ IsRemovable(InitOption, CIInit)
  /\ RegisterOption \in NodeArg /\ RegisterOption.module = Register
  /\ IsRemovable(RegisterOption, Register)
BY ModuleNames DEF InitOption, RegisterOption, Load, NodeArg, RequireForms, ImportForms, Modules,
   IsRemovable

LEMMA InTerms ==
  ASSUME NEW s, NEW m
  PROVE  /\ Loads(s, m) <=> \E x \in ToSet(s) : x.module \in Spelled(m)
         /\ Mentions(s, m) <=> \E x \in ToSet(s) : x.module \in Containing(m)
BY DEF Loads, Mentions, ToSet

(* One option that is put in front.                                        *)
LEMMA InFront ==
  ASSUME NEW x \in NodeArg, NEW s \in Seq(NodeArg)
  PROVE  /\ <<x>> \o s \in Seq(NodeArg) /\ ToSet(<<x>> \o s) = {x} \cup ToSet(s)
         /\ \A m : TimesLoaded(<<x>> \o s, m) = TimesLoaded(s, m) + IF x.module = m THEN 1 ELSE 0
<1> DEFINE t == <<x>>
<1>1. /\ t \in Seq(NodeArg) /\ Len(t) = 1 /\ t[1] = x
      /\ \A m : TimesLoaded(t, m) = IF x.module = m THEN 1 ELSE 0
  BY OneTimes
<1>2. ToSet(t) = {x}
  BY DEF ToSet
<1> HIDE DEF t
<1>3. t \o s \in Seq(NodeArg) /\ ToSet(t \o s) = {x} \cup ToSet(s)
  BY <1>1, <1>2, ConcatShape, ConcatElements
<1>4. ASSUME NEW m PROVE TimesLoaded(t \o s, m) = TimesLoaded(s, m) + IF x.module = m THEN 1 ELSE 0
  <2>1. TimesLoaded(t \o s, m) = TimesLoaded(t, m) + TimesLoaded(s, m)
    BY <1>1, ConcatTimes
  <2>2. TimesLoaded(s, m) \in Nat
    BY PlacesFinite
  <2>3. TimesLoaded(t, m) = IF x.module = m THEN 1 ELSE 0
    BY <1>1
  <2>4. CASE x.module = m
    BY <2>1, <2>2, <2>3, <2>4
  <2>5. CASE x.module # m
    BY <2>1, <2>2, <2>3, <2>5
  <2> QED
    BY <2>4, <2>5
<1> QED
  BY <1>3, <1>4 DEF t

(* The platform adds a module of the library that is not mentioned; what   *)
(* else a worker's process loads is the user's.                            *)
LEMMA PlatformTimes ==
  ASSUME NEW f, NEW o \in Seq(NodeArg)
  PROVE  LET p == PlatformOptions(f, o)
         IN  /\ p \in Seq(NodeArg) /\ ToSet(o) \subseteq ToSet(p)
             /\ \A x \in ToSet(p) : \/ x \in ToSet(o) \/ x = InitOption
                                    \/ (f = "vitest" /\ x = RegisterOption)
             /\ \A m : TimesLoaded(p, m) =
                        IF ~ Mentions(o, m) /\ (m = CIInit \/ (f = "vitest" /\ m = Register))
                        THEN 1 ELSE TimesLoaded(o, m)
<1> DEFINE init == IF Mentions(o, CIInit) THEN o ELSE <<InitOption>> \o o
<1>1. /\ init \in Seq(NodeArg) /\ ToSet(o) \subseteq ToSet(init)
      /\ \A x \in ToSet(init) : x \in ToSet(o) \/ x = InitOption
      /\ \A m : TimesLoaded(init, m) = IF ~ Mentions(o, m) /\ m = CIInit THEN 1 ELSE TimesLoaded(o, m)
  <2>1. CASE Mentions(o, CIInit)
    BY <2>1
  <2>2. CASE ~ Mentions(o, CIInit)
    <3>1. init = <<InitOption>> \o o
      BY <2>2
    <3> HIDE DEF init
    <3>2. /\ init \in Seq(NodeArg) /\ ToSet(init) = {InitOption} \cup ToSet(o)
          /\ \A m : TimesLoaded(init, m) = TimesLoaded(o, m) + IF CIInit = m THEN 1 ELSE 0
      BY <3>1, LoadedArgs, InFront
    <3>3. TimesLoaded(o, CIInit) = 0
      BY <2>2, PlacesFinite, InTerms, ModuleNames
    <3>4. \A m : TimesLoaded(o, m) \in Nat
      BY PlacesFinite
    <3> QED
      BY <2>2, <3>2, <3>3, <3>4
  <2> QED
    BY <2>1, <2>2
<1>2. PlatformOptions(f, o) = IF f # "vitest" \/ Mentions(init, Register) THEN init
                             ELSE <<RegisterOption>> \o init
  BY DEF PlatformOptions, InitOption, RegisterOption
<1> HIDE DEF init
<1>3. Mentions(init, Register) <=> Mentions(o, Register)
  BY <1>1, InTerms, LoadedArgs, ModuleNames
<1>4. CASE f # "vitest" \/ Mentions(init, Register)
  <2>1. PlatformOptions(f, o) = init
    BY <1>2, <1>4
  <2> QED
    BY <1>1, <1>3, <1>4, <2>1, ModuleNames
<1>5. CASE f = "vitest" /\ ~ Mentions(init, Register)
  <2> DEFINE p == PlatformOptions(f, o)
  <2>1. p = <<RegisterOption>> \o init
    BY <1>2, <1>5
  <2> HIDE DEF p
  <2>2. /\ p \in Seq(NodeArg) /\ ToSet(p) = {RegisterOption} \cup ToSet(init)
        /\ \A m : TimesLoaded(p, m) = TimesLoaded(init, m) + IF Register = m THEN 1 ELSE 0
    BY <1>1, <2>1, LoadedArgs, InFront
  <2>3. TimesLoaded(init, Register) = 0
    BY <1>1, <1>5, PlacesFinite, InTerms, ModuleNames
  <2>4. \A m : TimesLoaded(init, m) \in Nat
    BY <1>1, PlacesFinite
  <2>5. \A m : TimesLoaded(p, m) =
               IF ~ Mentions(o, m) /\ (m = CIInit \/ (f = "vitest" /\ m = Register))
               THEN 1 ELSE TimesLoaded(o, m)
    <3> TAKE m
    <3>1. CASE m = Register
      BY <1>3, <1>5, <2>2, <2>3, <3>1
    <3>2. CASE m # Register
      <4>1. TimesLoaded(p, m) = TimesLoaded(init, m)
        BY <2>2, <2>4, <3>2
      <4> QED
        BY <1>1, <3>2, <4>1
    <3> QED
      BY <3>1, <3>2
  <2>6. /\ ToSet(o) \subseteq ToSet(p)
        /\ \A x \in ToSet(p) : \/ x \in ToSet(o) \/ x = InitOption
                               \/ (f = "vitest" /\ x = RegisterOption)
    BY <1>1, <1>5, <2>2
  <2> QED
    BY <2>2, <2>5, <2>6 DEF p
<1> QED
  BY <1>4, <1>5

(* The process that lists the files loads the library where the user wrote *)
(* an option that is not removed; what else it loads is the user's.        *)
LEMMA DiscoveryTimes ==
  ASSUME NEW f, NEW o \in Seq(NodeArg)
  PROVE  LET library == {CIInit} \cup IF f = "vitest" THEN {Register} ELSE {}
             listing == DiscoveryOptions(f, o)
         IN  /\ \A m \in library :
                  Loads(listing, m) <=>
                    \E x \in ToSet(o) : x.module \in Spelled(m) /\ ~ IsRemovable(x, m)
             /\ \A m : m \notin library => TimesLoaded(listing, m) = TimesLoaded(o, m)
<1> DEFINE library == {CIInit} \cup IF f = "vitest" THEN {Register} ELSE {}
           p == PlatformOptions(f, o)
           q == Strip(p, RequireForms, CIInit)
           r == Strip(q, ImportForms, Register)
           listing == DiscoveryOptions(f, o)
<1>1. /\ p \in Seq(NodeArg) /\ ToSet(o) \subseteq ToSet(p)
      /\ \A x \in ToSet(p) : \/ x \in ToSet(o) \/ x = InitOption
                             \/ (f = "vitest" /\ x = RegisterOption)
      /\ \A m : m \notin library => TimesLoaded(p, m) = TimesLoaded(o, m)
  BY PlatformTimes
<1> HIDE DEF p
<1>2. /\ q \in Seq(NodeArg)
      /\ ToSet(q) = {x \in ToSet(p) : ~ (x.module = CIInit /\ x.form \in RequireForms)}
      /\ \A m : m # CIInit => TimesLoaded(q, m) = TimesLoaded(p, m)
  BY <1>1, StripTimes
<1>3. listing = IF f = "vitest" THEN r ELSE q
  BY DEF DiscoveryOptions, WithoutInit, p
<1> HIDE DEF q
<1>4. /\ ToSet(r) = {x \in ToSet(q) : ~ (x.module = Register /\ x.form \in ImportForms)}
      /\ \A m : m # Register => TimesLoaded(r, m) = TimesLoaded(q, m)
  BY <1>2, StripTimes
<1> HIDE DEF r, listing
<1>5. \A m : m \notin library => TimesLoaded(listing, m) = TimesLoaded(o, m)
  BY <1>1, <1>2, <1>3, <1>4
<1>6. \A x : x \in ToSet(listing) <=>
               x \in ToSet(p) /\ \A m \in library : ~ IsRemovable(x, m)
  <2>1. \A x : /\ IsRemovable(x, CIInit) <=> x.module = CIInit /\ x.form \in RequireForms
               /\ IsRemovable(x, Register) <=> x.module = Register /\ x.form \in ImportForms
    BY ModuleNames DEF IsRemovable
  <2> QED
    BY <1>2, <1>3, <1>4, <2>1
<1>7. \A x, m, n : IsRemovable(x, m) /\ x.module \in Spelled(n) /\ n \in library /\ m \in library
        => m = n
  BY ModuleNames DEF IsRemovable
<1>8. \A m \in library : Loads(listing, m) <=>
        \E x \in ToSet(o) : x.module \in Spelled(m) /\ ~ IsRemovable(x, m)
  <2> TAKE m \in library
  <2>1. ASSUME NEW x \in ToSet(listing), x.module \in Spelled(m)
        PROVE  x \in ToSet(o) /\ ~ IsRemovable(x, m)
    BY <1>1, <1>6, <2>1, LoadedArgs
  <2>2. ASSUME NEW x \in ToSet(o), x.module \in Spelled(m), ~ IsRemovable(x, m)
        PROVE  x \in ToSet(listing)
    BY <1>1, <1>6, <1>7, <2>2
  <2> QED
    BY <2>1, <2>2, InTerms
<1> QED
  BY <1>5, <1>8 DEF listing

-----------------------------------------------------------------------------
(* What Without leaves of a command.                                       *)

(* How many values an option may take.                                     *)
Kinds == {"none", "one", "optional", "many"}

Typed(s, arity) == \A i \in DOMAIN s : arity[s[i].text] \in Kinds

(* Options that need a value have one.                                     *)
Obeys(s, arity) ==
  \A i \in DOMAIN s : s[i].kind = "option" /\ arity[s[i].text] \in {"one", "many"} =>
     i < Len(s) /\ IsWord(s[i + 1])

Owned(s, arity, j) == \E i \in DOMAIN s : Owns(s, arity, i, j)

(* A word belongs to one option at most: the last argument before it that  *)
(* is not a word.                                                          *)
LEMMA OneOwner ==
  ASSUME NEW A, NEW s \in Seq(A), NEW arity,
         NEW i \in DOMAIN s, NEW k \in DOMAIN s, NEW j \in DOMAIN s,
         Owns(s, arity, i, j), Owns(s, arity, k, j)
  PROVE  i = k
<1>1. i \in Nat /\ k \in Nat /\ j \in Nat
  OBVIOUS
<1>2. ASSUME NEW a \in Nat, NEW b \in Nat, Owns(s, arity, a, j), Owns(s, arity, b, j), a < b PROVE FALSE
  <2>1. a < j /\ b < j /\ s[b].kind = "option"
    BY <1>2 DEF Owns
  <2>2. b \in a + 1 .. j /\ j # a + 1
    BY <1>1, <1>2, <2>1
  <2>3. IsWord(s[b])
    BY <1>2, <2>2 DEF Owns
  <2> QED
    BY <2>1, <2>3 DEF IsWord
<1>3. i < k \/ k < i \/ i = k
  BY <1>1
<1> QED
  BY <1>1, <1>2, <1>3

(* The states of the scan.                                                 *)
IsScan(c, s, dropped, arity) ==
  c = [n \in 0 .. Len(s) |-> IF n = 0 THEN [keep |-> TRUE, wanted |-> "none"]
                             ELSE Scanned(s[n], c[n - 1], dropped, arity)]

States == [keep : BOOLEAN, wanted : Kinds]

Scans(c, s, dropped, arity) ==
  /\ c[0] = [keep |-> TRUE, wanted |-> "none"]
  /\ \A n \in 1 .. Len(s) : c[n] = Scanned(s[n], c[n - 1], dropped, arity)

KeptBy(c, s) == {n \in DOMAIN s : c[n].keep}

LEMMA ScannedTyped ==
  ASSUME NEW arg, NEW x \in States, NEW dropped, NEW arity, arity[arg.text] \in Kinds
  PROVE  /\ Scanned(arg, x, dropped, arity) \in States
         /\ Belongs(arg, x.wanted) =>
              /\ Scanned(arg, x, dropped, arity).keep = x.keep
              /\ Scanned(arg, x, dropped, arity).wanted = IF x.wanted = "many" THEN "many" ELSE "none"
         /\ ~ Belongs(arg, x.wanted) =>
              /\ Scanned(arg, x, dropped, arity).keep = (arg \notin dropped)
              /\ Scanned(arg, x, dropped, arity).wanted =
                   IF arg.kind = "option" THEN arity[arg.text] ELSE "none"
<1> QED
  BY DEF Scanned, States, Kinds

LEMMA ScanExists ==
  ASSUME NEW A, NEW s \in Seq(A), NEW dropped, NEW arity, Typed(s, arity)
  PROVE  \E c \in [0 .. Len(s) -> States] :
           Scans(c, s, dropped, arity) /\ Without(s, dropped, arity) = Keeping(s, KeptBy(c, s))
<1> DEFINE n == Len(s)
           base == [keep |-> TRUE, wanted |-> "none"]
           turn == [i \in 1 .. n |-> [x \in States |-> Scanned(s[i], x, dropped, arity)]]
<1>1. n \in Nat /\ DOMAIN s = 1 .. n
  OBVIOUS
<1>2. base \in States
  BY DEF States, Kinds
<1>3. \A i \in 1 .. n, x \in States : Scanned(s[i], x, dropped, arity) \in States
  BY <1>1, ScannedTyped DEF Typed
<1> HIDE DEF n, base
<1>4. turn \in [1 .. n -> [States -> States]]
  BY <1>3
<1>5. PICK h \in [0 .. n -> States] : IsChain(h, n, base, turn)
  <2> HIDE DEF turn
  <2> QED
    BY <1>1, <1>2, <1>4, ChainExists
<1>6. ASSUME NEW i \in 0 .. n
      PROVE  h[i] = IF i = 0 THEN base ELSE Scanned(s[i], h[i - 1], dropped, arity)
  <2>1. CASE i = 0
    BY <1>5, <2>1 DEF IsChain
  <2>2. CASE i # 0
    <3>1. i \in 1 .. n /\ i - 1 \in 0 .. n
      BY <1>1, <2>2
    <3>2. h[i] = turn[i][h[i - 1]] /\ h[i - 1] \in States
      BY <3>1, <1>5 DEF IsChain
    <3> QED
      BY <3>1, <3>2, <2>2
  <2> QED
    BY <2>1, <2>2
<1>7. IsScan(h, s, dropped, arity)
  BY <1>6 DEF IsScan, n, base
<1> DEFINE c == CHOOSE c : IsScan(c, s, dropped, arity)
<1>8. IsScan(c, s, dropped, arity)
  BY <1>7
<1>9. Without(s, dropped, arity) = Keeping(s, {m \in DOMAIN s : c[m].keep})
  BY DEF Without, IsScan
<1> HIDE DEF c
<1>10. c = [m \in 0 .. n |-> IF m = 0 THEN base ELSE Scanned(s[m], c[m - 1], dropped, arity)]
  BY <1>8 DEF IsScan, n, base
<1>11. c[0] = base /\ \A m \in 1 .. n : c[m] = Scanned(s[m], c[m - 1], dropped, arity)
  <2>1. 0 \in 0 .. n
    BY <1>1
  <2>2. \A m \in 1 .. n : m \in 0 .. n /\ m # 0
    BY <1>1
  <2> QED
    BY <1>10, <2>1, <2>2
<1>12. c \in [0 .. n -> States]
  <2> DEFINE S == {i \in 0 .. n : c[i] \in States}
  <2>1. 0 \in S
    BY <1>1, <1>2, <1>11
  <2>2. \A i \in 1 .. n : i - 1 \in S => i \in S
    BY <1>1, <1>3, <1>11
  <2> HIDE DEF S
  <2>3. 0 .. n \subseteq S
    BY <2>1, <2>2, <1>1, UpTo
  <2> QED
    BY <2>3, <1>10 DEF S
<1> QED
  BY <1>9, <1>11, <1>12 DEF n, base, Scans, KeptBy

(* The option i takes many values, and up to n there are only words.       *)
Run(s, arity, i, n) ==
  /\ i \in 1 .. n /\ s[i].kind = "option" /\ arity[s[i].text] = "many"
  /\ \A k \in i + 1 .. n : IsWord(s[k])

(* What the scan knows at n.                                               *)
Knows(s, arity, dropped, c, n) ==
  /\ \A one \in {"one", "optional"} :
       c[n].wanted = one <=> s[n].kind = "option" /\ arity[s[n].text] = one
  /\ c[n].wanted = "many" <=> \E i \in 1 .. n : Run(s, arity, i, n)
  /\ \A i \in 1 .. n : Run(s, arity, i, n) => c[n].keep = c[i].keep
  /\ \A i \in 1 .. n : Owns(s, arity, i, n) => c[n].keep = c[i].keep
  /\ ~ Owned(s, arity, n) => c[n].keep = (s[n] \notin dropped)

(* When options that need a value have one, a value goes the way of its    *)
(* option, and every other argument its own.                               *)
LEMMA ScanKnows ==
  ASSUME NEW A, NEW s \in Seq(A), NEW arity, Typed(s, arity), Obeys(s, arity), NEW dropped,
         NEW c \in [0 .. Len(s) -> States], Scans(c, s, dropped, arity)
  PROVE  \A n \in 1 .. Len(s) : Knows(s, arity, dropped, c, n)
<1> DEFINE S == {n \in 0 .. Len(s) : n = 0 \/ Knows(s, arity, dropped, c, n)}
<1>1. Len(s) \in Nat /\ DOMAIN s = 1 .. Len(s)
  OBVIOUS
<1>2. 0 \in S
  BY <1>1
<1>3. ASSUME NEW n \in 1 .. Len(s), n - 1 \in S PROVE n \in S
  <2>1. n \in Nat /\ n - 1 \in Nat /\ n \in 0 .. Len(s) /\ n - 1 \in 0 .. Len(s)
    BY <1>1
  <2>2. n - 1 = 0 \/ (n - 1 \in 1 .. Len(s) /\ Knows(s, arity, dropped, c, n - 1))
    BY <1>3, <2>1
  <2>3. n - 1 = 0 => c[n - 1].wanted = "none"
    BY <2>1 DEF Scans
  <2> DEFINE w == c[n - 1].wanted
  <2>4. c[n - 1] \in States /\ w \in Kinds /\ arity[s[n].text] \in Kinds
    BY <1>1, <2>1 DEF States, Typed
  <2>5. /\ Belongs(s[n], w) =>
             c[n].keep = c[n - 1].keep /\ c[n].wanted = IF w = "many" THEN "many" ELSE "none"
        /\ ~ Belongs(s[n], w) =>
             /\ c[n].keep = (s[n] \notin dropped)
             /\ c[n].wanted = IF s[n].kind = "option" THEN arity[s[n].text] ELSE "none"
    <3>1. c[n] = Scanned(s[n], c[n - 1], dropped, arity)
      BY DEF Scans
    <3> DEFINE x == c[n - 1]
               y == Scanned(s[n], x, dropped, arity)
    <3>2. x \in States /\ arity[s[n].text] \in Kinds
      BY <2>4
    <3> HIDE DEF x
    <3>3. /\ Belongs(s[n], x.wanted) =>
               y.keep = x.keep /\ y.wanted = IF x.wanted = "many" THEN "many" ELSE "none"
          /\ ~ Belongs(s[n], x.wanted) =>
               /\ y.keep = (s[n] \notin dropped)
               /\ y.wanted = IF s[n].kind = "option" THEN arity[s[n].text] ELSE "none"
      BY <3>2, ScannedTyped
    <3> QED
      BY <3>1, <3>3 DEF x
  <2>6. \A one \in {"one", "optional"} :
          w = one <=> n - 1 # 0 /\ s[n - 1].kind = "option" /\ arity[s[n - 1].text] = one
    BY <2>2, <2>3 DEF Knows
  <2>7. w = "many" <=> \E i \in 1 .. n - 1 : Run(s, arity, i, n - 1)
    BY <2>1, <2>2, <2>3 DEF Knows
  <2> HIDE DEF w
  <2>8. Belongs(s[n], w) <=> Owned(s, arity, n)
    <3>1. ASSUME Belongs(s[n], w) PROVE Owned(s, arity, n)
      <4>1. CASE w \in {"one", "optional"}
        <5>1. n - 1 \in DOMAIN s /\ s[n - 1].kind = "option" /\ arity[s[n - 1].text] = w
          BY <1>1, <2>1, <2>6, <4>1
        <5>2. IsWord(s[n])
          <6>1. CASE w = "one"
            <7>1. IsWord(s[(n - 1) + 1])
              BY <5>1, <6>1 DEF Obeys
            <7>2. (n - 1) + 1 = n
              BY <2>1
            <7> QED
              BY <7>1, <7>2
          <6> QED
            BY <3>1, <4>1, <6>1 DEF Belongs
        <5>3. Owns(s, arity, n - 1, n)
          BY <2>1, <4>1, <5>1, <5>2 DEF Owns
        <5> QED
          BY <5>1, <5>3 DEF Owned
      <4>2. CASE w = "many"
        <5>1. PICK i \in 1 .. n - 1 : Run(s, arity, i, n - 1)
          BY <2>7, <4>2
        <5>2. IsWord(s[n])
          BY <3>1, <4>2 DEF Belongs
        <5>3. \A k \in i + 1 .. n : k = n \/ k \in i + 1 .. n - 1
          BY <2>1
        <5>4. Owns(s, arity, i, n)
          BY <2>1, <5>1, <5>2, <5>3 DEF Owns, Run
        <5> QED
          BY <1>1, <2>1, <5>4 DEF Owned
      <4> QED
        BY <3>1, <4>1, <4>2, <2>4 DEF Belongs, Kinds
    <3>2. ASSUME Owned(s, arity, n) PROVE Belongs(s[n], w)
      <4>1. PICK i \in DOMAIN s : Owns(s, arity, i, n)
        BY <3>2 DEF Owned
      <4>2. CASE arity[s[i].text] \in {"one", "optional"} /\ n = i + 1
        <5>1. n - 1 = i /\ i # 0
          BY <1>1, <4>2
        <5> QED
          BY <4>1, <4>2, <5>1, <2>6 DEF Owns, Belongs
      <4>3. CASE arity[s[i].text] = "many" /\ \A k \in i + 1 .. n : IsWord(s[k])
        <5>1. i \in 1 .. n - 1 /\ \A k \in i + 1 .. n - 1 : k \in i + 1 .. n
          BY <1>1, <2>1, <4>1 DEF Owns
        <5>2. Run(s, arity, i, n - 1)
          BY <4>1, <4>3, <5>1 DEF Run, Owns
        <5> QED
          BY <4>1, <5>1, <5>2, <2>7 DEF Owns, Belongs
      <4> QED
        BY <4>1, <4>2, <4>3 DEF Owns
    <3> QED
      BY <3>1, <3>2
  <2>9. \A i \in 1 .. n : Run(s, arity, i, n) <=>
          \/ i = n /\ s[n].kind = "option" /\ arity[s[n].text] = "many"
          \/ i \in 1 .. n - 1 /\ Run(s, arity, i, n - 1) /\ IsWord(s[n])
    <3> TAKE i \in 1 .. n
    <3>1. CASE i = n
      <4>1. n + 1 .. n = {} /\ n \notin 1 .. n - 1 /\ n \in 1 .. n
        BY <2>1
      <4> QED
        BY <3>1, <4>1 DEF Run
    <3>2. CASE i # n
      <4>1. i \in 1 .. n - 1 /\ i \in 1 .. n
        BY <2>1, <3>2
      <4>2. \A k : k \in i + 1 .. n <=> k = n \/ k \in i + 1 .. n - 1
        BY <2>1, <4>1
      <4> QED
        BY <3>2, <4>1, <4>2 DEF Run
    <3> QED
      BY <3>1, <3>2
  <2>10. CASE Owned(s, arity, n)
    <3>1. c[n].keep = c[n - 1].keep /\ c[n].wanted = IF w = "many" THEN "many" ELSE "none"
      BY <2>5, <2>8, <2>10
    <3>2. IsWord(s[n]) /\ s[n].kind # "option"
      BY <2>10 DEF Owned, Owns, IsWord
    <3>3. \A i \in 1 .. n : Run(s, arity, i, n) <=> i \in 1 .. n - 1 /\ Run(s, arity, i, n - 1)
      BY <2>9, <3>2
    <3>4. \A i \in 1 .. n - 1 : i \in 1 .. n
      BY <2>1
    <3>5. c[n].wanted = "many" <=> \E i \in 1 .. n : Run(s, arity, i, n)
      BY <2>7, <3>1, <3>3, <3>4
    <3>6. \A i \in 1 .. n - 1 : Run(s, arity, i, n - 1) => c[n - 1].keep = c[i].keep
      BY <2>1, <2>2 DEF Knows
    <3>7. \A i \in 1 .. n : Owns(s, arity, i, n) => c[n].keep = c[i].keep
      <4> TAKE i \in 1 .. n
      <4> HAVE Owns(s, arity, i, n)
      <4>1. CASE n = i + 1
        <5>1. i = n - 1
          BY <2>1, <4>1
        <5> QED
          BY <3>1, <5>1
      <4>2. CASE arity[s[i].text] = "many" /\ \A k \in i + 1 .. n : IsWord(s[k])
        <5>1. i \in 1 .. n - 1 /\ \A k \in i + 1 .. n - 1 : k \in i + 1 .. n
          BY <2>1 DEF Owns
        <5>2. Run(s, arity, i, n - 1)
          BY <4>2, <5>1 DEF Run, Owns
        <5> QED
          BY <3>1, <3>6, <5>1, <5>2
      <4> QED
        BY <4>1, <4>2 DEF Owns
    <3>8. Knows(s, arity, dropped, c, n)
      BY <2>10, <3>1, <3>2, <3>3, <3>5, <3>6, <3>7 DEF Knows
    <3> QED
      BY <2>1, <3>8
  <2>11. CASE ~ Owned(s, arity, n)
    <3>1. /\ c[n].keep = (s[n] \notin dropped)
          /\ c[n].wanted = IF s[n].kind = "option" THEN arity[s[n].text] ELSE "none"
      BY <2>5, <2>8, <2>11
    <3>2. \A i \in 1 .. n : Run(s, arity, i, n) <=>
            i = n /\ s[n].kind = "option" /\ arity[s[n].text] = "many"
      <4>1. ASSUME NEW i \in 1 .. n - 1, Run(s, arity, i, n - 1), IsWord(s[n]) PROVE FALSE
        <5>1. Belongs(s[n], w)
          BY <2>7, <4>1 DEF Belongs
        <5> QED
          BY <5>1, <2>8, <2>11
      <4> QED
        BY <2>9, <4>1
    <3>3. n \in 1 .. n
      BY <2>1
    <3>4. c[n].wanted = "many" <=> \E i \in 1 .. n : Run(s, arity, i, n)
      BY <3>1, <3>2, <3>3
    <3>5. \A i \in 1 .. n : ~ Owns(s, arity, i, n)
      BY <1>1, <2>1, <2>11 DEF Owned
    <3>6. Knows(s, arity, dropped, c, n)
      BY <3>1, <3>2, <3>4, <3>5 DEF Knows
    <3> QED
      BY <2>1, <3>6
  <2> QED
    BY <2>10, <2>11
<1> HIDE DEF S
<1>4. 0 .. Len(s) \subseteq S
  BY <1>1, <1>2, <1>3, UpTo
<1>5. \A n \in 1 .. Len(s) : n \in 0 .. Len(s) /\ n # 0
  BY <1>1
<1> QED
  BY <1>4, <1>5 DEF S

AllOwned(s, arity) == \A j \in DOMAIN s : IsWord(s[j]) => Owned(s, arity, j)

(* What Without keeps, numbered by h: a value when its option is kept.     *)
IsFiltered(out, s, arity, dropped, places, h) ==
  /\ places \subseteq 1 .. Len(s)
  /\ IsNumbering(h, Len(out), places)
  /\ \A a \in 1 .. Len(out) : out[a] = s[h[a]]
  /\ \A i, n \in 1 .. Len(s) : Owns(s, arity, i, n) => (n \in places <=> i \in places)
  /\ \A n \in 1 .. Len(s) : ~ Owned(s, arity, n) => (n \in places <=> s[n] \notin dropped)

LEMMA WithoutFilters ==
  ASSUME NEW A, NEW s \in Seq(A), NEW arity, Typed(s, arity), Obeys(s, arity), NEW dropped
  PROVE  /\ Without(s, dropped, arity) \in Seq(A)
         /\ \E places, h : IsFiltered(Without(s, dropped, arity), s, arity, dropped, places, h)
<1>1. PICK c \in [0 .. Len(s) -> States] :
           Scans(c, s, dropped, arity) /\ Without(s, dropped, arity) = Keeping(s, KeptBy(c, s))
  BY ScanExists
<1> DEFINE places == KeptBy(c, s)
           out == Without(s, dropped, arity)
<1>2. \A n \in 1 .. Len(s) : Knows(s, arity, dropped, c, n)
  BY <1>1, ScanKnows
<1>3. DOMAIN s = 1 .. Len(s) /\ Len(s) \in Nat
  OBVIOUS
<1>4. places \in SUBSET (1 .. Len(s)) /\ out = Keeping(s, places)
  BY <1>1, <1>3 DEF KeptBy
<1>5. ASSUME NEW i \in 1 .. Len(s), NEW n \in 1 .. Len(s), Owns(s, arity, i, n)
      PROVE  n \in places <=> i \in places
  <2>1. i \in 1 .. n
    BY <1>3, <1>5 DEF Owns
  <2>2. c[n].keep = c[i].keep
    BY <1>2, <1>5, <2>1 DEF Knows
  <2> QED
    BY <1>3, <2>2 DEF KeptBy
<1>6. ASSUME NEW n \in 1 .. Len(s), ~ Owned(s, arity, n) PROVE n \in places <=> s[n] \notin dropped
  BY <1>2, <1>3, <1>6 DEF Knows, KeptBy
<1> HIDE DEF places, out
<1>7. out \in Seq(A) /\ \E h : /\ IsNumbering(h, Len(out), places)
                               /\ \A a \in 1 .. Len(out) : out[a] = s[h[a]]
  BY <1>4, KeepingPlaces
<1>8. \E h : IsFiltered(out, s, arity, dropped, places, h)
  BY <1>4, <1>5, <1>6, <1>7 DEF IsFiltered
<1> QED
  BY <1>7, <1>8 DEF out

(* Values stay behind their option, which keeps the values that it needs.  *)
LEMMA FilterOwns ==
  ASSUME NEW A, NEW s \in Seq(A), NEW arity, Obeys(s, arity), NEW dropped,
         NEW out \in Seq(A), NEW places, NEW h, IsFiltered(out, s, arity, dropped, places, h)
  PROVE  /\ Obeys(out, arity)
         /\ \A b, c \in 1 .. Len(out) : Owns(s, arity, h[b], h[c]) => Owns(out, arity, b, c)
<1> DEFINE n == Len(out)
<1>1. /\ n \in Nat /\ DOMAIN out = 1 .. n /\ DOMAIN s = 1 .. Len(s) /\ Len(s) \in Nat
      /\ \A a \in 1 .. n : h[a] \in places /\ h[a] \in 1 .. Len(s) /\ out[a] = s[h[a]]
  <2>1. n \in Nat /\ DOMAIN out = 1 .. n /\ DOMAIN s = 1 .. Len(s) /\ Len(s) \in Nat
    OBVIOUS
  <2>2. \A a \in 1 .. n : h[a] \in places /\ out[a] = s[h[a]]
    BY DEF IsFiltered, IsNumbering
  <2> QED
    BY <2>1, <2>2 DEF IsFiltered
<1>2. \A a, b \in 1 .. n : a < b => h[a] < h[b]
  BY DEF IsFiltered, IsNumbering
<1> HIDE DEF n
<1>3. ASSUME NEW b \in 1 .. n, NEW c \in 1 .. n, h[b] < h[c] PROVE b < c
  BY <1>1, <1>2, <1>3
<1>4. ASSUME NEW b \in 1 .. n, NEW c \in 1 .. n, h[c] = h[b] + 1 PROVE c = b + 1
  <2>1. b < c
    BY <1>1, <1>3, <1>4
  <2>2. ASSUME b + 1 < c PROVE FALSE
    <3>1. b + 1 \in 1 .. n /\ b < b + 1
      BY <1>1, <2>1, <2>2
    <3>2. h[b] < h[b + 1] /\ h[b + 1] < h[c]
      BY <1>2, <2>2, <3>1
    <3> QED
      BY <1>1, <1>4, <3>1, <3>2
  <2> QED
    BY <1>1, <2>1, <2>2
<1>5. ASSUME NEW b \in 1 .. n, NEW c \in 1 .. n, Owns(s, arity, h[b], h[c])
      PROVE  Owns(out, arity, b, c)
  <2>1. /\ h[b] < h[c] /\ out[b].kind = "option" /\ IsWord(out[c]) /\ b < c
        /\ arity[s[h[b]].text] = arity[out[b].text]
    BY <1>1, <1>3, <1>5 DEF Owns
  <2>2. CASE arity[s[h[b]].text] \in {"one", "optional"} /\ h[c] = h[b] + 1
    BY <2>1, <2>2, <1>4 DEF Owns
  <2>3. CASE arity[s[h[b]].text] = "many" /\ \A k \in h[b] + 1 .. h[c] : IsWord(s[k])
    <3>1. ASSUME NEW k \in b + 1 .. c PROVE IsWord(out[k])
      <4>1. k \in 1 .. n /\ b < k /\ (k < c \/ k = c)
        BY <1>1
      <4>2. h[b] < h[k] /\ (h[k] < h[c] \/ k = c)
        BY <1>2, <4>1
      <4>3. h[k] \in h[b] + 1 .. h[c]
        BY <1>1, <4>1, <4>2
      <4> QED
        BY <1>1, <2>3, <4>1, <4>3
    <3> QED
      BY <2>1, <2>3, <3>1 DEF Owns
  <2> QED
    BY <1>5, <2>2, <2>3 DEF Owns
<1>6. ASSUME NEW b \in DOMAIN out, out[b].kind = "option", arity[out[b].text] \in {"one", "many"}
      PROVE  b < Len(out) /\ IsWord(out[b + 1])
  <2>1. b \in 1 .. n /\ h[b] \in 1 .. Len(s) /\ h[b] \in places /\ s[h[b]] = out[b]
    BY <1>1
  <2>2. h[b] + 1 \in 1 .. Len(s) /\ IsWord(s[h[b] + 1])
    BY <1>1, <1>6, <2>1 DEF Obeys
  <2>3. Owns(s, arity, h[b], h[b] + 1)
    <3>1. h[b] < h[b] + 1 /\ \A k \in h[b] + 1 .. h[b] + 1 : k = h[b] + 1
      BY <1>1, <2>1
    <3> QED
      BY <1>6, <2>1, <2>2, <3>1 DEF Owns
  <2>4. h[b] + 1 \in places
    BY <2>1, <2>2, <2>3 DEF IsFiltered
  <2>5. PICK c \in 1 .. n : h[c] = h[b] + 1
    BY <2>4 DEF IsFiltered, IsNumbering, n
  <2>6. c = b + 1
    BY <1>4, <2>1, <2>5
  <2>7. b < n
    BY <1>1, <2>1, <2>5, <2>6
  <2> QED
    BY <1>1, <2>2, <2>5, <2>6, <2>7 DEF n
<1> QED
  BY <1>5, <1>6 DEF Obeys, n

(* When words without an option are dropped, what is left are options with *)
(* their values.                                                           *)
LEMMA FilterFree ==
  ASSUME NEW A, NEW s \in Seq(A), NEW arity, Obeys(s, arity), NEW dropped,
         NEW out \in Seq(A), NEW places, NEW h, IsFiltered(out, s, arity, dropped, places, h),
         \A n \in DOMAIN s : IsWord(s[n]) /\ ~ Owned(s, arity, n) => s[n] \in dropped
  PROVE  /\ AllOwned(out, arity)
         /\ \A b, c \in 1 .. Len(out) : Owns(out, arity, b, c) <=> Owns(s, arity, h[b], h[c])
<1> DEFINE n == Len(out)
<1>1. /\ n \in Nat /\ DOMAIN out = 1 .. n /\ DOMAIN s = 1 .. Len(s) /\ Len(s) \in Nat
      /\ \A a \in 1 .. n : h[a] \in places /\ h[a] \in 1 .. Len(s) /\ out[a] = s[h[a]]
      /\ \A i \in places : \E a \in 1 .. n : h[a] = i
  <2>1. n \in Nat /\ DOMAIN out = 1 .. n /\ DOMAIN s = 1 .. Len(s) /\ Len(s) \in Nat
    OBVIOUS
  <2>2. /\ \A a \in 1 .. n : h[a] \in places /\ out[a] = s[h[a]]
        /\ \A i \in places : \E a \in 1 .. n : h[a] = i
    BY DEF IsFiltered, IsNumbering
  <2> QED
    BY <2>1, <2>2 DEF IsFiltered
<1>2. \A b, c \in 1 .. n : Owns(s, arity, h[b], h[c]) => Owns(out, arity, b, c)
  BY FilterOwns
<1> HIDE DEF n
<1>3. ASSUME NEW c \in 1 .. n, IsWord(out[c])
      PROVE  \E b \in 1 .. n : Owns(s, arity, h[b], h[c])
  <2>1. IsWord(s[h[c]]) /\ h[c] \in places /\ h[c] \in 1 .. Len(s)
    BY <1>1, <1>3
  <2>2. Owned(s, arity, h[c])
    BY <1>1, <2>1 DEF IsFiltered
  <2>3. PICK i \in 1 .. Len(s) : Owns(s, arity, i, h[c])
    BY <1>1, <2>2 DEF Owned
  <2>4. i \in places
    BY <2>1, <2>3 DEF IsFiltered
  <2>5. PICK b \in 1 .. n : h[b] = i
    BY <1>1, <2>4
  <2> QED
    BY <2>3, <2>5
<1>4. AllOwned(out, arity)
  BY <1>1, <1>2, <1>3 DEF AllOwned, Owned
<1>5. ASSUME NEW b \in 1 .. n, NEW c \in 1 .. n, Owns(out, arity, b, c)
      PROVE  Owns(s, arity, h[b], h[c])
  <2>1. IsWord(out[c])
    BY <1>5 DEF Owns
  <2>2. PICK a \in 1 .. n : Owns(s, arity, h[a], h[c])
    BY <1>3, <2>1
  <2>3. Owns(out, arity, a, c)
    BY <1>2, <2>2
  <2>4. a = b
    BY <1>1, <1>5, <2>3, OneOwner
  <2> QED
    BY <2>2, <2>4
<1> QED
  BY <1>2, <1>4, <1>5 DEF n

-----------------------------------------------------------------------------
(* Arguments that are put together.                                        *)

(* The option i would take a word that followed.                           *)
Open(s, arity, i) ==
  /\ s[i].kind = "option"
  /\ \/ arity[s[i].text] \in {"one", "optional"} /\ i = Len(s)
     \/ arity[s[i].text] = "many" /\ \A k \in i + 1 .. Len(s) : IsWord(s[k])

Closed(s, arity) == \A i \in DOMAIN s : ~ Open(s, arity, i)

(* What stands in t is not taken for values of options in s.               *)
Apart(s, t, arity) == (t # <<>> => ~ IsWord(t[1])) \/ Closed(s, arity)

LEMMA ConcatOwns ==
  ASSUME NEW A, NEW s \in Seq(A), NEW t \in Seq(A), NEW arity, Apart(s, t, arity)
  PROVE  /\ \A i, j \in 1 .. Len(s) : Owns(s \o t, arity, i, j) <=> Owns(s, arity, i, j)
         /\ \A i, j \in 1 .. Len(t) :
              Owns(s \o t, arity, Len(s) + i, Len(s) + j) <=> Owns(t, arity, i, j)
         /\ \A i \in 1 .. Len(s), j \in 1 .. Len(t) :
              ~ Owns(s \o t, arity, i, Len(s) + j) /\ ~ Owns(s \o t, arity, Len(s) + j, i)
<1> DEFINE u == s \o t
           n == Len(s)
<1>1. n \in Nat /\ Len(t) \in Nat /\ DOMAIN s = 1 .. n /\ DOMAIN t = 1 .. Len(t)
  OBVIOUS
<1>2. /\ \A i \in 1 .. n : u[i] = s[i]
      /\ \A i \in 1 .. Len(t) : u[n + i] = t[i]
  BY ConcatShape
<1> HIDE DEF u
<1>3. ASSUME NEW i \in 1 .. n, NEW j \in 1 .. n PROVE Owns(u, arity, i, j) <=> Owns(s, arity, i, j)
  <2>1. \A k \in i + 1 .. j : u[k] = s[k]
    BY <1>1, <1>2
  <2>2. u[i] = s[i] /\ u[j] = s[j]
    BY <1>2
  <2> HIDE DEF n
  <2> QED
    BY <2>1, <2>2 DEF Owns
<1>4. ASSUME NEW i \in 1 .. Len(t), NEW j \in 1 .. Len(t)
      PROVE  Owns(u, arity, n + i, n + j) <=> Owns(t, arity, i, j)
  <2>1. u[n + i] = t[i] /\ u[n + j] = t[j]
    BY <1>2
  <2>2. (n + i < n + j <=> i < j) /\ (n + j = n + i + 1 <=> j = i + 1)
    BY <1>1
  <2>3. (\A k \in n + i + 1 .. n + j : IsWord(u[k])) <=> (\A k \in i + 1 .. j : IsWord(t[k]))
    <3>1. ASSUME \A k \in n + i + 1 .. n + j : IsWord(u[k]), NEW k \in i + 1 .. j PROVE IsWord(t[k])
      <4>1. n + k \in n + i + 1 .. n + j /\ k \in 1 .. Len(t)
        BY <1>1
      <4>2. IsWord(u[n + k]) /\ u[n + k] = t[k]
        BY <1>2, <3>1, <4>1
      <4> QED
        BY <4>2
    <3>2. ASSUME \A k \in i + 1 .. j : IsWord(t[k]), NEW k \in n + i + 1 .. n + j PROVE IsWord(u[k])
      <4>1. k - n \in i + 1 .. j /\ k - n \in 1 .. Len(t) /\ n + (k - n) = k
        BY <1>1
      <4>2. IsWord(t[k - n]) /\ u[n + (k - n)] = t[k - n]
        BY <1>2, <3>2, <4>1
      <4> QED
        BY <4>1, <4>2
    <3> QED
      BY <3>1, <3>2
  <2> HIDE DEF n
  <2> QED
    BY <2>1, <2>2, <2>3 DEF Owns
<1>5. ASSUME NEW i \in 1 .. n, NEW j \in 1 .. Len(t), Owns(u, arity, i, n + j) PROVE FALSE
  <2>1. u[i] = s[i] /\ u[n + j] = t[j] /\ IsWord(t[j]) /\ s[i].kind = "option" /\ t # <<>>
    BY <1>1, <1>2, <1>5 DEF Owns
  <2>2. CASE arity[s[i].text] \in {"one", "optional"} /\ n + j = i + 1
    <3>1. j = 1 /\ i = n
      <4> HIDE DEF n
      <4>1. i <= n /\ j >= 1 /\ i \in Nat /\ j \in Nat /\ n + j = i + 1
        BY <1>1, <2>2
      <4> QED
        BY <1>1, <4>1
    <3>2. Open(s, arity, i)
      BY <2>1, <2>2, <3>1 DEF Open
    <3> QED
      BY <1>1, <2>1, <3>1, <3>2 DEF Apart, Closed
  <2>3. CASE arity[s[i].text] = "many" /\ \A k \in i + 1 .. n + j : IsWord(u[k])
    <3>1. n + 1 \in i + 1 .. n + j /\ 1 \in 1 .. Len(t)
      BY <1>1
    <3>2. IsWord(u[n + 1]) /\ u[n + 1] = t[1]
      BY <1>2, <2>3, <3>1
    <3>3. \A k \in i + 1 .. n : k \in i + 1 .. n + j /\ u[k] = s[k]
      BY <1>1, <1>2
    <3>4. Open(s, arity, i)
      BY <2>1, <2>3, <3>3 DEF Open
    <3> QED
      BY <1>1, <2>1, <3>2, <3>4 DEF Apart, Closed
  <2> QED
    BY <1>5, <2>1, <2>2, <2>3 DEF Owns
<1>6. ASSUME NEW i \in 1 .. n, NEW j \in 1 .. Len(t), Owns(u, arity, n + j, i) PROVE FALSE
  BY <1>1, <1>6 DEF Owns
<1> QED
  BY <1>3, <1>4, <1>5, <1>6 DEF u

(* Options that are closed in both parts are closed in the whole.          *)
LEMMA ConcatClosed ==
  ASSUME NEW A, NEW s \in Seq(A), NEW t \in Seq(A), NEW arity,
         Closed(t, arity), Closed(s, arity) \/ (t # <<>> /\ ~ IsWord(t[1]))
  PROVE  Closed(s \o t, arity)
<1> DEFINE u == s \o t
           n == Len(s)
<1>1. n \in Nat /\ Len(t) \in Nat /\ DOMAIN s = 1 .. n /\ DOMAIN t = 1 .. Len(t)
  OBVIOUS
<1>2. /\ \A i \in 1 .. n : u[i] = s[i]
      /\ \A i \in 1 .. Len(t) : u[n + i] = t[i]
      /\ Len(u) = n + Len(t) /\ DOMAIN u = 1 .. n + Len(t)
      /\ \A k \in 1 .. n + Len(t) : k \in 1 .. n \/ \E i \in 1 .. Len(t) : k = n + i
  BY ConcatShape
<1> HIDE DEF u, n
<1>3. ASSUME NEW i \in 1 .. n, Open(u, arity, i) PROVE FALSE
  <2>1. u[i] = s[i] /\ s[i].kind = "option"
    BY <1>2, <1>3 DEF Open
  <2>2. CASE arity[s[i].text] \in {"one", "optional"} /\ i = Len(u)
    <3>1. t = <<>> /\ i = n
      BY <1>1, <1>2, <2>2
    <3>2. Open(s, arity, i)
      BY <2>1, <2>2, <3>1 DEF Open, n
    <3> QED
      BY <1>1, <3>1, <3>2 DEF Closed
  <2>3. CASE arity[s[i].text] = "many" /\ \A k \in i + 1 .. Len(u) : IsWord(u[k])
    <3>1. \A k \in i + 1 .. n : k \in i + 1 .. Len(u) /\ u[k] = s[k]
      BY <1>1, <1>2
    <3>2. Open(s, arity, i)
      BY <2>1, <2>3, <3>1 DEF Open, n
    <3>3. t # <<>> => n + 1 \in i + 1 .. Len(u) /\ u[n + 1] = t[1]
      BY <1>1, <1>2
    <3> QED
      BY <1>1, <2>3, <3>2, <3>3 DEF Closed
  <2> QED
    BY <1>3, <2>1, <2>2, <2>3 DEF Open
<1>4. ASSUME NEW i \in 1 .. Len(t), Open(u, arity, n + i) PROVE FALSE
  <2>1. u[n + i] = t[i] /\ t[i].kind = "option"
    BY <1>2, <1>4 DEF Open
  <2>2. CASE arity[t[i].text] \in {"one", "optional"} /\ n + i = Len(u)
    <3>1. i = Len(t)
      BY <1>1, <1>2, <2>2
    <3> QED
      BY <1>1, <2>1, <2>2, <3>1 DEF Open, Closed
  <2>3. CASE arity[t[i].text] = "many" /\ \A k \in n + i + 1 .. Len(u) : IsWord(u[k])
    <3>1. ASSUME NEW k \in i + 1 .. Len(t) PROVE IsWord(t[k])
      <4>1. n + k \in n + i + 1 .. Len(u) /\ k \in 1 .. Len(t)
        BY <1>1, <1>2
      <4> QED
        BY <1>2, <2>3, <4>1
    <3> QED
      BY <1>1, <2>1, <2>3, <3>1 DEF Open, Closed
  <2> QED
    BY <1>4, <2>1, <2>2, <2>3 DEF Open
<1> QED
  BY <1>2, <1>3, <1>4 DEF Closed, u

(* The texts of words behind the first few that belong to no option.       *)
Unowned(s, arity, first) ==
  {s[j].text : j \in {k \in DOMAIN s : k > first /\ IsWord(s[k]) /\ ~ Owned(s, arity, k)}}

LEMMA ConcatUnowned ==
  ASSUME NEW A, NEW s \in Seq(A), NEW t \in Seq(A), NEW arity, Apart(s, t, arity),
         NEW first \in Nat, first <= Len(s)
  PROVE  Unowned(s \o t, arity, first) = Unowned(s, arity, first) \cup Unowned(t, arity, 0)
<1> DEFINE u == s \o t
           n == Len(s)
<1>1. n \in Nat /\ Len(t) \in Nat /\ DOMAIN s = 1 .. n /\ DOMAIN t = 1 .. Len(t)
  OBVIOUS
<1>2. /\ \A i \in 1 .. n : u[i] = s[i]
      /\ \A i \in 1 .. Len(t) : u[n + i] = t[i]
      /\ DOMAIN u = 1 .. n + Len(t)
      /\ \A k \in 1 .. n + Len(t) : k \in 1 .. n \/ \E i \in 1 .. Len(t) : k = n + i
  BY ConcatShape
<1>3. /\ \A i, j \in 1 .. n : Owns(u, arity, i, j) <=> Owns(s, arity, i, j)
      /\ \A i, j \in 1 .. Len(t) : Owns(u, arity, n + i, n + j) <=> Owns(t, arity, i, j)
      /\ \A i \in 1 .. n, j \in 1 .. Len(t) :
           ~ Owns(u, arity, i, n + j) /\ ~ Owns(u, arity, n + j, i)
  BY ConcatOwns
<1> HIDE DEF u, n
<1>4. \A k \in 1 .. n : k \in 1 .. n + Len(t)
  BY <1>1
<1>5. \A k \in 1 .. Len(t) : n + k \in 1 .. n + Len(t) /\ n + k > first /\ k > 0
  BY <1>1 DEF n
<1>6. \A k \in 1 .. n : Owned(u, arity, k) <=> Owned(s, arity, k)
  BY <1>1, <1>2, <1>3, <1>4 DEF Owned
<1>7. \A k \in 1 .. Len(t) : Owned(u, arity, n + k) <=> Owned(t, arity, k)
  <2> TAKE k \in 1 .. Len(t)
  <2>1. ASSUME Owned(u, arity, n + k) PROVE Owned(t, arity, k)
    <3>1. PICK i \in DOMAIN u : Owns(u, arity, i, n + k)
      BY <2>1 DEF Owned
    <3>2. i \notin 1 .. n
      BY <1>3, <3>1
    <3>3. PICK j \in 1 .. Len(t) : i = n + j
      BY <1>2, <3>2
    <3>4. Owns(t, arity, j, k)
      BY <1>3, <3>1, <3>3
    <3> QED
      BY <1>1, <3>4 DEF Owned
  <2>2. ASSUME Owned(t, arity, k) PROVE Owned(u, arity, n + k)
    <3>1. PICK i \in 1 .. Len(t) : Owns(t, arity, i, k)
      BY <1>1, <2>2 DEF Owned
    <3> QED
      BY <1>2, <1>3, <1>5, <3>1 DEF Owned
  <2> QED
    BY <2>1, <2>2
<1>8. ASSUME NEW x \in Unowned(u, arity, first)
      PROVE  x \in Unowned(s, arity, first) \cup Unowned(t, arity, 0)
  <2>1. PICK k \in DOMAIN u : /\ k > first /\ IsWord(u[k]) /\ ~ Owned(u, arity, k)
                              /\ x = u[k].text
    BY <1>8 DEF Unowned
  <2>2. CASE k \in 1 .. n
    BY <1>1, <1>2, <1>6, <2>1, <2>2 DEF Unowned
  <2>3. CASE k \notin 1 .. n
    <3>1. PICK i \in 1 .. Len(t) : k = n + i
      BY <1>2, <2>1, <2>3
    <3> QED
      BY <1>1, <1>2, <1>5, <1>7, <2>1, <3>1 DEF Unowned
  <2> QED
    BY <2>2, <2>3
<1>9. ASSUME NEW x \in Unowned(s, arity, first) PROVE x \in Unowned(u, arity, first)
  <2>1. PICK k \in DOMAIN s : /\ k > first /\ IsWord(s[k]) /\ ~ Owned(s, arity, k)
                              /\ x = s[k].text
    BY <1>9 DEF Unowned
  <2> QED
    BY <1>1, <1>2, <1>4, <1>6, <2>1 DEF Unowned
<1>10. ASSUME NEW x \in Unowned(t, arity, 0) PROVE x \in Unowned(u, arity, first)
  <2>1. PICK k \in DOMAIN t : IsWord(t[k]) /\ ~ Owned(t, arity, k) /\ x = t[k].text
    BY <1>10 DEF Unowned
  <2> QED
    BY <1>1, <1>2, <1>5, <1>7, <2>1 DEF Unowned
<1> QED
  BY <1>8, <1>9, <1>10 DEF u

-----------------------------------------------------------------------------
(* What the frameworks read.                                               *)

(* How many values the framework takes for an option's.                    *)
Takes(f, name) ==
  IF f = "playwright" THEN Arity(name)
  ELSE IF f = "cypress" /\ name = "--spec" THEN "many" ELSE SingleArity(name)

ArityOf(f, texts) == [name \in texts |-> Takes(f, name)]

LEMMA TakesKinds ==
  ASSUME NEW f, NEW name
  PROVE  /\ Takes(f, name) \in Kinds
         /\ f # "playwright" => Takes(f, name) \in {"none", "one"}
                                  \/ (f = "cypress" /\ name = "--spec" /\ Takes(f, name) = "many")
         /\ Arity(name) \in Kinds /\ SingleArity(name) \in {"none", "one"}
<1>1. Arity(name) \in Kinds
  BY DEF Arity, Kinds
<1>2. SingleArity(name) \in {"none", "one"}
  BY DEF SingleArity
<1> QED
  BY <1>1, <1>2 DEF Takes, Kinds

(* Only the options in a sequence matter to who owns what.                 *)
LEMMA SameArity ==
  ASSUME NEW A, NEW s \in Seq(A), NEW a, NEW b, \A i \in DOMAIN s : a[s[i].text] = b[s[i].text]
  PROVE  /\ \A i, j \in DOMAIN s : Owns(s, a, i, j) <=> Owns(s, b, i, j)
         /\ \A j \in DOMAIN s : Owned(s, a, j) <=> Owned(s, b, j)
         /\ Obeys(s, a) <=> Obeys(s, b)
         /\ AllOwned(s, a) <=> AllOwned(s, b)
         /\ \A first : Unowned(s, a, first) = Unowned(s, b, first)
<1>1. \A i, j \in DOMAIN s : Owns(s, a, i, j) <=> Owns(s, b, i, j)
  BY DEF Owns
<1>2. \A j \in DOMAIN s : Owned(s, a, j) <=> Owned(s, b, j)
  BY <1>1 DEF Owned
<1>3. Obeys(s, a) <=> Obeys(s, b)
  BY DEF Obeys
<1>4. AllOwned(s, a) <=> AllOwned(s, b)
  BY <1>2 DEF AllOwned
<1>5. \A first : Unowned(s, a, first) = Unowned(s, b, first)
  BY <1>2 DEF Unowned
<1> QED
  BY <1>1, <1>2, <1>3, <1>4, <1>5

LEMMA ValuesAre ==
  ASSUME NEW f, NEW T, NEW s \in Seq(Arguments(T))
  PROVE  \A i \in DOMAIN s : ValuesOf(f, s)[s[i].text] = ArityOf(f, T)[s[i].text]
<1>1. \A i \in DOMAIN s : s[i].text \in T /\ s[i].text \in Texts(s)
  <2>1. \A i \in DOMAIN s : s[i] \in Arguments(T)
    OBVIOUS
  <2> QED
    BY <2>1 DEF Arguments, Texts
<1>2. \A i \in DOMAIN s : ArityOf(f, T)[s[i].text] = Takes(f, s[i].text)
  BY <1>1 DEF ArityOf
<1>3. \A i \in DOMAIN s : ValuesOf(f, s)[s[i].text] = Takes(f, s[i].text)
  BY <1>1 DEF ValuesOf, Takes, Arities
<1> QED
  BY <1>2, <1>3

LEMMA ArityTyped ==
  ASSUME NEW f, NEW T, NEW s \in Seq(Arguments(T))
  PROVE  Typed(s, ArityOf(f, T))
<1>1. \A i \in DOMAIN s : s[i].text \in T
  <2>1. \A i \in DOMAIN s : s[i] \in Arguments(T)
    OBVIOUS
  <2> QED
    BY <2>1 DEF Arguments
<1>2. \A i \in DOMAIN s : ArityOf(f, T)[s[i].text] = Takes(f, s[i].text)
  BY <1>1 DEF ArityOf
<1> QED
  BY <1>2, TakesKinds DEF Typed

(* The tables of the adapters agree with the framework.                    *)
LEMMA TablesAre ==
  ASSUME NEW f, NEW T, NEW s \in Seq(Arguments(T))
  PROVE  /\ f = "playwright" =>
              \A i \in DOMAIN s : Arities(s)[s[i].text] = ArityOf(f, T)[s[i].text]
         /\ f \notin {"playwright", "cypress"} =>
              \A i \in DOMAIN s : SingleArities(s)[s[i].text] = ArityOf(f, T)[s[i].text]
<1>1. \A i \in DOMAIN s : s[i].text \in T /\ s[i].text \in Texts(s)
  <2>1. \A i \in DOMAIN s : s[i] \in Arguments(T)
    OBVIOUS
  <2> QED
    BY <2>1 DEF Arguments, Texts
<1>2. \A i \in DOMAIN s : ArityOf(f, T)[s[i].text] = Takes(f, s[i].text)
  BY <1>1 DEF ArityOf
<1>4. \A i \in DOMAIN s : /\ Arities(s)[s[i].text] = Arity(s[i].text)
                          /\ SingleArities(s)[s[i].text] = SingleArity(s[i].text)
  BY <1>1 DEF Arities, SingleArities
<1> QED
  BY <1>2, <1>4 DEF Takes

(* The launcher of Vitest, at the front or nowhere.                        *)
Launch(f, args) == IF Launched(f, args) THEN 1 ELSE 0

(* --spec has one value.                                                   *)
SpecOnce(s, a) == \A i, j \in DOMAIN s : s[i].text = "--spec" /\ Owns(s, a, i, j) => j = i + 1

(* What Understood says of a command.                                      *)
LEMMA UnderstoodMeans ==
  ASSUME NEW f, NEW T, NEW args \in Seq(Arguments(T)), Understood(f, args)
  PROVE  /\ Obeys(args, ArityOf(f, T))
         /\ f \notin {"cucumber", "playwright", "vitest", "cypress"} => AllOwned(args, ArityOf(f, T))
         /\ f \in {"vitest", "cypress"} =>
              \A j \in DOMAIN args : IsWord(args[j]) =>
                \/ Owned(args, ArityOf(f, T), j)
                \/ j = Launch(f, args) + 1 /\ args[j] = Word("run")
                \/ j = Launch(f, args)
         /\ f = "cypress" => SpecOnce(args, ArityOf(f, T))
<1> DEFINE v == ValuesOf(f, args)
           a == ArityOf(f, T)
           start == Launch(f, args)
<1>1. \A i \in DOMAIN args : v[args[i].text] = a[args[i].text]
  BY ValuesAre
<1>2. Obeys(args, v)
  BY DEF Understood, Obeys
<1>3. \A j \in DOMAIN args :
        \/ ~ IsWord(args[j]) \/ f \in {"cucumber", "playwright"}
        \/ j = start + 1 /\ f \in {"vitest", "cypress"} /\ args[j] = Word("run")
        \/ j = start
        \/ Owned(args, v, j)
  BY DEF Understood, Owned, Launch
<1>5. f = "cypress" => SpecOnce(args, v)
  BY DEF Understood, SpecOnce
<1>6. f # "vitest" => start = 0
  BY DEF Launch, Launched
<1>7. \A j \in DOMAIN args : j # 0
  OBVIOUS
<1> HIDE DEF v, a, start
<1>4. /\ Obeys(args, v) <=> Obeys(args, a)
      /\ \A j \in DOMAIN args : Owned(args, v, j) <=> Owned(args, a, j)
      /\ \A i, j \in DOMAIN args : Owns(args, v, i, j) <=> Owns(args, a, i, j)
  BY <1>1, SameArity
<1>8. f = "cypress" => SpecOnce(args, a)
  BY <1>4, <1>5 DEF SpecOnce
<1>9. f \notin {"cucumber", "playwright", "vitest", "cypress"} => AllOwned(args, a)
  BY <1>3, <1>4, <1>6, <1>7 DEF AllOwned
<1>10. f \in {"vitest", "cypress"} =>
         \A j \in DOMAIN args : IsWord(args[j]) =>
           \/ Owned(args, a, j) \/ (j = start + 1 /\ args[j] = Word("run")) \/ j = start
  BY <1>3, <1>4
<1> QED
  BY <1>2, <1>4, <1>8, <1>9, <1>10 DEF a, start

(* What is in front of the files: a launcher and a subcommand.             *)
Skipped(f, u) ==
  IF Launched(f, u) THEN 2 ELSE IF f \in {"playwright", "vitest"} THEN 1 ELSE 0

LEMMA ReadsUnowned ==
  ASSUME NEW f, f # "cypress", NEW T, NEW u \in Seq(Arguments(T))
  PROVE  FilesRead(f, u) = Unowned(u, ArityOf(f, T), Skipped(f, u))
<1> DEFINE first == Skipped(f, u)
<1>1. FilesRead(f, u) = Unowned(u, ValuesOf(f, u), first)
  BY DEF FilesRead, Unowned, Owned, Skipped
<1> DEFINE v == ValuesOf(f, u)
           a == ArityOf(f, T)
<1>2. \A i \in DOMAIN u : v[u[i].text] = a[u[i].text]
  BY ValuesAre
<1> HIDE DEF first, v, a
<1>3. Unowned(u, v, first) = Unowned(u, a, first)
  <2>1. \A j \in DOMAIN u : Owned(u, v, j) <=> Owned(u, a, j)
    BY <1>2, SameArity
  <2> QED
    BY <2>1 DEF Unowned
<1> QED
  BY <1>1, <1>3 DEF first, v, a

(* Words alone own nothing.                                                *)
LEMMA AllWords ==
  ASSUME NEW A, NEW s \in Seq(A), NEW arity, \A i \in DOMAIN s : IsWord(s[i])
  PROVE  /\ Closed(s, arity)
         /\ \A i, j \in DOMAIN s : ~ Owns(s, arity, i, j)
         /\ \A first : Unowned(s, arity, first) = {s[j].text : j \in {k \in DOMAIN s : k > first}}
<1>1. Closed(s, arity) /\ \A i, j \in DOMAIN s : ~ Owns(s, arity, i, j)
  BY DEF Closed, Open, Owns, IsWord
<1>2. \A j \in DOMAIN s : ~ Owned(s, arity, j)
  BY <1>1 DEF Owned
<1>3. ASSUME NEW first PROVE {k \in DOMAIN s : k > first /\ IsWord(s[k]) /\ ~ Owned(s, arity, k)} = {k \in DOMAIN s : k > first}
  BY <1>2
<1> QED
  BY <1>1, <1>3 DEF Unowned

LEMMA FileWords ==
  ASSUME NEW F, NEW files \in Seq(F), NEW T, F \subseteq T, NEW arity
  PROVE  /\ Words(files) \in Seq(Arguments(T)) /\ Len(Words(files)) = Len(files)
         /\ \A i \in DOMAIN Words(files) : IsWord(Words(files)[i])
         /\ Closed(Words(files), arity)
         /\ Unowned(Words(files), arity, 0) = ToSet(files)
<1>1. DOMAIN files = 1 .. Len(files) /\ Len(files) \in Nat /\ \A i \in 1 .. Len(files) : files[i] \in T
  OBVIOUS
<1>2. \A i \in 1 .. Len(files) : Word(files[i]) \in Arguments(T)
  BY <1>1 DEF Word, Arguments
<1>3. Words(files) = [i \in 1 .. Len(files) |-> Word(files[i])]
  BY <1>1 DEF Words
<1>4. Words(files) \in Seq(Arguments(T)) /\ Len(Words(files)) = Len(files)
  BY <1>1, <1>2, <1>3
<1>5. \A i \in DOMAIN Words(files) : IsWord(Words(files)[i]) /\ Words(files)[i].text = files[i] /\ i > 0
  BY <1>3 DEF Word, IsWord
<1>6. DOMAIN Words(files) = DOMAIN files
  BY <1>1, <1>3
<1>7. {Words(files)[j].text : j \in {k \in DOMAIN Words(files) : k > 0}} = ToSet(files)
  BY <1>5, <1>6 DEF ToSet
<1> DEFINE ws == Words(files)
<1>8. Closed(ws, arity) /\ Unowned(ws, arity, 0) = {ws[j].text : j \in {k \in DOMAIN ws : k > 0}}
  <2>1. ws \in Seq(Arguments(T)) /\ \A i \in DOMAIN ws : IsWord(ws[i])
    BY <1>4, <1>5
  <2> HIDE DEF ws
  <2>2. Closed(ws, arity)
    BY <2>1, AllWords
  <2>3. \A first : Unowned(ws, arity, first) = {ws[j].text : j \in {k \in DOMAIN ws : k > first}}
    BY <2>1, AllWords
  <2> QED
    BY <2>2, <2>3
<1> QED
  BY <1>4, <1>5, <1>7, <1>8

LEMMA FilteredFrom ==
  ASSUME NEW A, NEW s \in Seq(A), NEW out \in Seq(A), NEW arity, NEW dropped, NEW places, NEW h,
         IsFiltered(out, s, arity, dropped, places, h)
  PROVE  \A i \in DOMAIN out : h[i] \in DOMAIN s /\ h[i] \in places /\ out[i] = s[h[i]]
<1>1. DOMAIN out = 1 .. Len(out) /\ DOMAIN s = 1 .. Len(s)
  OBVIOUS
<1>2. \A i \in 1 .. Len(out) : h[i] \in places /\ out[i] = s[h[i]]
  BY DEF IsFiltered, IsNumbering
<1> QED
  BY <1>1, <1>2 DEF IsFiltered

(* Where no option takes more than one value, a complete command is closed. *)
LEMMA ObeysClosed ==
  ASSUME NEW f, f \notin {"cypress", "playwright"}, NEW T, NEW s \in Seq(Arguments(T)),
         Obeys(s, ArityOf(f, T))
  PROVE  Closed(s, ArityOf(f, T))
<1> DEFINE a == ArityOf(f, T)
<1>1. \A i \in DOMAIN s : s[i] \in Arguments(T)
  OBVIOUS
<1>2. ASSUME NEW i \in DOMAIN s, s[i].kind = "option" PROVE a[s[i].text] \in {"none", "one"}
  <2>1. s[i].text \in T
    BY <1>1, <1>2 DEF Arguments
  <2> QED
    BY <2>1, TakesKinds DEF ArityOf
<1> HIDE DEF a
<1>3. Obeys(s, a)
  BY DEF a
<1>4. ASSUME NEW i \in DOMAIN s, Open(s, a, i) PROVE FALSE
  <2>1. s[i].kind = "option" /\ a[s[i].text] = "one" /\ i = Len(s)
    BY <1>2, <1>4 DEF Open
  <2>2. i < Len(s)
    BY <1>3, <2>1 DEF Obeys
  <2> QED
    BY <2>1, <2>2
<1> QED
  BY <1>4 DEF Closed, a

LEMMA AllOwnedUnowned ==
  ASSUME NEW s, NEW arity, AllOwned(s, arity), NEW first
  PROVE  Unowned(s, arity, first) = {}
BY DEF AllOwned, Unowned

(* Words behind a closed command are what the framework is asked for.      *)
LEMMA PrefixReads ==
  ASSUME NEW f, f \notin {"cypress", "playwright"}, NEW T, NEW F, F \subseteq T, NEW files \in Seq(F),
         NEW p \in Seq(Arguments(T)), Closed(p, ArityOf(f, T)), NEW first \in Nat, first <= Len(p),
         f = "vitest" => first = Skipped(f, p \o Words(files)), f # "vitest" => first = 0,
         Unowned(p, ArityOf(f, T), first) = {}
  PROVE  FilesRead(f, p \o Words(files)) = ToSet(files)
<1> DEFINE a == ArityOf(f, T)
           w == Words(files)
<1>1. w \in Seq(Arguments(T)) /\ Unowned(w, a, 0) = ToSet(files)
  BY FileWords
<1>2. p \o w \in Seq(Arguments(T))
  BY <1>1, ConcatShape
<1>3. first = Skipped(f, p \o w)
  BY DEF Skipped, Launched
<1> HIDE DEF w
<1>5. FilesRead(f, p \o w) = Unowned(p \o w, a, first)
  BY <1>2, <1>3, ReadsUnowned
<1>6. Apart(p, w, a)
  BY DEF Apart
<1>8. Unowned(p, a, first) = {}
  OBVIOUS
<1> HIDE DEF a
<1>7. Unowned(p \o w, a, first) = Unowned(p, a, first) \cup Unowned(w, a, 0)
  <2> DEFINE A == Arguments(T)
  <2>1. p \in Seq(A)
    OBVIOUS
  <2>2. w \in Seq(A)
    BY <1>1
  <2> HIDE DEF A
  <2> QED
    BY <2>1, <2>2, <1>6, ConcatUnowned
<1> QED
  BY <1>1, <1>5, <1>7, <1>8 DEF w

Mentioned == {"test", "run", "vitest", "--format", "progress", "--runTestsByPath", "--spec"}
Commonplace == {"jest", "rspec", "minitest"}

(* An option that the adapter adds, with its value.                        *)
LEMMA AddedArgs ==
  ASSUME NEW T, Mentioned \subseteq T
  PROVE  /\ \A f \in {"jest", "rspec"} :
              LET t == IF f = "jest" THEN <<Option("--runTestsByPath")>>
                       ELSE <<Option("--format"), Word("progress")>>
              IN  /\ t \in Seq(Arguments(T)) /\ t # <<>> /\ ~ IsWord(t[1])
                  /\ Closed(t, ArityOf(f, T)) /\ Unowned(t, ArityOf(f, T), 0) = {}
         /\ Word("run") \in Arguments(T) /\ Word("test") \in Arguments(T)
         /\ Word("vitest") \in Arguments(T) /\ Option("--spec") \in Arguments(T)
<1>1. /\ Option("--runTestsByPath") \in Arguments(T) /\ Option("--format") \in Arguments(T)
      /\ Word("progress") \in Arguments(T) /\ Word("run") \in Arguments(T)
      /\ Word("test") \in Arguments(T) /\ Word("vitest") \in Arguments(T)
      /\ Option("--spec") \in Arguments(T)
  BY DEF Mentioned, Arguments, Word, Option
<1>2. /\ ArityOf("jest", T)["--runTestsByPath"] = "none"
      /\ ArityOf("rspec", T)["--format"] = "one"
  BY DEF ArityOf, Takes, SingleArity, Mentioned
<1> DEFINE j == <<Option("--runTestsByPath")>>
           r == <<Option("--format"), Word("progress")>>
<1>3. /\ j \in Seq(Arguments(T)) /\ j # <<>> /\ ~ IsWord(j[1])
      /\ DOMAIN j = {1} /\ j[1].kind = "option" /\ j[1].text = "--runTestsByPath"
  BY <1>1 DEF IsWord, Option
<1>4. /\ r \in Seq(Arguments(T)) /\ r # <<>> /\ ~ IsWord(r[1]) /\ Len(r) = 2
      /\ DOMAIN r = {1, 2} /\ r[1].kind = "option" /\ r[1].text = "--format" /\ IsWord(r[2])
      /\ ~ IsWord(r[1]) /\ r[2].kind = "word"
  BY <1>1 DEF IsWord, Option, Word
<1> HIDE DEF j, r
<1>5. Closed(j, ArityOf("jest", T)) /\ Unowned(j, ArityOf("jest", T), 0) = {}
  BY <1>2, <1>3 DEF Closed, Open, Unowned
<1>6. Closed(r, ArityOf("rspec", T)) /\ Owns(r, ArityOf("rspec", T), 1, 2)
  BY <1>2, <1>4 DEF Closed, Open, Owns
<1>7. Unowned(r, ArityOf("rspec", T), 0) = {}
  BY <1>4, <1>6 DEF Unowned, Owned
<1> QED
  BY <1>1, <1>3, <1>4, <1>5, <1>6, <1>7 DEF j, r

-----------------------------------------------------------------------------
(* The files that each framework is asked for.                             *)

LEMMA CommonReads ==
  ASSUME NEW f \in {"jest", "rspec", "minitest", "pytest"}, NEW T, Mentioned \subseteq T,
         NEW args \in Seq(Arguments(T)), Understood(f, args),
         NEW F, F \subseteq T, NEW files \in Seq(F)
  PROVE  FilesRead(f, RunArgs(f, args, files)) = ToSet(files)
<1> DEFINE a == ArityOf(f, T)
           t == IF f = "jest" THEN <<Option("--runTestsByPath")>>
                ELSE <<Option("--format"), Word("progress")>>
           p == args \o t
<1>1. Obeys(args, a) /\ AllOwned(args, a)
  BY UnderstoodMeans
<1>2. Closed(args, a)
  BY <1>1, ObeysClosed
<1>3. CASE f \in {"jest", "rspec"}
  <2>1. /\ t \in Seq(Arguments(T)) /\ t # <<>> /\ ~ IsWord(t[1])
        /\ Closed(t, a) /\ Unowned(t, a, 0) = {}
    BY <1>3, AddedArgs
  <2>2. Unowned(args, a, 0) = {}
    BY <1>1, AllOwnedUnowned
  <2> DEFINE A == Arguments(T)
  <2>3. args \in Seq(A)
    OBVIOUS
  <2>4. t \in Seq(A)
    BY <2>1
  <2>5. Closed(t, a)
    BY <2>1
  <2>6. Apart(args, t, a)
    BY <1>2 DEF Apart
  <2>7. 0 \in Nat /\ 0 <= Len(args)
    OBVIOUS
  <2> HIDE DEF a, A, t
  <2>8. p \in Seq(A) /\ Closed(p, a)
    BY <1>2, <2>3, <2>4, <2>5, ConcatShape, ConcatClosed
  <2>9. Unowned(p, a, 0) = Unowned(args, a, 0) \cup Unowned(t, a, 0)
    BY <2>3, <2>4, <2>6, <2>7, ConcatUnowned
  <2>10. Unowned(p, a, 0) = {}
    BY <2>1, <2>2, <2>9
  <2> HIDE DEF p
  <2>13. 0 <= Len(p)
    BY <2>8
  <2>11. FilesRead(f, p \o Words(files)) = ToSet(files)
    BY <1>3, <2>8, <2>10, <2>13, PrefixReads DEF a, A
  <2>12. RunArgs(f, args, files) = p \o Words(files)
    BY <1>3 DEF RunArgs, JestRunArgs, RSpecRunArgs, p, t
  <2> QED
    BY <2>11, <2>12
<1>4. CASE f = "minitest"
  <2>1. Unowned(args, a, 0) = {}
    BY <1>1, AllOwnedUnowned
  <2>2. FilesRead(f, args \o Words(files)) = ToSet(files)
    BY <1>2, <1>4, <2>1, PrefixReads
  <2> QED
    BY <1>4, <2>2 DEF RunArgs, RailsRunArgs
<1>5. CASE f = "pytest"
  <2>1. Words(files) \in Seq(Arguments(T)) /\ Unowned(Words(files), a, 0) = ToSet(files)
    BY FileWords
  <2>2. FilesRead(f, Words(files)) = Unowned(Words(files), a, 0)
    BY <1>5, <2>1, ReadsUnowned DEF Skipped, Launched
  <2> QED
    BY <1>5, <2>1, <2>2 DEF RunArgs, PytestRunArgs
<1> QED
  BY <1>3, <1>4, <1>5

(* Cucumber: words without an option are paths and are removed.            *)
LEMMA CucumberReads ==
  ASSUME NEW T, Mentioned \subseteq T,
         NEW args \in Seq(Arguments(T)), Understood("cucumber", args),
         NEW F, F \subseteq T, NEW files \in Seq(F)
  PROVE  FilesRead("cucumber", RunArgs("cucumber", args, files)) = ToSet(files)
<1> DEFINE a == ArityOf("cucumber", T)
           b == SingleArities(args)
           dropped == {x \in ToSet(args) : IsWord(x)}
           p == Without(args, dropped, b)
<1>1. Obeys(args, a)
  BY UnderstoodMeans
<1>2. \A i \in DOMAIN args : b[args[i].text] = a[args[i].text]
  BY TablesAre
<1>15. Typed(args, a)
  BY ArityTyped
<1>3. \A n \in DOMAIN args : IsWord(args[n]) /\ ~ Owned(args, b, n) => args[n] \in dropped
  BY DEF ToSet
<1> DEFINE A == Arguments(T)
<1>4. args \in Seq(A)
  OBVIOUS
<1> HIDE DEF a, b, dropped, A
<1>5. Obeys(args, b) /\ Typed(args, b)
  BY <1>1, <1>2, <1>4, <1>15, SameArity DEF Typed
<1>6. p \in Seq(A)
  BY <1>4, <1>5, WithoutFilters
<1>7. PICK places, h : IsFiltered(p, args, b, dropped, places, h)
  BY <1>4, <1>5, WithoutFilters
<1> HIDE DEF p
<1>8. Obeys(p, b)
  BY <1>4, <1>5, <1>6, <1>7, FilterOwns
<1>9. AllOwned(p, b)
  BY <1>3, <1>4, <1>5, <1>6, <1>7, FilterFree
<1>10. \A i \in DOMAIN p : b[p[i].text] = a[p[i].text]
  BY <1>2, <1>4, <1>6, <1>7, FilteredFrom
<1>11. Obeys(p, a) /\ AllOwned(p, a)
  BY <1>6, <1>8, <1>9, <1>10, SameArity
<1>12. Closed(p, a)
  BY <1>6, <1>11, ObeysClosed DEF A, a
<1>13. Unowned(p, a, 0) = {}
  BY <1>11, AllOwnedUnowned
<1>16. 0 <= Len(p)
  BY <1>6
<1>14. FilesRead("cucumber", p \o Words(files)) = ToSet(files)
  BY <1>6, <1>12, <1>13, <1>16, PrefixReads DEF A, a
<1> QED
  BY <1>14 DEF RunArgs, CucumberRunArgs, p, dropped, b

(* What is behind a word at the front, which owns nothing.                 *)
LEMMA BehindWord ==
  ASSUME NEW A, NEW s \in Seq(A), s # <<>>, IsWord(s[1]), NEW arity, Obeys(s, arity)
  PROVE  /\ Tail(s) \in Seq(A) /\ Obeys(Tail(s), arity)
         /\ ~ Owned(s, arity, 1)
         /\ \A j \in DOMAIN Tail(s) : /\ j + 1 \in DOMAIN s /\ Tail(s)[j] = s[j + 1]
                                      /\ Owned(s, arity, j + 1) => Owned(Tail(s), arity, j)
<1> DEFINE t == Tail(s)
           n == Len(s)
<1>1. /\ n \in Nat /\ n > 0 /\ DOMAIN s = 1 .. n /\ t \in Seq(A) /\ DOMAIN t = 1 .. n - 1
      /\ Len(t) = n - 1 /\ \A j \in 1 .. n - 1 : t[j] = s[j + 1]
  OBVIOUS
<1> HIDE DEF t
<1>2. ~ Owned(s, arity, 1)
  BY <1>1 DEF Owned, Owns
<1>3. Obeys(t, arity)
  <2> SUFFICES ASSUME NEW i \in 1 .. n - 1, t[i].kind = "option", arity[t[i].text] \in {"one", "many"}
               PROVE  i < n - 1 /\ IsWord(t[i + 1])
    BY <1>1 DEF Obeys
  <2>1. i + 1 \in 1 .. n /\ s[i + 1] = t[i]
    BY <1>1
  <2>2. i + 1 < n /\ IsWord(s[(i + 1) + 1])
    BY <1>1, <2>1 DEF Obeys
  <2>3. i + 1 \in 1 .. n - 1 /\ i < n - 1
    BY <1>1, <2>1, <2>2
  <2> QED
    BY <1>1, <2>2, <2>3
<1>4. ASSUME NEW j \in 1 .. n - 1, Owned(s, arity, j + 1) PROVE Owned(t, arity, j)
  <2>1. PICK i \in 1 .. n : Owns(s, arity, i, j + 1)
    BY <1>1, <1>4 DEF Owned
  <2>2. i # 1
    BY <2>1 DEF Owns, IsWord
  <2>3. /\ i - 1 \in 1 .. n - 1 /\ t[i - 1] = s[i] /\ t[j] = s[j + 1]
        /\ i - 1 < j /\ t[i - 1].kind = "option" /\ IsWord(t[j])
    <3>1. i - 1 \in 1 .. n - 1 /\ t[i - 1] = s[(i - 1) + 1] /\ (i - 1) + 1 = i
      BY <1>1, <2>1, <2>2
    <3> QED
      BY <1>1, <2>1, <3>1 DEF Owns
  <2>4. j + 1 = i + 1 => j = (i - 1) + 1
    BY <1>1, <2>1
  <2>5. ASSUME \A k \in i + 1 .. j + 1 : IsWord(s[k]), NEW k \in (i - 1) + 1 .. j PROVE IsWord(t[k])
    <3>1. k + 1 \in i + 1 .. j + 1 /\ k \in 1 .. n - 1
      BY <1>1, <2>1, <2>3
    <3>2. t[k] = s[k + 1]
      BY <1>1, <3>1
    <3> QED
      BY <2>5, <3>1, <3>2
  <2>6. Owns(t, arity, i - 1, j)
    BY <2>1, <2>3, <2>4, <2>5 DEF Owns
  <2> QED
    BY <1>1, <2>3, <2>6 DEF Owned
<1>5. \A j \in 1 .. n - 1 : j + 1 \in 1 .. n
  BY <1>1
<1> QED
  BY <1>1, <1>2, <1>3, <1>4, <1>5 DEF t

(* Nothing is open behind a word, and it is no file.                       *)
LEMMA FrontWord ==
  ASSUME NEW A, NEW word, Word(word) \in A, NEW arity
  PROVE  /\ <<Word(word)>> \in Seq(A) /\ Len(<<Word(word)>>) = 1
         /\ Closed(<<Word(word)>>, arity) /\ Unowned(<<Word(word)>>, arity, 1) = {}
<1> DEFINE s == <<Word(word)>>
<1>1. s \in Seq(A) /\ Len(s) = 1 /\ DOMAIN s = {1} /\ s[1].kind = "word"
  BY DEF Word
<1> HIDE DEF s
<1>2. Closed(s, arity)
  BY <1>1 DEF Closed, Open
<1>3. Unowned(s, arity, 1) = {}
  BY <1>1 DEF Unowned
<1> QED
  BY <1>1, <1>2, <1>3 DEF s

(* Vitest: a launcher stays in front, and behind it, or at the front, a    *)
(* subcommand the user gave is replaced.                                   *)
VitestFront(args, sub) ==
  IF Launched("vitest", args) THEN <<Word("vitest"), Word(sub)>> ELSE <<Word(sub)>>

Unlaunched(args) == IF Launched("vitest", args) THEN Tail(args) ELSE args

HasSubcommand(s) == s # <<>> /\ s[1] \in VitestSubcommands

VitestBehind(args) ==
  IF HasSubcommand(Unlaunched(args)) THEN Tail(Unlaunched(args)) ELSE Unlaunched(args)

LEMMA VitestShape ==
  ASSUME NEW A, NEW args \in Seq(A), NEW sub, ~ ValueIsMistaken("vitest", args)
  PROVE  VitestArgs(args, sub) = VitestFront(args, sub) \o VitestBehind(args)
<1> DEFINE named == {i \in DOMAIN args : args[i] = Word("vitest")}
           at == VitestPlace(args)
           next == IF at \in DOMAIN args /\ args[at] \in VitestSubcommands THEN at + 1 ELSE at
           n == Len(args)
<1>1. n \in Nat /\ DOMAIN args = 1 .. n /\ (args # <<>> <=> n > 0)
  OBVIOUS
<1>2. VitestArgs(args, sub) = SubSeq(args, 1, at - 1) \o <<Word(sub)>> \o SubSeq(args, next, n)
  BY DEF VitestArgs
<1>3. CASE Launched("vitest", args)
  <2>1. n > 0 /\ args[1] = Word("vitest")
    BY <1>1, <1>3 DEF Launched
  <2>2. 1 \in named /\ \A j \in named : 1 <= j
    BY <1>1, <2>1
  <2>3. (CHOOSE i \in named : \A j \in named : i <= j) = 1
    <3>1. \A i \in named : i \in Nat
      BY <1>1
    <3> HIDE DEF named
    <3> QED
      BY <2>2, <3>1
  <2>4. at = 2
    BY <2>2, <2>3 DEF VitestPlace
  <2> HIDE DEF at, named
  <2> DEFINE t == Tail(args)
  <2>5. t \in Seq(A) /\ Len(t) = n - 1 /\ \A i \in 1 .. n - 1 : t[i] = args[i + 1]
    BY <1>1, <2>1
  <2>6. SubSeq(args, 1, 1) = <<Word("vitest")>>
    <3>1. SubSeq(args, 1, 1) = <<args[1]>>
      <4> HIDE DEF n, t
      <4>1. SubSeq(args, 1, 1) \in Seq(A) /\ Len(SubSeq(args, 1, 1)) = 1 /\ SubSeq(args, 1, 1)[1] = args[1]
        BY <1>1, <2>1 DEF n
      <4> DEFINE z == SubSeq(args, 1, 1)
      <4>2. z \in Seq(A) /\ Len(z) = 1 /\ z[1] = args[1]
        BY <4>1
      <4> HIDE DEF z
      <4>3. z = <<z[1]>>
        BY ONLY <4>2
      <4> QED
        BY <4>2, <4>3 DEF z
    <3> QED
      BY <2>1, <3>1
  <2>7. SubSeq(args, 2, n) = t
    BY <1>1, <2>1
  <2>8. HasSubcommand(t) <=> 2 \in DOMAIN args /\ args[2] \in VitestSubcommands
    <3> HIDE DEF t
    <3>1. t # <<>> <=> n > 1
      BY <1>1, <2>5
    <3>2. n > 1 => t[1] = args[2]
      <4> SUFFICES ASSUME n > 1 PROVE t[1] = args[2]
        OBVIOUS
      <4>1. 1 \in 1 .. n - 1
        BY <1>1
      <4> QED
        BY <2>5, <4>1
    <3> QED
      BY <1>1, <3>1, <3>2 DEF HasSubcommand
  <2>9. HasSubcommand(t) => SubSeq(args, 3, n) = Tail(t)
    <3> SUFFICES ASSUME HasSubcommand(t) PROVE SubSeq(args, 3, n) = Tail(t)
      OBVIOUS
    <3>1. n > 1
      BY <1>1, <2>8
    <3> QED
      BY <1>1, <2>5, <3>1
  <2>10. SubSeq(args, next, n) = VitestBehind(args)
    <3> HIDE DEF t
    <3>1. Unlaunched(args) = t
      BY <1>3 DEF Unlaunched, t
    <3> QED
      BY <2>4, <2>7, <2>8, <2>9, <3>1 DEF VitestBehind
  <2>11. \A x, y : <<x>> \o <<y>> = <<x, y>>
    <3> TAKE x, y
    <3> DEFINE u == <<x>> \o <<y>>
               S == {x, y}
    <3>1. /\ <<x>> \in Seq(S) /\ Len(<<x>>) = 1 /\ <<x>>[1] = x
          /\ <<y>> \in Seq(S) /\ Len(<<y>>) = 1 /\ <<y>>[1] = y
          /\ 1 \in 1 .. 1 /\ 1 + 1 = 2
      OBVIOUS
    <3>2. u \in Seq(S) /\ Len(u) = 2 /\ u[1] = x /\ u[2] = y
      BY ONLY <3>1, ConcatShape
    <3> HIDE DEF u
    <3>3. u = <<u[1], u[2]>>
      BY ONLY <3>2
    <3> QED
      BY <3>2, <3>3 DEF u
  <2>12. VitestFront(args, sub) = <<Word("vitest")>> \o <<Word(sub)>>
    BY Zenon, <1>3, <2>11 DEF VitestFront
  <2>13. SubSeq(args, 1, at - 1) = <<Word("vitest")>>
    BY <2>4, <2>6
  <2> HIDE DEF next
  <2> QED
    BY Zenon, <1>2, <2>10, <2>12, <2>13
<1>4. CASE ~ Launched("vitest", args)
  <2>1. named = {}
    BY <1>4 DEF ValueIsMistaken
  <2>2. at = 1
    BY <2>1 DEF VitestPlace
  <2> HIDE DEF at, named
  <2>3. SubSeq(args, 1, 0) = <<>> /\ SubSeq(args, 1, n) = args /\ SubSeq(args, 2, n) = Tail(args)
    OBVIOUS
  <2>4. HasSubcommand(args) <=> 1 \in DOMAIN args /\ args[1] \in VitestSubcommands
    BY <1>1 DEF HasSubcommand
  <2>5. SubSeq(args, next, n) = VitestBehind(args)
    BY <1>4, <2>2, <2>3, <2>4 DEF VitestBehind, Unlaunched
  <2>6. \A x : <<>> \o <<x>> = <<x>>
    OBVIOUS
  <2>7. VitestFront(args, sub) = <<>> \o <<Word(sub)>>
    BY Zenon, <1>4, <2>6 DEF VitestFront
  <2>8. SubSeq(args, 1, at - 1) = <<>>
    BY <2>2, <2>3
  <2> HIDE DEF next
  <2> QED
    BY Zenon, <1>2, <2>5, <2>7, <2>8
<1> QED
  BY <1>3, <1>4

(* Nothing is open behind the front.                                       *)
LEMMA FrontWords ==
  ASSUME NEW A, NEW args \in Seq(A), NEW sub, sub # "vitest", Word(sub) \in A, Word("vitest") \in A,
         NEW arity
  PROVE  LET r == VitestFront(args, sub)
         IN  /\ r \in Seq(A) /\ Closed(r, arity) /\ \A i \in DOMAIN r : IsWord(r[i])
             /\ Unowned(r, arity, Len(r)) = {}
             /\ \A s \in Seq(A) : Len(r) = Skipped("vitest", r \o s)
<1> DEFINE r == VitestFront(args, sub)
<1>1. /\ r \in Seq(A) /\ Len(r) \in {1, 2} /\ \A i \in DOMAIN r : IsWord(r[i])
      /\ Len(r) = 2 <=> r[1] = Word("vitest")
  <2>1. Word(sub) # Word("vitest")
    BY DEF Word
  <2>2. CASE Launched("vitest", args)
    <3> DEFINE q == <<Word("vitest"), Word(sub)>>
    <3>1. q \in Seq(A) /\ Len(q) = 2 /\ DOMAIN q = {1, 2} /\ q[1] = Word("vitest") /\ q[2] = Word(sub)
      OBVIOUS
    <3> HIDE DEF q
    <3>2. \A i \in DOMAIN q : IsWord(q[i])
      BY <3>1 DEF IsWord, Word
    <3>3. r = q
      BY <2>2 DEF VitestFront, q
    <3> QED
      BY <3>1, <3>2, <3>3
  <2>3. CASE ~ Launched("vitest", args)
    <3> DEFINE q == <<Word(sub)>>
    <3>1. q \in Seq(A) /\ Len(q) = 1 /\ DOMAIN q = {1} /\ q[1] = Word(sub)
      OBVIOUS
    <3> HIDE DEF q
    <3>2. \A i \in DOMAIN q : IsWord(q[i])
      BY <3>1 DEF IsWord, Word
    <3>3. r = q
      BY <2>3 DEF VitestFront, q
    <3> QED
      BY <2>1, <3>1, <3>2, <3>3
  <2> QED
    BY <2>2, <2>3
<1> HIDE DEF r
<1>2. Closed(r, arity) /\ \A first : Unowned(r, arity, first) = {r[j].text : j \in {k \in DOMAIN r : k > first}}
  BY <1>1, AllWords
<1>3. Unowned(r, arity, Len(r)) = {}
  <2>1. \A k \in DOMAIN r : ~ (k > Len(r))
    BY <1>1
  <2>2. {k \in DOMAIN r : k > Len(r)} = {}
    BY <2>1
  <2> QED
    BY <1>2, <2>2
<1>4. ASSUME NEW s \in Seq(A) PROVE Len(r) = Skipped("vitest", r \o s)
  <2>1. 1 \in 1 .. Len(r) /\ Len(s) \in Nat
    BY <1>1
  <2>2. (r \o s)[1] = r[1] /\ Len(r \o s) = Len(r) + Len(s) /\ r \o s \in Seq(A)
    BY <1>1, <2>1, ConcatShape
  <2> DEFINE u == r \o s
  <2>3. u # <<>>
    BY <1>1, <2>1, <2>2
  <2> HIDE DEF u
  <2>4. u[1] = r[1]
    BY <2>2 DEF u
  <2>5. Launched("vitest", u) <=> Len(r) = 2
    BY <1>1, <2>3, <2>4 DEF Launched
  <2>6. Len(r) = Skipped("vitest", u)
    BY <1>1, <2>5 DEF Skipped
  <2> QED
    BY <2>6 DEF u
<1> QED
  BY <1>1, <1>2, <1>3, <1>4 DEF r

(* What is left behind it has no words but values.                         *)
LEMMA BehindFrontOwned ==
  ASSUME NEW T, NEW args \in Seq(Arguments(T)), Understood("vitest", args)
  PROVE  LET q == VitestBehind(args)
             a == ArityOf("vitest", T)
         IN  q \in Seq(Arguments(T)) /\ Obeys(q, a) /\ AllOwned(q, a)
<1> DEFINE A == Arguments(T)
           a == ArityOf("vitest", T)
           s == Unlaunched(args)
           t == Tail(s)
           Accounted(x, j) == Owned(x, a, j) \/ (j = 1 /\ x[j] = Word("run"))
<1>1. args \in Seq(A) /\ Obeys(args, a)
  BY UnderstoodMeans
<1>2. \A j \in DOMAIN args : IsWord(args[j]) =>
        \/ Owned(args, a, j)
        \/ j = Launch("vitest", args) + 1 /\ args[j] = Word("run")
        \/ j = Launch("vitest", args)
  BY UnderstoodMeans
<1>3. Launched("vitest", args) => args # <<>> /\ IsWord(args[1])
  BY DEF Launched, Word, IsWord
<1>4. HasSubcommand(s) => s # <<>> /\ IsWord(s[1])
  BY DEF HasSubcommand, VitestSubcommands, Word, IsWord
<1>5. Word("run") \in VitestSubcommands
  BY DEF VitestSubcommands
<1> HIDE DEF A, a, s
<1>6. s \in Seq(A) /\ Obeys(s, a) /\ \A j \in DOMAIN s : IsWord(s[j]) => Accounted(s, j)
  <2>1. CASE Launched("vitest", args)
    <3>1. s = Tail(args) /\ Launch("vitest", args) = 1
      BY <2>1 DEF s, Unlaunched, Launch
    <3>2. /\ s \in Seq(A) /\ Obeys(s, a)
          /\ \A j \in DOMAIN s : /\ j + 1 \in DOMAIN args /\ s[j] = args[j + 1]
                                 /\ Owned(args, a, j + 1) => Owned(s, a, j)
      BY <1>1, <1>3, <2>1, <3>1, BehindWord
    <3>3. \A j \in DOMAIN s : j \in Nat /\ j # 0
      BY <3>2
    <3> QED
      BY <1>2, <3>1, <3>2, <3>3
  <2>2. CASE ~ Launched("vitest", args)
    <3>1. s = args /\ Launch("vitest", args) = 0
      BY <2>2 DEF s, Unlaunched, Launch
    <3>2. \A j \in DOMAIN args : j # 0
      BY <1>1
    <3> QED
      BY <1>1, <1>2, <3>1, <3>2
  <2> QED
    BY <2>1, <2>2
<1>7. CASE HasSubcommand(s)
  <2>1. /\ t \in Seq(A) /\ Obeys(t, a)
        /\ \A j \in DOMAIN t : /\ j + 1 \in DOMAIN s /\ t[j] = s[j + 1]
                               /\ Owned(s, a, j + 1) => Owned(t, a, j)
    BY <1>4, <1>6, <1>7, BehindWord
  <2> HIDE DEF t
  <2>2. \A j \in DOMAIN t : j + 1 # 1
    BY <2>1
  <2>3. AllOwned(t, a)
    BY <1>6, <2>1, <2>2 DEF AllOwned
  <2> QED
    BY <1>7, <2>1, <2>3 DEF VitestBehind, A, a, s, t
<1>8. CASE ~ HasSubcommand(s)
  <2>1. \A j \in DOMAIN s : IsWord(s[j]) => Owned(s, a, j)
    BY <1>5, <1>6, <1>8 DEF HasSubcommand
  <2> QED
    BY <1>6, <1>8, <2>1 DEF VitestBehind, AllOwned, A, a, s
<1> QED
  BY <1>7, <1>8

LEMMA VitestReads ==
  ASSUME NEW T, Mentioned \subseteq T,
         NEW args \in Seq(Arguments(T)), Understood("vitest", args), ~ ValueIsMistaken("vitest", args),
         NEW F, F \subseteq T, NEW files \in Seq(F)
  PROVE  FilesRead("vitest", RunArgs("vitest", args, files)) = ToSet(files)
<1> DEFINE A == Arguments(T)
           a == ArityOf("vitest", T)
           q == VitestBehind(args)
           r == VitestFront(args, "run")
           p == r \o q
           w == Words(files)
<1>1. args \in Seq(A) /\ Word("run") \in A /\ Word("vitest") \in A
  BY AddedArgs
<1>2. q \in Seq(A) /\ Obeys(q, a) /\ AllOwned(q, a)
  BY BehindFrontOwned
<1>3. Closed(q, a)
  BY <1>2, ObeysClosed
<1>4. w \in Seq(A)
  BY FileWords
<1> HIDE DEF A, a, q, w
<1>5. /\ r \in Seq(A) /\ Closed(r, a) /\ Unowned(r, a, Len(r)) = {}
      /\ \A s \in Seq(A) : Len(r) = Skipped("vitest", r \o s)
  BY <1>1, FrontWords
<1> HIDE DEF r
<1>6. Len(r) \in Nat /\ Len(q) \in Nat /\ Len(r) <= Len(r)
  BY <1>2, <1>5
<1>7. p \in Seq(A) /\ Closed(p, a) /\ Len(p) = Len(r) + Len(q)
  BY <1>2, <1>3, <1>5, ConcatShape, ConcatClosed
<1>8. Unowned(p, a, Len(r)) = {}
  <2>1. Apart(r, q, a)
    BY <1>5 DEF Apart
  <2>2. Unowned(r \o q, a, Len(r)) = Unowned(r, a, Len(r)) \cup Unowned(q, a, 0)
    <3> DEFINE k == Len(r)
    <3>1. r \in Seq(A) /\ q \in Seq(A) /\ k \in Nat /\ k <= Len(r)
      BY <1>2, <1>5, <1>6
    <3> HIDE DEF k
    <3>2. Unowned(r \o q, a, k) = Unowned(r, a, k) \cup Unowned(q, a, 0)
      BY ONLY <2>1, <3>1, ConcatUnowned
    <3> QED
      BY <3>2 DEF k
  <2>3. Unowned(q, a, 0) = {}
    BY <1>2, AllOwnedUnowned
  <2> QED
    BY <1>5, <2>2, <2>3
<1>9. Len(r) = Skipped("vitest", p \o w)
  <2>1. p \o w = r \o (q \o w) /\ q \o w \in Seq(A)
    BY <1>2, <1>4, <1>5
  <2> QED
    BY <1>5, <2>1
<1>10. Len(r) <= Len(p)
  BY <1>6, <1>7
<1> HIDE DEF p
<1>11. FilesRead("vitest", p \o Words(files)) = ToSet(files)
  BY <1>6, <1>7, <1>8, <1>9, <1>10, PrefixReads DEF A, a, w
<1>12. VitestArgs(args, "run") = p
  BY VitestShape DEF p, q, r
<1> QED
  BY <1>11, <1>12 DEF RunArgs

(* Playwright: the files come first, and what is left of the user's        *)
(* command has no words of its own.                                        *)
LEMMA PlaywrightReads ==
  ASSUME NEW T, Mentioned \subseteq T,
         NEW args \in Seq(Arguments(T)), Understood("playwright", args),
         NEW F, F \subseteq T, NEW files \in Seq(F)
  PROVE  FilesRead("playwright", RunArgs("playwright", args, files)) = ToSet(files)
<1> DEFINE A == Arguments(T)
           a == ArityOf("playwright", T)
           q == PlaywrightCLIArgs(args)
           b == Arities(q)
           dropped == {x \in ToSet(q) : Is(x, PlaywrightRunOverrides) \/ (TRUE /\ IsWord(x))}
           p == Without(q, dropped, b)
           w == Words(files)
           r == <<Word("test")>>
<1>1. Obeys(args, a)
  BY UnderstoodMeans
<1>2. args \in Seq(A) /\ Word("test") \in A
  BY AddedArgs
<1>3. q \in Seq(A) /\ Obeys(q, a)
  <2> HIDE DEF A, a
  <2>1. CASE StartsWithWord(args)
    BY <1>1, <1>2, <2>1, BehindWord DEF StartsWithWord, PlaywrightCLIArgs
  <2>2. CASE ~ StartsWithWord(args)
    BY <1>1, <1>2, <2>2 DEF PlaywrightCLIArgs
  <2> QED
    BY <2>1, <2>2
<1> HIDE DEF q
<1>4. \A i \in DOMAIN q : b[q[i].text] = a[q[i].text]
  BY <1>3, TablesAre
<1>5. Typed(q, a)
  BY <1>3, ArityTyped
<1>6. \A n \in DOMAIN q : IsWord(q[n]) /\ ~ Owned(q, b, n) => q[n] \in dropped
  BY DEF ToSet
<1>7. w \in Seq(A) /\ Closed(w, a) /\ Unowned(w, a, 0) = ToSet(files)
  BY FileWords
<1> HIDE DEF b, dropped, A, a, w
<1>8. Obeys(q, b) /\ Typed(q, b)
  BY <1>3, <1>4, <1>5, SameArity DEF Typed
<1>9. p \in Seq(A)
  BY <1>3, <1>8, WithoutFilters
<1>10. PICK places, h : IsFiltered(p, q, b, dropped, places, h)
  BY <1>3, <1>8, WithoutFilters
<1> HIDE DEF p
<1>11. AllOwned(p, b)
  BY <1>3, <1>6, <1>8, <1>9, <1>10, FilterFree
<1>12. \A i \in DOMAIN p : b[p[i].text] = a[p[i].text]
  <2>1. \A i \in DOMAIN p : h[i] \in DOMAIN q /\ p[i] = q[h[i]]
    BY <1>3, <1>9, <1>10, FilteredFrom
  <2> QED
    BY <1>4, <2>1
<1>13. AllOwned(p, a)
  BY <1>9, <1>11, <1>12, SameArity
<1>14. Unowned(p, a, 0) = {}
  BY <1>13, AllOwnedUnowned
<1>15. r \in Seq(A) /\ Len(r) = 1 /\ Closed(r, a) /\ Unowned(r, a, 1) = {}
  BY <1>2, FrontWord
<1> HIDE DEF r
<1> DEFINE s == r \o w
<1>16. s \in Seq(A) /\ Closed(s, a) /\ 1 <= Len(s)
  <2>1. r \in Seq(A) /\ w \in Seq(A) /\ Closed(r, a)
    BY <1>7, <1>15
  <2>2. r \o w \in Seq(A) /\ Closed(r \o w, a) /\ Len(r \o w) = Len(r) + Len(w)
    BY <1>7, <2>1, ConcatShape, ConcatClosed
  <2>3. Len(w) \in Nat /\ Len(r) = 1
    BY <2>1, <1>15
  <2> QED
    BY <2>2, <2>3
<1>17. Unowned(s, a, 1) = ToSet(files)
  <2>1. r \in Seq(A) /\ w \in Seq(A) /\ Apart(r, w, a) /\ 1 \in Nat /\ 1 <= Len(r)
    BY <1>7, <1>15 DEF Apart
  <2>2. Unowned(r \o w, a, 1) = Unowned(r, a, 1) \cup Unowned(w, a, 0)
    BY <2>1, ConcatUnowned
  <2> QED
    BY <1>7, <1>15, <2>2
<1> HIDE DEF s
<1>18. Unowned(s \o p, a, 1) = ToSet(files)
  <2>1. Apart(s, p, a) /\ 1 \in Nat
    BY <1>16 DEF Apart
  <2>2. Unowned(s \o p, a, 1) = Unowned(s, a, 1) \cup Unowned(p, a, 0)
    BY <1>9, <1>16, <2>1, ConcatUnowned
  <2> QED
    BY <1>14, <1>17, <2>2
<1>19. s \o p \in Seq(A)
  BY <1>9, <1>16, ConcatShape
<1>20. FilesRead("playwright", s \o p) = Unowned(s \o p, a, 1)
  BY <1>19, ReadsUnowned DEF A, a, Skipped, Launched
<1>21. PlaywrightRunArgs(args, files) = s \o p
  BY DEF PlaywrightRunArgs, PlaywrightFilter, s, p, r, w, q, b, dropped
<1> QED
  BY <1>18, <1>20, <1>21 DEF RunArgs

(* Cypress: no --spec of the user's is left, whatever becomes of the word  *)
(* that is taken for the subcommand.                                       *)
LEMMA SpecIsRemoved ==
  ASSUME NEW A, NEW s \in Seq(A)
  PROVE  /\ CypressWithoutSpec(s) \in Seq(A)
         /\ \A i \in DOMAIN CypressWithoutSpec(s) : CypressWithoutSpec(s)[i].text = "--spec" =>
              CypressWithoutSpec(s)[i].kind # "option"
<1> DEFINE b == [name \in Texts(s) |-> IF name = "--spec" THEN "one" ELSE "none"]
           dropped == {x \in ToSet(s) : Is(x, {"--spec"})}
           n == Len(s)
<1>1. n \in Nat /\ DOMAIN s = 1 .. n
  OBVIOUS
<1>2. \A i \in 1 .. n : b[s[i].text] = IF s[i].text = "--spec" THEN "one" ELSE "none"
  BY <1>1 DEF Texts
<1>3. \A i \in 1 .. n : s[i] \in dropped <=> s[i].text = "--spec" /\ ~ IsWord(s[i])
  BY <1>1 DEF ToSet, Is
<1> HIDE DEF b, dropped
<1>4. Typed(s, b)
  BY <1>1, <1>2 DEF Typed, Kinds
<1>5. PICK c \in [0 .. Len(s) -> States] :
        Scans(c, s, dropped, b) /\ Without(s, dropped, b) = Keeping(s, KeptBy(c, s))
  BY <1>4, ScanExists
<1> DEFINE S == {i \in 0 .. n : /\ c[i].wanted \in {"none", "one"}
                                /\ c[i].wanted = "one" => ~ c[i].keep
                                /\ i # 0 /\ s[i].text = "--spec" /\ s[i].kind = "option" => ~ c[i].keep}
<1>6. 0 \in S
  BY <1>1, <1>5 DEF Scans
<1>7. ASSUME NEW i \in 1 .. n, i - 1 \in S PROVE i \in S
  <2>1. i - 1 \in 0 .. n /\ i \in 0 .. n /\ i # 0
    BY <1>1
  <2> DEFINE x == c[i - 1]
  <2>2. x \in States /\ b[s[i].text] \in Kinds
    BY <1>1, <1>4, <2>1 DEF Typed
  <2>3. x.wanted \in {"none", "one"} /\ (x.wanted = "one" => ~ x.keep)
    BY <1>7
  <2>4. c[i] = Scanned(s[i], x, dropped, b)
    BY <1>5 DEF Scans
  <2> HIDE DEF x
  <2>5. CASE Belongs(s[i], x.wanted)
    <3>1. x.wanted = "one"
      BY <2>3, <2>5 DEF Belongs
    <3> DEFINE y == Scanned(s[i], x, dropped, b)
    <3>2. y.keep = x.keep /\ y.wanted = IF x.wanted = "many" THEN "many" ELSE "none"
      BY <2>2, <2>5, ScannedTyped
    <3> HIDE DEF y
    <3>3. c[i] = y
      BY <2>4 DEF y
    <3> QED
      BY <2>1, <2>3, <3>1, <3>2, <3>3
  <2>6. CASE ~ Belongs(s[i], x.wanted)
    <3>1. /\ c[i].keep = (s[i] \notin dropped)
          /\ c[i].wanted = IF s[i].kind = "option" THEN b[s[i].text] ELSE "none"
      BY <2>2, <2>4, <2>6, ScannedTyped
    <3> QED
      BY <1>2, <1>3, <2>1, <3>1 DEF IsWord
  <2> QED
    BY <2>5, <2>6
<1> HIDE DEF S
<1>8. 0 .. n \subseteq S
  BY <1>1, <1>6, <1>7, UpTo
<1> DEFINE places == KeptBy(c, s)
           out == Keeping(s, places)
<1>9. \A i \in places : i \in 1 .. n /\ ~ (s[i].text = "--spec" /\ s[i].kind = "option")
  BY <1>1, <1>8 DEF KeptBy, S
<1>10. places \in SUBSET (1 .. Len(s))
  BY <1>9
<1> HIDE DEF places
<1>11. out \in Seq(A)
  BY <1>10, KeepingPlaces
<1>12. PICK h : /\ IsNumbering(h, Len(out), places)
                /\ \A i \in 1 .. Len(out) : out[i] = s[h[i]]
  BY <1>10, KeepingPlaces
<1>13. CypressWithoutSpec(s) = out
  BY <1>5 DEF CypressWithoutSpec, b, dropped, places
<1> HIDE DEF out
<1>14. \A i \in DOMAIN out : h[i] \in places /\ out[i] = s[h[i]]
  BY <1>11, <1>12 DEF IsNumbering
<1> QED
  BY <1>9, <1>11, <1>13, <1>14

LEMMA WithoutSubcommand ==
  ASSUME NEW A, NEW s \in Seq(A)
  PROVE  CypressWithoutSubcommand(s) \in Seq(A)
<1> DEFINE at == {i \in DOMAIN s : s[i] \in {Word("run"), Word("open")}}
           first == CHOOSE i \in at : \A j \in at : i <= j
<1>1. CASE at = {}
  BY <1>1 DEF CypressWithoutSubcommand
<1>2. CASE at # {}
  <2>1. at \subseteq Nat
    OBVIOUS
  <2> HIDE DEF at
  <2>2. PICK i \in at : \A j \in at : ~ (<<j, i>> \in OpToRel(<, Nat))
    BY <1>2, <2>1, NatLessThanWellFounded, WFMin
  <2>7. \A j \in at : ~ (j < i)
    BY <2>1, <2>2 DEF OpToRel
  <2>3. \A j \in at : i <= j
    BY <2>1, <2>7
  <2>4. first \in at
    BY <2>2, <2>3
  <2> HIDE DEF first
  <2>5. first \in 1 .. Len(s)
    BY <2>4 DEF at
  <2>6. RemoveAt(s, first) \in Seq(A)
    <3>1. /\ SubSeq(s, 1, first - 1) \in Seq(A)
          /\ SubSeq(s, first + 1, Len(s)) \in Seq(A)
      BY <2>5
    <3> QED
      BY <3>1 DEF RemoveAt
  <2> QED
    BY <1>2, <2>6 DEF CypressWithoutSubcommand, first, at
<1> QED
  BY <1>1, <1>2

LEMMA CypressReads ==
  ASSUME NEW T, Mentioned \subseteq T, NEW args \in Seq(Arguments(T)),
         NEW F, F \subseteq T, NEW files \in Seq(F)
  PROVE  FilesRead("cypress", RunArgs("cypress", args, files)) = ToSet(files)
<1> DEFINE A == Arguments(T)
           p == CypressWithoutSpec(CypressWithoutSubcommand(args))
           w == Words(files)
           r == <<Word("run")>>
           m == r \o p
           sp == <<Option("--spec")>>
           u == m \o sp \o w
           L == Len(m) + 1
           v == ValuesOf("cypress", u)
<1>1. /\ p \in Seq(A)
      /\ \A i \in DOMAIN p : p[i].text = "--spec" => p[i].kind # "option"
  BY WithoutSubcommand, SpecIsRemoved
<1>2. w \in Seq(A) /\ Len(w) = Len(files) /\ \A i \in DOMAIN w : IsWord(w[i])
  BY FileWords
<1>3. \A i \in 1 .. Len(files) : w[i].text = files[i]
  BY DEF Words, Word
<1>4. r \in Seq(A) /\ Len(r) = 1 /\ r[1].kind = "word"
  BY AddedArgs DEF Word
<1>5. sp \in Seq(A) /\ Len(sp) = 1 /\ sp[1] = Option("--spec")
  BY AddedArgs
<1> HIDE DEF A, p, w, r, sp
<1>6. /\ m \in Seq(A) /\ Len(m) = 1 + Len(p)
      /\ \A i \in 1 .. Len(m) : m[i].text = "--spec" => m[i].kind # "option"
  <2>6. p \in Seq(A) /\ r \in Seq(A) /\ m = r \o p
    BY <1>1, <1>4
  <2> HIDE DEF m
  <2>1. /\ m \in Seq(A) /\ Len(m) = Len(r) + Len(p)
        /\ \A i \in 1 .. Len(r) : m[i] = r[i]
        /\ \A i \in 1 .. Len(p) : m[Len(r) + i] = p[i]
        /\ \A k \in 1 .. Len(r) + Len(p) : k \in 1 .. Len(r) \/ \E i \in 1 .. Len(p) : k = Len(r) + i
    BY <2>6, ConcatShape
  <2>2. \A i \in 1 .. Len(p) : m[Len(r) + i].text = "--spec" => m[Len(r) + i].kind # "option"
    <3>1. DOMAIN p = 1 .. Len(p)
      BY <1>1
    <3>2. \A i \in 1 .. Len(p) : m[Len(r) + i] = p[i]
      BY <2>1
    <3> QED
      BY <1>1, <3>1, <3>2
  <2>3. \A i \in 1 .. Len(r) : m[i].kind # "option"
    BY <1>4, <2>1
  <2>4. Len(m) = 1 + Len(p)
    BY <1>4, <2>1
  <2>5. ASSUME NEW i \in 1 .. Len(m), m[i].text = "--spec" PROVE m[i].kind # "option"
    BY <2>1, <2>2, <2>3, <2>5
  <2> QED
    BY <2>1, <2>4, <2>5
<1> HIDE DEF m
<1>7. /\ m \o sp \in Seq(A) /\ Len(m \o sp) = L /\ L \in Nat /\ L > 0
      /\ \A i \in 1 .. L - 1 : (m \o sp)[i] = m[i]
      /\ (m \o sp)[L] = Option("--spec")
  <2>3. m \in Seq(A) /\ sp \in Seq(A)
    BY <1>5, <1>6
  <2>1. /\ m \o sp \in Seq(A) /\ Len(m \o sp) = Len(m) + Len(sp)
        /\ \A i \in 1 .. Len(m) : (m \o sp)[i] = m[i]
        /\ \A i \in 1 .. Len(sp) : (m \o sp)[Len(m) + i] = sp[i]
    BY <2>3, ConcatShape
  <2>2. Len(m) \in Nat /\ L - 1 = Len(m)
    BY <1>6
  <2> QED
    BY <1>5, <2>1, <2>2
<1>8. /\ u \in Seq(A) /\ DOMAIN u = 1 .. L + Len(files)
      /\ \A i \in 1 .. L - 1 : u[i] = m[i]
      /\ u[L] = Option("--spec")
      /\ \A i \in 1 .. Len(files) : u[L + i] = w[i]
      /\ \A k \in 1 .. L + Len(files) : k \in 1 .. L \/ \E i \in 1 .. Len(files) : k = L + i
  <2> DEFINE x == m \o sp
  <2>1. x \in Seq(A) /\ Len(x) = L /\ u = x \o w
    BY <1>7
  <2> HIDE DEF x, u, L
  <2>2. /\ x \o w \in Seq(A)
        /\ \A i \in 1 .. Len(x) : (x \o w)[i] = x[i]
        /\ \A i \in 1 .. Len(w) : (x \o w)[Len(x) + i] = w[i]
        /\ DOMAIN (x \o w) = 1 .. Len(x) + Len(w)
        /\ \A k \in 1 .. Len(x) + Len(w) : k \in 1 .. Len(x) \/ \E i \in 1 .. Len(w) : k = Len(x) + i
    <3>1. x \in Seq(A) /\ w \in Seq(A)
      BY <1>2, <2>1
    <3> QED
      BY <3>1, ConcatShape
  <2>3. \A i \in 1 .. L : u[i] = x[i]
    BY <2>1, <2>2
  <2>4. /\ \A i \in 1 .. L - 1 : i \in 1 .. L
        /\ L \in 1 .. L
    BY <1>7
  <2> QED
    BY <1>2, <1>7, <2>1, <2>2, <2>3, <2>4 DEF x
<1> HIDE DEF u, L
<1>9. Len(files) \in Nat /\ L \in Nat /\ L > 0
  BY <1>7
<1>10. v["--spec"] = "many"
  <2>1. L \in DOMAIN u /\ u[L].text = "--spec"
    BY <1>8, <1>9 DEF Option
  <2>2. "--spec" \in Texts(u)
    BY <2>1 DEF Texts
  <2> QED
    BY <2>2 DEF ValuesOf
<1> HIDE DEF v
<1>11. \A i \in 1 .. Len(files) : IsWord(u[L + i]) /\ u[L + i].text = files[i]
  BY <1>2, <1>3, <1>8
<1>12. ASSUME NEW i \in DOMAIN u, NEW k \in DOMAIN u, u[i].text = "--spec", Owns(u, v, i, k)
       PROVE  i = L /\ \E j \in 1 .. Len(files) : k = L + j
  <2>1. i < k /\ u[i].kind = "option"
    BY <1>12 DEF Owns
  <2>2. i \notin 1 .. L - 1
    <3>1. i \in 1 .. L - 1 => i \in 1 .. Len(m) /\ u[i] = m[i]
      BY <1>8, <1>9 DEF L
    <3> QED
      BY <1>6, <1>12, <2>1, <3>1
  <2>3. \A j \in 1 .. Len(files) : i # L + j
    BY <1>11, <2>1 DEF IsWord
  <2>4. i = L
    BY <1>8, <1>9, <2>2, <2>3
  <2>5. k \in 1 .. L + Len(files) /\ L < k
    BY <1>8, <2>1, <2>4
  <2>6. k \notin 1 .. L
    BY <1>9, <2>5
  <2>7. \E j \in 1 .. Len(files) : k = L + j
    BY <1>8, <2>5, <2>6
  <2> QED
    BY <2>4, <2>7
<1>13. ASSUME NEW j \in 1 .. Len(files) PROVE L \in DOMAIN u /\ u[L].text = "--spec" /\ Owns(u, v, L, L + j)
  <2>1. \A k \in L + 1 .. L + j : IsWord(u[k])
    <3> TAKE k \in L + 1 .. L + j
    <3>1. k - L \in 1 .. Len(files) /\ k = L + (k - L)
      BY <1>9
    <3> QED
      BY <1>11, <3>1
  <2>2. L \in DOMAIN u /\ u[L].text = "--spec" /\ u[L].kind = "option" /\ L < L + j
    BY <1>8, <1>9 DEF Option
  <2> QED
    BY <1>10, <1>11, <2>1, <2>2 DEF Owns
<1> DEFINE After(k) == \E i \in DOMAIN u : u[i].text = "--spec" /\ Owns(u, v, i, k)
           K == {k \in DOMAIN u : k > 1 /\ After(k)}
<1>14. K = {L + j : j \in 1 .. Len(files)}
  <2>1. \A k \in K : \E j \in 1 .. Len(files) : k = L + j
    BY <1>12
  <2>2. ASSUME NEW j \in 1 .. Len(files) PROVE L + j \in K
    <3>1. L + j \in DOMAIN u /\ L + j > 1
      BY <1>8, <1>9
    <3>2. After(L + j)
      BY <1>13
    <3> QED
      BY <3>1, <3>2
  <2> HIDE DEF K
  <2> QED
    BY <2>1, <2>2
<1> DEFINE R == {u[k].text : k \in K}
<1>15. FilesRead("cypress", u) = R
  BY DEF FilesRead, Launched, v
<1> HIDE DEF K
<1>16. R = {files[j] : j \in 1 .. Len(files)}
  BY <1>11, <1>14
<1>17. ToSet(files) = {files[j] : j \in 1 .. Len(files)}
  BY DEF ToSet
<1>18. CypressRunArgs(args, files) = u
  BY DEF CypressRunArgs, u, m, r, p, sp, w
<1> HIDE DEF R
<1> QED
  BY <1>15, <1>16, <1>17, <1>18 DEF RunArgs

(* The files that a process is asked for are those it is given.            *)
LEMMA RunReadsFiles ==
  ASSUME NEW f \in {"jest", "rspec", "minitest", "pytest", "cucumber", "vitest", "playwright", "cypress"},
         NEW T, Mentioned \subseteq T,
         NEW args \in Seq(Arguments(T)), Understood(f, args), ~ (f = "vitest" /\ ValueIsMistaken(f, args)),
         NEW F, F \subseteq T, NEW files \in Seq(F)
  PROVE  FilesRead(f, RunArgs(f, args, files)) = ToSet(files)
<1>1. CASE f \in {"jest", "rspec", "minitest", "pytest"}
  BY <1>1, CommonReads
<1>2. CASE f = "cucumber"
  BY <1>2, CucumberReads
<1>3. CASE f = "vitest"
  BY <1>3, VitestReads
<1>4. CASE f = "playwright"
  BY <1>4, PlaywrightReads
<1>5. CASE f = "cypress"
  BY <1>5, CypressReads
<1> QED
  BY <1>1, <1>2, <1>3, <1>4, <1>5

-----------------------------------------------------------------------------
(* Steps of a discovery that asks a JavaScript framework, and of one that  *)
(* has the tests written to the report.                                    *)
Asking == {"prepare", "command", "answer", "nodeAPI", "filter"}
Reporting == {"dryRun", "parse"}

(* What a discovery knows at each of its steps.                            *)
PathInv ==
  /\ outcome # "none" => step = "done"
  /\ full => fw \in Walkers /\ step \notin Asking
  /\ step \in Reporting => full
  /\ step = "nodeAPI" => fw = "vitest"

(* Candidates are the files of the walk, and a framework is only asked     *)
(* when it answers and the candidates are not taken.                       *)
ExactInv ==
  /\ step \in {"discover"} \cup Asking =>
       /\ explicit <=> exclude /\ Cardinality(MatchingFiles) <= MaxExplicit
       /\ explicit => selection = MatchingFiles
  /\ step \in Asking => fw \in JavaScript /\ ~TakesCandidates
  /\ step \in {"answer", "filter"} => lists
  /\ ~lists => fw = "vitest"
  /\ ListIsExact

(* The report of an earlier discovery is gone before the dry run.          *)
FreshInv ==
  /\ step \in Reporting /\ removable => report \in {"absent", "torn", "fresh"}
  /\ ReportIsFresh

(* Cypress lists nothing while its file is in the project.                 *)
TempsInv ==
  /\ fw = "cypress" /\ ~removable => listed = {}
  /\ TempsAreRemoved

ListInv == PathInv /\ ExactInv /\ FreshInv /\ TempsInv

(* A worker that has not started a process, or is done with it.            *)
Idle == {"none", "building", "failed"}

(* Workers run when the discovery is over and its answer is taken.         *)
WorkInv ==
  /\ pc \in [Workers -> Idle \cup {"started", "watching", "ended"}]
  /\ child \in [Workers -> {"none", "running", "ended"}]
  /\ \A w \in Workers : pc[w] \in Idle => child[w] = "none" /\ w \notin scripts
  /\ \A w \in Workers : pc[w] = "ended" => child[w] = "ended" /\ w \notin scripts
  /\ \A w \in Workers : pc[w] # "none" => step = "done" /\ outcome = "none"

(* Of the signals a that came, b were passed on and c waits or is none.    *)
Forwards(a, b, c) ==
  /\ a \in Seq(SignalKinds) /\ b \in Seq(SignalKinds) /\ c \in SignalKinds \cup {"none"}
  /\ a # <<>> => IF b # <<>> THEN b[1] = a[1] ELSE c = a[1]
  /\ Len(b) + (IF c = "none" THEN 0 ELSE 1) <= Len(a)
  /\ \A i \in DOMAIN b : \E k \in DOMAIN a : b[i] = a[k]
  /\ c # "none" => \E k \in DOMAIN a : c = a[k]

SignalInv ==
  /\ pending \in [Workers -> SignalKinds \cup {"none"}]
  /\ sent \in [Workers -> Seq(SignalKinds)] /\ passed \in [Workers -> Seq(SignalKinds)]
  /\ \A w \in Workers : Forwards(sent[w], passed[w], pending[w])

RunInv == ListInv /\ WorkInv /\ SignalInv

-----------------------------------------------------------------------------
(* Discovery.                                                              *)

LEMMA PathStep == PathInv /\ ListNext => PathInv'
<1> SUFFICES ASSUME PathInv, ListNext PROVE PathInv'
  OBVIOUS
<1> USE DEF PathInv, Asking, Reporting, Walkers, Ruby, Python, JavaScript, Settings,
            Goto, Fail, Return, Answer
<1>1. CASE SanityCheck
  BY <1>1 DEF SanityCheck
<1>2. CASE RunTagScript
  BY <1>2 DEF RunTagScript
<1>3. CASE ReadTags
  BY <1>3 DEF ReadTags
<1>4. CASE DetectFramework
  BY <1>4 DEF DetectFramework
<1>5. CASE ResolveTestFiles
  BY <1>5 DEF ResolveTestFiles
<1>6. CASE ListWithoutFramework
  BY <1>6 DEF ListWithoutFramework
<1>7. CASE AskFramework
  BY <1>7 DEF AskFramework
<1>8. CASE Prepare
  BY <1>8 DEF Prepare
<1>9. CASE Command
  BY <1>9 DEF Command
<1>10. CASE PlaywrightFindsNone
  BY <1>10 DEF PlaywrightFindsNone
<1>11. CASE VitestRefuses
  BY <1>11 DEF VitestRefuses
<1>12. CASE ReadAnswer
  BY <1>12 DEF ReadAnswer
<1>13. CASE VitestFallback
  BY <1>13 DEF VitestFallback
<1>14. CASE Filter
  BY <1>14 DEF Filter
<1>15. CASE StartFull
  BY <1>15 DEF StartFull
<1>16. CASE DryRun
  BY <1>16 DEF DryRun
<1>17. CASE ParseReport
  BY <1>17 DEF ParseReport
<1> QED
  BY <1>1, <1>2, <1>3, <1>4, <1>5, <1>6, <1>7, <1>8, <1>9, <1>10, <1>11, <1>12, <1>13, <1>14, <1>15, <1>16, <1>17 DEF ListNext

(* The walk finds what the patterns say.                                   *)
LEMMA WalkFinds ==
  /\ Walk(tree, exclude) = MatchingFiles
  /\ exclude => Walk(tree, TRUE) = MatchingFiles
<1>1. CASE exclude
  BY <1>1 DEF Walk, MatchingFiles
<1>2. CASE ~exclude
  BY <1>2 DEF Walk, MatchingFiles
<1> QED
  BY Zenon, <1>1, <1>2

(* Where a discovery that asks no framework has its answer from.           *)
LEMMA ExactStep == PathInv /\ ExactInv /\ ListNext => ExactInv'
<1> SUFFICES ASSUME PathInv, ExactInv, ListNext PROVE ExactInv'
  OBVIOUS
<1> USE DEF PathInv, Asking, Reporting, Walkers, Ruby, Python, JavaScript, Settings,
            Selected, Goto, Fail, Return, Answer, ExactInv, ListIsExact, MatchingFiles,
            FrameworkFiles, JestIsNotAsked, TakesCandidates
<1>1. CASE SanityCheck
  BY <1>1 DEF SanityCheck
<1>2. CASE RunTagScript
  BY <1>2 DEF RunTagScript
<1>3. CASE ReadTags
  BY <1>3 DEF ReadTags
<1>4. CASE DetectFramework
  BY <1>4 DEF DetectFramework
<1>5. CASE ResolveTestFiles
  BY <1>5 DEF ResolveTestFiles, Select, Walk
<1>6. CASE ListWithoutFramework
  BY <1>6, WalkFinds DEF ListWithoutFramework
<1>7. CASE AskFramework
  BY <1>7 DEF AskFramework
<1>8. CASE Prepare
  BY <1>8 DEF Prepare
<1>9. CASE Command
  BY <1>9 DEF Command
<1>10. CASE PlaywrightFindsNone
  BY <1>10 DEF PlaywrightFindsNone
<1>11. CASE VitestRefuses
  BY <1>11 DEF VitestRefuses
<1>12. CASE ReadAnswer
  BY <1>12 DEF ReadAnswer
<1>13. CASE VitestFallback
  BY <1>13, WalkFinds DEF VitestFallback
<1>14. CASE Filter
  BY <1>14 DEF Filter, Filtered
<1>15. CASE StartFull
  BY <1>15 DEF StartFull
<1>16. CASE DryRun
  BY <1>16 DEF DryRun
<1>17. CASE ParseReport
  BY <1>17 DEF ParseReport
<1> QED
  BY <1>1, <1>2, <1>3, <1>4, <1>5, <1>6, <1>7, <1>8, <1>9, <1>10, <1>11, <1>12, <1>13, <1>14, <1>15, <1>16, <1>17 DEF ListNext

(* A discovery of tests starts without a report.                           *)
LEMMA FreshStep == PathInv /\ FreshInv /\ ListNext => FreshInv'
<1> SUFFICES ASSUME PathInv, FreshInv, ListNext PROVE FreshInv'
  OBVIOUS
<1> USE DEF PathInv, Asking, Reporting, Walkers, Ruby, Python, JavaScript, Settings,
            Selected, Goto, Fail, Return, Answer, FreshInv, ReportIsFresh
<1>1. CASE SanityCheck
  BY <1>1 DEF SanityCheck
<1>2. CASE RunTagScript
  BY <1>2 DEF RunTagScript
<1>3. CASE ReadTags
  BY <1>3 DEF ReadTags
<1>4. CASE DetectFramework
  BY <1>4 DEF DetectFramework
<1>5. CASE ResolveTestFiles
  BY <1>5 DEF ResolveTestFiles
<1>6. CASE ListWithoutFramework
  BY <1>6 DEF ListWithoutFramework
<1>7. CASE AskFramework
  BY <1>7 DEF AskFramework
<1>8. CASE Prepare
  BY <1>8 DEF Prepare
<1>9. CASE Command
  BY <1>9 DEF Command
<1>10. CASE PlaywrightFindsNone
  BY <1>10 DEF PlaywrightFindsNone
<1>11. CASE VitestRefuses
  BY <1>11 DEF VitestRefuses
<1>12. CASE ReadAnswer
  BY <1>12 DEF ReadAnswer
<1>13. CASE VitestFallback
  BY <1>13 DEF VitestFallback
<1>14. CASE Filter
  BY <1>14 DEF Filter
<1>15. CASE StartFull
  BY <1>15 DEF StartFull
<1>16. CASE DryRun
  BY <1>16 DEF DryRun
<1>17. CASE ParseReport
  BY <1>17 DEF ParseReport
<1> QED
  BY <1>1, <1>2, <1>3, <1>4, <1>5, <1>6, <1>7, <1>8, <1>9, <1>10, <1>11, <1>12, <1>13, <1>14, <1>15, <1>16, <1>17 DEF ListNext

(* Every way out runs the removals.                                        *)
LEMMA TempsStep == PathInv /\ TempsInv /\ ListNext => TempsInv'
<1> SUFFICES ASSUME PathInv, TempsInv, ListNext PROVE TempsInv'
  OBVIOUS
<1> USE DEF PathInv, Asking, Reporting, Walkers, Ruby, Python, JavaScript, Settings,
            Selected, Goto, Fail, Return, Answer, TempsInv, TempsAreRemoved, Remaining
<1>1. CASE SanityCheck
  BY <1>1 DEF SanityCheck
<1>2. CASE RunTagScript
  BY <1>2 DEF RunTagScript
<1>3. CASE ReadTags
  BY <1>3 DEF ReadTags
<1>4. CASE DetectFramework
  BY <1>4 DEF DetectFramework
<1>5. CASE ResolveTestFiles
  BY <1>5 DEF ResolveTestFiles
<1>6. CASE ListWithoutFramework
  BY <1>6 DEF ListWithoutFramework, TakesCandidates
<1>7. CASE AskFramework
  BY <1>7 DEF AskFramework
<1>8. CASE Prepare
  BY <1>8 DEF Prepare
<1>9. CASE Command
  BY <1>9 DEF Command
<1>10. CASE PlaywrightFindsNone
  BY <1>10 DEF PlaywrightFindsNone
<1>11. CASE VitestRefuses
  BY <1>11 DEF VitestRefuses
<1>12. CASE ReadAnswer
  BY <1>12 DEF ReadAnswer
<1>13. CASE VitestFallback
  BY <1>13 DEF VitestFallback
<1>14. CASE Filter
  BY <1>14 DEF Filter
<1>15. CASE StartFull
  BY <1>15 DEF StartFull
<1>16. CASE DryRun
  BY <1>16 DEF DryRun
<1>17. CASE ParseReport
  BY <1>17 DEF ParseReport
<1> QED
  BY <1>1, <1>2, <1>3, <1>4, <1>5, <1>6, <1>7, <1>8, <1>9, <1>10, <1>11, <1>12, <1>13, <1>14, <1>15, <1>16, <1>17 DEF ListNext

LEMMA ListStep == ListInv /\ ListNext => ListInv' /\ step # "done"
<1>1. ListNext => step # "done"
  BY DEF ListNext, SanityCheck, RunTagScript, ReadTags, DetectFramework, ResolveTestFiles,
     ListWithoutFramework, AskFramework, Prepare, Command, PlaywrightFindsNone, VitestRefuses,
     ReadAnswer, VitestFallback, Filter, StartFull, DryRun, ParseReport
<1> QED
  BY <1>1, PathStep, ExactStep, FreshStep, TempsStep DEF ListInv

(* The invariant speaks of the variables of the discovery only.            *)
LEMMA ListStutter == ListInv /\ UNCHANGED lvars => ListInv'
<1> SUFFICES ASSUME ListInv, UNCHANGED lvars PROVE ListInv'
  OBVIOUS
<1> USE DEF lvars
<1>1. PathInv'
  BY DEF ListInv, PathInv
<1>2. ExactInv'
  <2>1. MatchingFiles' = MatchingFiles /\ FrameworkFiles' = FrameworkFiles
    BY DEF MatchingFiles, FrameworkFiles
  <2> QED
    BY <2>1 DEF ListInv, ExactInv, ListIsExact, JestIsNotAsked, TakesCandidates
<1>3. FreshInv'
  BY DEF ListInv, FreshInv, ReportIsFresh
<1>4. TempsInv'
  BY DEF ListInv, TempsInv, TempsAreRemoved
<1> QED
  BY <1>1, <1>2, <1>3, <1>4 DEF ListInv

-----------------------------------------------------------------------------
(* The workers.                                                            *)

(* Nothing has come.                                                       *)
LEMMA NoneForwarded == Forwards(<<>>, <<>>, "none")
BY DEF Forwards

(* A signal comes to a channel with room for one.                          *)
LEMMA SignalComes ==
  ASSUME NEW a, NEW b, NEW c, Forwards(a, b, c), NEW kind \in SignalKinds
  PROVE  Forwards(Append(a, kind), b, IF c = "none" THEN kind ELSE c)
<1> DEFINE d == Append(a, kind)
           e == IF c = "none" THEN kind ELSE c
<1>1. a \in Seq(SignalKinds) /\ b \in Seq(SignalKinds) /\ c \in SignalKinds \cup {"none"}
  BY DEF Forwards
<1>2. kind # "none"
  BY DEF SignalKinds
<1>3. /\ d \in Seq(SignalKinds) /\ Len(d) = Len(a) + 1 /\ d # <<>>
      /\ \A k \in DOMAIN a : k \in DOMAIN d /\ d[k] = a[k]
      /\ Len(d) \in DOMAIN d /\ d[Len(d)] = kind
      /\ a # <<>> => d[1] = a[1]
      /\ a = <<>> => d[1] = kind
  BY <1>1
<1> HIDE DEF d
<1>4. e \in SignalKinds /\ e # "none" /\ (c = "none" => e = kind) /\ (c # "none" => e = c)
  BY <1>1, <1>2
<1> HIDE DEF e
<1>5. Len(a) \in Nat /\ Len(b) \in Nat /\ (a = <<>> <=> Len(a) = 0) /\ (b = <<>> <=> Len(b) = 0)
  BY <1>1
<1>6. IF b # <<>> THEN b[1] = d[1] ELSE e = d[1]
  <2>1. CASE a = <<>>
    <3>1. Len(b) + (IF c = "none" THEN 0 ELSE 1) <= 0
      BY <1>5, <2>1 DEF Forwards
    <3>2. b = <<>> /\ c = "none"
      BY <1>5, <3>1
    <3> QED
      BY <1>3, <1>4, <2>1, <3>2
  <2>2. CASE a # <<>>
    <3>1. IF b # <<>> THEN b[1] = a[1] ELSE c = a[1]
      BY <2>2 DEF Forwards
    <3>2. a[1] \in SignalKinds
      BY <1>1, <2>2
    <3>3. a[1] # "none" /\ d[1] = a[1]
      BY <1>3, <2>2, <3>2 DEF SignalKinds
    <3> QED
      BY <1>4, <3>1, <3>3
  <2> QED
    BY <2>1, <2>2
<1>7. Len(b) + 1 <= Len(d)
  BY <1>3, <1>5 DEF Forwards
<1>8. \A i \in DOMAIN b : \E k \in DOMAIN d : b[i] = d[k]
  BY <1>3 DEF Forwards
<1>9. \E k \in DOMAIN d : e = d[k]
  BY <1>3, <1>4 DEF Forwards
<1>10. Forwards(d, b, e)
  BY <1>1, <1>3, <1>4, <1>6, <1>7, <1>8, <1>9 DEF Forwards
<1> QED
  BY <1>10 DEF d, e

(* The one that waits is passed on.                                        *)
LEMMA SignalGoes ==
  ASSUME NEW a, NEW b, NEW c, Forwards(a, b, c), c # "none"
  PROVE  Forwards(a, Append(b, c), "none")
<1> DEFINE d == Append(b, c)
<1>1. a \in Seq(SignalKinds) /\ b \in Seq(SignalKinds) /\ c \in SignalKinds
  BY DEF Forwards
<1>2. /\ d \in Seq(SignalKinds) /\ Len(d) = Len(b) + 1 /\ d # <<>> /\ DOMAIN d = 1 .. Len(b) + 1
      /\ DOMAIN b = 1 .. Len(b)
      /\ \A k \in 1 .. Len(b) : d[k] = b[k]
      /\ d[Len(b) + 1] = c
      /\ b # <<>> => d[1] = b[1]
      /\ b = <<>> => d[1] = c
  <2>1. Len(b) \in Nat /\ (b # <<>> => 1 \in 1 .. Len(b)) /\ (b = <<>> => Len(b) = 0)
    BY <1>1
  <2>2. d \in Seq(SignalKinds) /\ Len(d) = Len(b) + 1 /\ \A k \in 1 .. Len(b) : d[k] = b[k]
    BY <1>1
  <2>3. d[Len(b) + 1] = c
    BY <1>1
  <2>4. DOMAIN d = 1 .. Len(d) /\ DOMAIN b = 1 .. Len(b)
    BY <1>1, <2>2
  <2> HIDE DEF d
  <2>5. d # <<>>
    BY <2>1, <2>2
  <2>6. b = <<>> => d[1] = c
    BY <2>1, <2>3
  <2> QED
    BY <2>1, <2>2, <2>3, <2>4, <2>5, <2>6
<1> HIDE DEF d
<1>3. Len(b) \in Nat /\ Len(a) \in Nat
  BY <1>1
<1>4. a # <<>> => d[1] = a[1]
  BY <1>2 DEF Forwards
<1>5. Len(d) + 0 <= Len(a)
  BY <1>2, <1>3 DEF Forwards
<1>6. \A i \in DOMAIN d : \E k \in DOMAIN a : d[i] = a[k]
  <2> TAKE i \in DOMAIN d
  <2>1. i \in 1 .. Len(b) \/ i = Len(b) + 1
    BY <1>2, <1>3
  <2> QED
    BY <1>2, <2>1 DEF Forwards
<1>7. Forwards(a, d, "none")
  BY <1>1, <1>2, <1>4, <1>5, <1>6 DEF Forwards
<1> QED
  BY <1>7 DEF d

LEMMA SignalInvKept == SignalInv /\ UNCHANGED <<pending, sent, passed>> => SignalInv'
BY DEF SignalInv

LEMMA InitRunInv == Init => RunInv
<1> SUFFICES ASSUME Init PROVE RunInv
  OBVIOUS
<1>1. ListInv
  BY DEF Init, ListInit, ListInv, PathInv, ExactInv, FreshInv, TempsInv, ListIsExact,
     ReportIsFresh, TempsAreRemoved, Asking, Reporting
<1>2. WorkInv
  BY DEF Init, WorkInv, Idle
<1>3. SignalInv
  BY NoneForwarded DEF Init, SignalInv
<1> QED
  BY <1>1, <1>2, <1>3 DEF RunInv

(* The answer of a discovery is taken once, when no worker has started.    *)
LEMMA RunListedStep == RunInv /\ RunListed => RunInv'
<1> SUFFICES ASSUME RunInv, RunListed PROVE RunInv'
  OBVIOUS
<1>1. step = "done" /\ \A w \in Workers : pc[w] = "none"
  BY DEF RunInv, ListInv, PathInv, WorkInv, RunListed
<1>2. ListInv'
  BY <1>1 DEF RunInv, ListInv, PathInv, ExactInv, FreshInv, TempsInv, ListIsExact,
     ReportIsFresh, TempsAreRemoved, Asking, Reporting, Settings, RunListed
<1>3. WorkInv'
  <2>1. /\ pc' = [w \in Workers |-> IF batch'[w] = <<>> THEN "none" ELSE "building"]
        /\ outcome' = "none" /\ UNCHANGED <<step, scripts, child>>
    BY DEF RunListed, argvars
  <2> QED
    BY <1>1, <2>1 DEF RunInv, WorkInv, Idle
<1>4. SignalInv'
  BY SignalInvKept DEF RunInv, RunListed, sigvars
<1> QED
  BY <1>2, <1>3, <1>4 DEF RunInv

(* A step of a worker changes its own counter, process, file and signal.   *)
LEMMA WorkerStep ==
  ASSUME RunInv, NEW w \in Workers,
         WriteCell(w) \/ StartProcess(w) \/ Notify(w) \/ Forward(w) \/ ChildEnds(w)
           \/ ReturnFromRun(w)
  PROVE  RunInv'
<1> USE DEF RunInv, WorkInv, Idle, lvars, argvars, sigvars
<1>1. CASE WriteCell(w)
  BY <1>1, ListStutter, SignalInvKept DEF WriteCell
<1>2. CASE StartProcess(w)
  BY <1>2, ListStutter, SignalInvKept DEF StartProcess
<1>3. CASE Notify(w)
  BY <1>3, ListStutter, SignalInvKept DEF Notify
<1>4. CASE Forward(w)
  <2>1. ListInv' /\ WorkInv'
    BY <1>4, ListStutter DEF Forward
  <2>2. SignalInv'
    <3>1. Forwards(sent[w], Append(passed[w], pending[w]), "none")
      BY <1>4, SignalGoes DEF Forward, SignalInv
    <3>2. /\ passed' = [passed EXCEPT ![w] = Append(@, pending[w])]
          /\ pending' = [pending EXCEPT ![w] = "none"] /\ sent' = sent
      BY <1>4 DEF Forward
    <3>3. Append(passed[w], pending[w]) \in Seq(SignalKinds)
      BY <3>1 DEF Forwards
    <3> QED
      BY <3>1, <3>2, <3>3 DEF SignalInv
  <2> QED
    BY <2>1, <2>2
<1>5. CASE ChildEnds(w)
  BY <1>5, ListStutter, SignalInvKept DEF ChildEnds
<1>6. CASE ReturnFromRun(w)
  BY <1>6, ListStutter, SignalInvKept DEF ReturnFromRun
<1> QED
  BY <1>1, <1>2, <1>3, <1>4, <1>5, <1>6

(* A signal comes to the channels of the workers that watch.               *)
LEMMA SignalStep ==
  ASSUME RunInv, (\E kind \in SignalKinds : Signal(kind)) \/ HandlerExits
  PROVE  RunInv'
<1> USE DEF RunInv, WorkInv, Idle, lvars, argvars
<1>1. ASSUME NEW kind \in SignalKinds, Signal(kind) PROVE RunInv'
  <2>1. ListInv' /\ WorkInv'
    BY <1>1, ListStutter DEF Signal, SignalReaches
  <2>2. SignalInv'
    <3>1. /\ pending' = [w \in Workers |-> IF w \in Watching
                                            THEN IF pending[w] = "none" THEN kind ELSE pending[w]
                                            ELSE pending[w]]
          /\ sent' = [w \in Workers |-> IF w \in Watching THEN Append(sent[w], kind) ELSE sent[w]]
          /\ passed' = passed
      BY <1>1 DEF Signal, SignalReaches
    <3>2. /\ \A w \in Workers :
               /\ w \in Watching => /\ sent'[w] = Append(sent[w], kind)
                                    /\ pending'[w] = IF pending[w] = "none" THEN kind ELSE pending[w]
               /\ w \notin Watching => sent'[w] = sent[w] /\ pending'[w] = pending[w]
      BY <3>1
    <3>3. ASSUME NEW w \in Workers PROVE Forwards(sent'[w], passed'[w], pending'[w])
      <4>1. Forwards(sent[w], passed[w], pending[w])
        BY DEF SignalInv
      <4> QED
        BY <1>1, <3>1, <3>2, <4>1, SignalComes
    <3>4. \A w \in Workers : /\ sent'[w] \in Seq(SignalKinds)
                             /\ pending'[w] \in SignalKinds \cup {"none"}
      BY <3>3 DEF Forwards
    <3>5. /\ pending' \in [Workers -> SignalKinds \cup {"none"}]
          /\ sent' \in [Workers -> Seq(SignalKinds)]
      BY <3>1, <3>4
    <3> QED
      BY <3>1, <3>3, <3>5 DEF SignalInv
  <2> QED
    BY <2>1, <2>2
<1>2. CASE HandlerExits
  BY <1>2, ListStutter, SignalInvKept DEF HandlerExits
<1> QED
  BY <1>1, <1>2

LEMMA NextRunInv == RunInv /\ [Next]_vars => RunInv'
<1> SUFFICES ASSUME RunInv, [Next]_vars PROVE RunInv'
  OBVIOUS
<1>1. CASE ListNext /\ UNCHANGED wvars
  BY <1>1, ListStep, SignalInvKept DEF RunInv, WorkInv, wvars, argvars, sigvars
<1>2. CASE UNCHANGED vars
  BY <1>2, ListStutter, SignalInvKept DEF RunInv, WorkInv, vars, lvars, wvars, argvars, sigvars
<1> QED
  BY <1>1, <1>2, RunListedStep, WorkerStep, SignalStep DEF Next

LEMMA RunInvariant == Spec => []RunInv
BY InitRunInv, NextRunInv, PTL DEF Spec

-----------------------------------------------------------------------------

(* DiscoverTestFiles of every adapter: a list that is returned is the one  *)
(* that the patterns and the framework stand for, whichever of the ways    *)
(* through ResolveTestFiles and the framework's answer led to it.          *)
THEOREM ListExact == Spec => []ListIsExact
<1>1. RunInv => ListIsExact
  BY DEF RunInv, ListInv, ExactInv
<1> QED
  BY <1>1, RunInvariant, PTL

(* DiscoverTests never returns tests of an earlier discovery's report that *)
(* it was able to remove.                                                  *)
THEOREM ReportFresh == Spec => []ReportIsFresh
<1>1. RunInv => ReportIsFresh
  BY DEF RunInv, ListInv, FreshInv
<1> QED
  BY <1>1, RunInvariant, PTL

(* The deferred removals of the adapters and of RunTests leave no file and *)
(* DefaultCommandExecutor.Run no process, whichever step failed.           *)
THEOREM NothingLeft == Spec => []NothingIsLeftBehind
<1>1. RunInv => NothingIsLeftBehind
  <2> SUFFICES ASSUME RunInv PROVE NothingIsLeftBehind
    OBVIOUS
  <2>1. TempsAreRemoved
    BY DEF RunInv, ListInv, TempsInv
  <2>2. WorkersEndCleanly
    BY DEF RunInv, WorkInv, Idle, WorkersEndCleanly
  <2> QED
    BY <2>1, <2>2 DEF NothingIsLeftBehind
<1> QED
  BY <1>1, RunInvariant, PTL

(* What Forwards says of what was passed on, with what waits behind it.    *)
LEMMA ForwardedKept ==
  ASSUME NEW a, NEW b, NEW c, NEW d, NEW k, Forwards(a, b, c),
         c = "none" => d = <<>>, c # "none" => d = <<c>>, k = b \o d
  PROVE  /\ a # <<>> => k # <<>> /\ k[1] = a[1]
         /\ Len(k) <= Len(a) /\ ToSet(k) \subseteq ToSet(a)
<1>1. a \in Seq(SignalKinds) /\ b \in Seq(SignalKinds) /\ c \in SignalKinds \cup {"none"}
  BY DEF Forwards
<1>2. d \in Seq(SignalKinds) /\ Len(d) = (IF c = "none" THEN 0 ELSE 1)
      /\ \A i \in 1 .. Len(d) : i = 1 /\ c # "none" /\ d[i] = c
  <2>1. CASE c = "none"
    <3>1. d = <<>>
      BY <2>1
    <3> QED
      BY <2>1, <3>1
  <2>2. CASE c # "none"
    <3>1. d = <<c>> /\ c \in SignalKinds
      BY <1>1, <2>2
    <3>2. d \in Seq(SignalKinds) /\ Len(d) = 1 /\ d[1] = c
      BY <3>1
    <3> QED
      BY <2>2, <3>2
  <2> QED
    BY <2>1, <2>2
<1>3. b \in Seq(SignalKinds) /\ d \in Seq(SignalKinds)
  BY <1>1, <1>2
<1>4. /\ b \o d \in Seq(SignalKinds) /\ Len(b \o d) = Len(b) + Len(d)
      /\ \A i \in 1 .. Len(b) : (b \o d)[i] = b[i]
      /\ \A i \in 1 .. Len(d) : (b \o d)[Len(b) + i] = d[i]
      /\ DOMAIN (b \o d) = 1 .. Len(b) + Len(d)
      /\ \A n \in 1 .. Len(b) + Len(d) :
           n \in 1 .. Len(b) \/ \E i \in 1 .. Len(d) : n = Len(b) + i
  BY ONLY <1>3, ConcatShape
<1>5. /\ k \in Seq(SignalKinds) /\ Len(k) = Len(b) + Len(d)
      /\ \A i \in 1 .. Len(b) : k[i] = b[i]
      /\ \A i \in 1 .. Len(d) : k[Len(b) + i] = d[i]
      /\ DOMAIN k = 1 .. Len(b) + Len(d)
      /\ \A n \in 1 .. Len(b) + Len(d) :
           n \in 1 .. Len(b) \/ \E i \in 1 .. Len(d) : n = Len(b) + i
  BY <1>4
<1>0. Forwards(a, b, c)
  OBVIOUS
<1>6. Len(b) \in Nat /\ Len(d) \in Nat /\ DOMAIN b = 1 .. Len(b) /\ (b = <<>> <=> Len(b) = 0)
  BY <1>1, <1>2
<1>7. Len(k) <= Len(a)
  BY <1>0, <1>2, <1>5 DEF Forwards
<1>8. ASSUME a # <<>> PROVE k # <<>> /\ k[1] = a[1]
  <2>1. CASE b # <<>>
    <3>1. 1 \in 1 .. Len(b) /\ Len(k) # 0
      BY <1>5, <1>6, <2>1
    <3> QED
      BY <1>0, <1>5, <1>8, <2>1, <3>1 DEF Forwards
  <2>2. CASE b = <<>>
    <3>1. c = a[1]
      BY <1>0, <1>8, <2>2 DEF Forwards
    <3>2. a[1] \in SignalKinds
      BY <1>1, <1>8
    <3>3. c # "none" /\ Len(d) = 1
      BY <1>2, <3>1, <3>2 DEF SignalKinds
    <3>4. Len(k) = 1 /\ k[0 + 1] = d[1] /\ d[1] = c
      BY <1>2, <1>5, <1>6, <2>2, <3>3
    <3> QED
      BY <3>1, <3>4
  <2> QED
    BY <2>1, <2>2
<1>9. ToSet(k) \subseteq ToSet(a)
  <2> SUFFICES ASSUME NEW n \in DOMAIN k PROVE \E m \in DOMAIN a : k[n] = a[m]
    BY DEF ToSet
  <2>1. CASE n \in 1 .. Len(b)
    BY <1>0, <1>5, <1>6, <2>1 DEF Forwards
  <2>2. ASSUME NEW i \in 1 .. Len(d), n = Len(b) + i PROVE \E m \in DOMAIN a : k[n] = a[m]
    BY <1>0, <1>2, <1>5, <2>2 DEF Forwards
  <2> QED
    BY <1>5, <2>1, <2>2
<1> QED
  BY <1>7, <1>8, <1>9

(* What DefaultCommandExecutor.Run does with signals: the first one of     *)
(* those that a worker gets is passed on or waits, whatever comes behind   *)
(* it, and nothing is passed on that did not come.                         *)
THEOREM SignalsKept == Spec => []SignalsAreNotLost
<1>1. ASSUME SignalInv, NEW w \in Workers
      PROVE  LET kept == passed[w] \o IF pending[w] = "none" THEN <<>> ELSE <<pending[w]>>
             IN  /\ sent[w] # <<>> => kept # <<>> /\ kept[1] = sent[w][1]
                 /\ Len(kept) <= Len(sent[w]) /\ ToSet(kept) \subseteq ToSet(sent[w])
  <2>1. Forwards(sent[w], passed[w], pending[w])
    BY <1>1 DEF SignalInv
  <2> DEFINE d == IF pending[w] = "none" THEN <<>> ELSE <<pending[w]>>
  <2>2. /\ pending[w] = "none" => d = <<>>
        /\ pending[w] # "none" => d = <<pending[w]>>
    OBVIOUS
  <2> HIDE DEF d
  <2>3. /\ sent[w] # <<>> => passed[w] \o d # <<>> /\ (passed[w] \o d)[1] = sent[w][1]
        /\ Len(passed[w] \o d) <= Len(sent[w]) /\ ToSet(passed[w] \o d) \subseteq ToSet(sent[w])
    BY ONLY <2>1, <2>2, ForwardedKept
  <2> QED
    BY <2>3 DEF d
<1>2. RunInv => SignalsAreNotLost
  BY <1>1 DEF RunInv, SignalsAreNotLost
<1> QED
  BY <1>2, RunInvariant, PTL

-----------------------------------------------------------------------------
(* What a process is started with.                                         *)

(* Splits of the files.                                                    *)
Batches == {b \in Seq(Files) : Len(b) <= Cardinality(Files)}

(* The module that the adapter of Mocha adds.                              *)
LoadedLast == IF fw = "mocha" THEN <<Load("--require M", "adapter")>> ELSE <<>>

RightOptions(w) ==
  given[w].options =
    IF fw \in JavaScript THEN WorkerOptions(fw, nodeOptions, workerEnv) \o LoadedLast ELSE <<>>

RightFiles(w) ==
  ~ Shared(w) =>
    IF ByEnvironment THEN given[w].testFiles = ToSet(batch[w])
    ELSE given[w].args = RunArgs(fw, override, batch[w])

(* The inputs are those that users write, and processes have got them.     *)
InputInv ==
  /\ override \in Seq(Arguments(Texts(override))) /\ Understood(fw, override)
  /\ nodeOptions \in NodeOptions \cup {<<>>}
  /\ batch \in [Workers -> Batches] /\ DOMAIN given = Workers

GivenInv ==
  /\ InputInv
  /\ \A w \in Workers : Started(w) => RightOptions(w) /\ RightFiles(w)

(* The discovery only finds files of the repository.                       *)
FoundInv ==
  /\ fw \in Walkers \cup JavaScript /\ tree \in Trees
  /\ selection \subseteq Files /\ listed \subseteq Files

LEMMA TreesAre ==
  ASSUME NEW t \in Trees
  PROVE  /\ t.native \subseteq Files /\ t.matching \subseteq Files
         /\ \A e : Walk(t, e) \subseteq Files
BY DEF Trees, Walk

LEMMA FoundStep == FoundInv /\ ListNext => FoundInv'
<1> SUFFICES ASSUME FoundInv, ListNext PROVE FoundInv'
  OBVIOUS
<1> USE DEF FoundInv, Settings, Selected, Goto, Fail, Return, Answer, Remaining
<1>18. tree \in Trees
  OBVIOUS
<1>1. CASE SanityCheck
  BY <1>1 DEF SanityCheck
<1>2. CASE RunTagScript
  BY <1>2 DEF RunTagScript
<1>3. CASE ReadTags
  BY <1>3 DEF ReadTags
<1>4. CASE DetectFramework
  BY <1>4 DEF DetectFramework
<1>5. CASE ResolveTestFiles
  BY <1>5, TreesAre DEF ResolveTestFiles, Select
<1>6. CASE ListWithoutFramework
  BY <1>6, <1>18, TreesAre DEF ListWithoutFramework, TakesCandidates
<1>7. CASE AskFramework
  BY <1>7 DEF AskFramework
<1>8. CASE Prepare
  BY <1>8 DEF Prepare
<1>9. CASE Command
  BY <1>9 DEF Command
<1>10. CASE PlaywrightFindsNone
  BY <1>10 DEF PlaywrightFindsNone
<1>11. CASE VitestRefuses
  BY <1>11 DEF VitestRefuses
<1>12. CASE ReadAnswer
  BY <1>12 DEF ReadAnswer
<1>13. CASE VitestFallback
  BY <1>13, <1>18, TreesAre DEF VitestFallback
<1>14. CASE Filter
  BY <1>14, <1>18, TreesAre DEF Filter, Filtered
<1>15. CASE StartFull
  BY <1>15 DEF StartFull
<1>16. CASE DryRun
  BY <1>16 DEF DryRun
<1>17. CASE ParseReport
  BY <1>17, <1>18, TreesAre DEF ParseReport, Asked, PytestFiles
<1> QED
  BY <1>1, <1>2, <1>3, <1>4, <1>5, <1>6, <1>7, <1>8, <1>9, <1>10, <1>11, <1>12, <1>13, <1>14, <1>15, <1>16, <1>17 DEF ListNext

LEMMA FilesInOrder ==
  ASSUME NEW S \in SUBSET Files, NEW b \in SetToSeqs(S)
  PROVE  b \in Batches
<1>1. Cardinality(S) \in Nat /\ Cardinality(S) <= Cardinality(Files)
  BY TestFilesAssumption, FS_Subset, FS_CardinalityType
<1>2. b \in [1 .. Cardinality(S) -> S]
  BY DEF SetToSeqs
<1> DEFINE n == Cardinality(S)
<1> HIDE DEF n
<1>3. n \in Nat /\ b \in [1 .. n -> Files]
  BY <1>1, <1>2 DEF n
<1>4. b \in Seq(Files) /\ Len(b) = n
  BY <1>3
<1> QED
  BY <1>1, <1>4 DEF Batches, n

(* The empty command is understood by every framework.                     *)
LEMMA NoCommand ==
  ASSUME NEW f
  PROVE  <<>> \in Seq(Arguments(Texts(<<>>))) /\ Understood(f, <<>>)
<1>1. DOMAIN <<>> = {}
  OBVIOUS
<1> QED
  BY <1>1 DEF Understood

LEMMA InitGiven == Init => FoundInv /\ GivenInv
<1> SUFFICES ASSUME Init PROVE FoundInv /\ GivenInv
  OBVIOUS
<1>1. FoundInv
  BY DEF Init, ListInit, FoundInv, NoTree, Trees
<1>2. InputInv
  <2>1. override = <<>> /\ nodeOptions = <<>> /\ batch = [w \in Workers |-> <<>>] /\ DOMAIN given = Workers
    BY DEF Init
  <2>2. <<>> \in Batches
    <3>1. {} \in SUBSET Files /\ <<>> \in SetToSeqs({})
      BY FS_EmptySet DEF SetToSeqs
    <3> QED
      BY <3>1, FilesInOrder
  <2>3. override \in Seq(Arguments(Texts(override))) /\ Understood(fw, override)
    BY <2>1, NoCommand
  <2> QED
    BY <2>1, <2>2, <2>3 DEF InputInv
<1>3. \A w \in Workers : ~ Started(w)
  BY DEF Init, Started
<1> QED
  BY <1>1, <1>2, <1>3 DEF GivenInv

(* The inputs are read when no process has started.                        *)
LEMMA RunListedGiven == RunInv /\ FoundInv /\ GivenInv /\ RunListed => FoundInv' /\ GivenInv'
<1> SUFFICES ASSUME RunInv, FoundInv, GivenInv, RunListed PROVE FoundInv' /\ GivenInv'
  OBVIOUS
<1>1. FoundInv'
  BY DEF FoundInv, RunListed, Settings, NoTree, Trees
<1>2. fw' = fw /\ given' = given /\ child' = child
  BY DEF RunListed, Settings, argvars
<1>3. \A w \in Workers : ~ Started(w)'
  BY <1>2 DEF RunListed, RunInv, WorkInv, Idle, Started
<1>4. override' \in Seq(Arguments(Texts(override')))
  <2>1. CASE fw \in Python
    <3>1. override' = <<>>
      BY <2>1 DEF RunListed, ChooseInputs
    <3> QED
      BY <3>1, NoCommand
  <2>2. CASE fw \notin Python
    <3>1. override' \in Commands
      BY <2>2 DEF RunListed, ChooseInputs
    <3> QED
      BY <3>1, WorkerRunAssumption
  <2> QED
    BY <2>1, <2>2
<1>5. Understood(fw, override')
  <2>1. CASE fw \in Python
    <3>1. override' = <<>>
      BY <2>1 DEF RunListed, ChooseInputs
    <3> QED
      BY <3>1, NoCommand
  <2>2. CASE fw \notin Python
    BY <2>2 DEF RunListed, ChooseInputs
  <2> QED
    BY <2>1, <2>2
<1>6. nodeOptions' \in NodeOptions \cup {<<>>}
  BY DEF RunListed, ChooseInputs
<1>7. batch' \in [Workers -> Batches]
  <2>1. PICK S \in SUBSET listed : \E b \in SetToSeqs(S), c \in SetToSeqs(listed \ S) :
          batch' = [w \in Workers |-> IF w = 0 THEN b ELSE c]
    BY DEF RunListed
  <2>2. S \in SUBSET Files /\ listed \ S \in SUBSET Files
    BY DEF FoundInv
  <2>3. PICK b \in SetToSeqs(S), c \in SetToSeqs(listed \ S) :
          batch' = [w \in Workers |-> IF w = 0 THEN b ELSE c]
    BY <2>1
  <2>4. b \in Batches /\ c \in Batches
    BY <2>2, FilesInOrder
  <2> QED
    BY <2>3, <2>4
<1>8. Understood(fw, override)'
  BY <1>2, <1>5 DEF Understood
<1>9. InputInv'
  BY <1>2, <1>4, <1>6, <1>7, <1>8 DEF InputInv, GivenInv
<1> QED
  BY <1>1, <1>3, <1>9 DEF GivenInv

(* What a process has got does not change.                                 *)
LEMMA GivenKept ==
  ASSUME NEW w \in Workers, fw' = fw, UNCHANGED inputs, given'[w] = given[w]
  PROVE  /\ RightOptions(w) => RightOptions(w)'
         /\ RightFiles(w) => RightFiles(w)'
<1>1. RightOptions(w) => RightOptions(w)'
  BY DEF RightOptions, LoadedLast, inputs
<1>2. RightFiles(w) => RightFiles(w)'
  BY DEF RightFiles, Shared, SharedByRSpec, SharedByRails, ByEnvironment, inputs
<1> QED
  BY <1>1, <1>2

LEMMA InputsKept ==
  ASSUME InputInv, fw' = fw, UNCHANGED inputs, DOMAIN given' = DOMAIN given
  PROVE  InputInv'
BY DEF InputInv, Understood, inputs

LEMMA FoundKept == FoundInv /\ UNCHANGED lvars => FoundInv'
BY DEF FoundInv, lvars

(* Steps that start no process.                                            *)
LEMMA NothingStarts ==
  ASSUME GivenInv, fw' = fw, UNCHANGED <<inputs, given>>,
         \A w \in Workers : Started(w)' => Started(w)
  PROVE  GivenInv'
<1>1. InputInv'
  BY InputsKept DEF GivenInv
<1>2. \A w \in Workers : Started(w)' => RightOptions(w)' /\ RightFiles(w)'
  BY GivenKept DEF GivenInv
<1> QED
  BY <1>1, <1>2 DEF GivenInv

LEMMA GivenIs ==
  ASSUME NEW w
  PROVE  /\ Given(w).options = IF fw \in JavaScript
                               THEN WorkerOptions(fw, nodeOptions, workerEnv) \o LoadedLast ELSE <<>>
         /\ ~ Shared(w) => /\ ByEnvironment => Given(w).testFiles = ToSet(batch[w])
                           /\ ~ ByEnvironment => Given(w).args = RunArgs(fw, override, batch[w])
<1> DEFINE o == IF fw \in JavaScript
                THEN WorkerOptions(fw, nodeOptions, workerEnv) \o LoadedLast ELSE <<>>
           files == IF Shared(w) THEN SubSeq(cells, 1, Len(batch[w])) ELSE batch[w]
           a == IF ByEnvironment THEN override ELSE RunArgs(fw, override, files)
           t == IF ByEnvironment THEN ToSet(files) ELSE {}
<1>1. Given(w) = [args |-> a, testFiles |-> t, options |-> o]
  BY DEF Given, LoadedLast
<1>2. ~ Shared(w) => files = batch[w]
  OBVIOUS
<1> HIDE DEF o, files
<1>3. /\ ByEnvironment => t = ToSet(files)
      /\ ~ ByEnvironment => a = RunArgs(fw, override, files)
  OBVIOUS
<1> HIDE DEF a, t
<1>4. Given(w).args = a /\ Given(w).testFiles = t /\ Given(w).options = o
  BY <1>1
<1> QED
  BY <1>2, <1>3, <1>4 DEF o

LEMMA StartGiven ==
  ASSUME GivenInv, NEW w \in Workers, StartProcess(w)
  PROVE  GivenInv'
<1>1. UNCHANGED <<lvars, inputs>> /\ fw' = fw
  BY DEF StartProcess, lvars
<1>2. CASE UNCHANGED <<given, child>>
  BY <1>1, <1>2, NothingStarts DEF Started
<1>3. CASE given' = [given EXCEPT ![w] = Given(w)] /\ child' = [child EXCEPT ![w] = "running"]
  <2>1. DOMAIN given = Workers
    BY DEF GivenInv, InputInv
  <2>2. given'[w] = Given(w) /\ DOMAIN given' = Workers /\ \A u \in Workers : u # w => given'[u] = given[u]
    BY <1>3, <2>1
  <2>3. InputInv'
    BY <1>1, <2>1, <2>2, InputsKept DEF GivenInv
  <2>4. RightOptions(w)'
    <3>1. given'[w].options = IF fw \in JavaScript
                              THEN WorkerOptions(fw, nodeOptions, workerEnv) \o LoadedLast ELSE <<>>
      BY <2>2, GivenIs
    <3> QED
      BY <1>1, <3>1 DEF RightOptions, LoadedLast, inputs
  <2>5. RightFiles(w)'
    <3>1. ~ Shared(w) => IF ByEnvironment THEN given'[w].testFiles = ToSet(batch[w])
                         ELSE given'[w].args = RunArgs(fw, override, batch[w])
      BY <2>2, GivenIs
    <3> QED
      BY <1>1, <3>1 DEF RightFiles, Shared, SharedByRSpec, SharedByRails, ByEnvironment, inputs
  <2>6. ASSUME NEW u \in Workers, u # w, Started(u)' PROVE RightOptions(u)' /\ RightFiles(u)'
    <3>1. Started(u)
      BY <1>3, <2>6 DEF Started
    <3>2. RightOptions(u) /\ RightFiles(u)
      BY <3>1 DEF GivenInv
    <3> QED
      BY <1>1, <2>2, <2>6, <3>2, GivenKept
  <2> QED
    BY <2>3, <2>4, <2>5, <2>6 DEF GivenInv
<1> QED
  BY <1>2, <1>3 DEF StartProcess

LEMMA WorkerGiven ==
  ASSUME RunInv, GivenInv, NEW w \in Workers,
         WriteCell(w) \/ StartProcess(w) \/ Notify(w) \/ Forward(w) \/ ChildEnds(w)
           \/ ReturnFromRun(w)
  PROVE  GivenInv' /\ UNCHANGED lvars
<1>1. CASE StartProcess(w)
  BY <1>1, StartGiven DEF StartProcess
<1>2. CASE ChildEnds(w)
  <2>1. \A u \in Workers : Started(u)' => Started(u)
    BY <1>2 DEF ChildEnds, Started, RunInv, WorkInv
  <2>2. fw' = fw /\ UNCHANGED <<lvars, inputs, given>>
    BY <1>2 DEF ChildEnds, lvars, argvars
  <2> QED
    BY <2>1, <2>2, NothingStarts
<1>3. CASE WriteCell(w) \/ Notify(w) \/ Forward(w) \/ ReturnFromRun(w)
  <2>1. fw' = fw /\ UNCHANGED <<lvars, inputs, given, child>>
    BY <1>3 DEF WriteCell, Notify, Forward, ReturnFromRun, lvars, argvars
  <2> QED
    BY <2>1, NothingStarts DEF Started
<1> QED
  BY <1>1, <1>2, <1>3

WholeRunInv == RunInv /\ FoundInv /\ GivenInv

LEMMA NextWholeRunInv == WholeRunInv /\ [Next]_vars => WholeRunInv'
<1> SUFFICES ASSUME RunInv, FoundInv, GivenInv, [Next]_vars PROVE FoundInv' /\ GivenInv'
  BY NextRunInv DEF WholeRunInv
<1>1. CASE ListNext /\ UNCHANGED wvars
  <2>1. fw' = fw
    BY <1>1 DEF ListNext, SanityCheck, RunTagScript, ReadTags, DetectFramework, ResolveTestFiles,
       ListWithoutFramework, AskFramework, Prepare, Command, PlaywrightFindsNone, VitestRefuses,
       ReadAnswer, VitestFallback, Filter, StartFull, DryRun, ParseReport, Settings
  <2>2. UNCHANGED <<inputs, given, child>>
    BY <1>1 DEF wvars, argvars
  <2> QED
    BY <1>1, <2>1, <2>2, FoundStep, NothingStarts DEF Started
<1>2. CASE RunListed
  BY <1>2, RunListedGiven
<1>3. CASE \E w \in Workers :
             \/ WriteCell(w) \/ StartProcess(w) \/ Notify(w)
             \/ Forward(w) \/ ChildEnds(w) \/ ReturnFromRun(w)
  BY <1>3, WorkerGiven, FoundKept
<1>4. CASE (\E kind \in SignalKinds : Signal(kind)) \/ HandlerExits \/ UNCHANGED vars
  <2>1. fw' = fw /\ UNCHANGED <<lvars, inputs, given, child>>
    BY <1>4 DEF Signal, SignalReaches, HandlerExits, vars, lvars, wvars, argvars
  <2> QED
    BY <2>1, NothingStarts, FoundKept DEF Started
<1> QED
  BY <1>1, <1>2, <1>3, <1>4 DEF Next

LEMMA WholeRunInvariant == Spec => []WholeRunInv
<1>1. Init => WholeRunInv
  BY InitRunInv, InitGiven DEF WholeRunInv
<1> QED
  BY <1>1, NextWholeRunInv, PTL DEF Spec

-----------------------------------------------------------------------------

LEMMA InstrumentationHolds == WholeRunInv => InstrumentationIsRight
<1> SUFFICES ASSUME WholeRunInv PROVE InstrumentationIsRight
  OBVIOUS
<1> DEFINE library == {CIInit} \cup IF fw = "vitest" THEN {Register} ELSE {}
           n == nodeOptions
           listing == DiscoveryOptions(fw, n)
<1>1. n \in Seq(NodeArg)
  <2>1. n \in NodeOptions \cup {<<>>}
    BY DEF WholeRunInv, GivenInv, InputInv
  <2>2. \A o \in NodeOptions : o \in Seq(NodeArg)
    BY Zenon, WorkerRunAssumption
  <2>3. <<>> \in Seq(NodeArg)
    OBVIOUS
  <2> HIDE DEF n
  <2> QED
    BY <2>1, <2>2, <2>3
<1>2. /\ \A m \in library : Loads(listing, m) <=>
             \E i \in DOMAIN n : n[i].module \in Spelled(m) /\ ~ IsRemovable(n[i], m)
      /\ \A m : m \notin library => TimesLoaded(listing, m) = TimesLoaded(n, m)
  <2>1. \A m : (\E x \in ToSet(n) : x.module \in Spelled(m) /\ ~ IsRemovable(x, m)) <=>
              \E i \in DOMAIN n : n[i].module \in Spelled(m) /\ ~ IsRemovable(n[i], m)
    BY DEF ToSet
  <2> HIDE DEF n
  <2> QED
    BY <1>1, <2>1, DiscoveryTimes
<1>3. ASSUME NEW w \in Workers, Started(w), workerEnv = <<>>, fw \in JavaScript
      PROVE  /\ \A m \in library : \/ IsMistakenFor(n, m)
                                   \/ TimesLoaded(given[w].options, m) =
                                        IF Loads(n, m) THEN TimesLoaded(n, m) ELSE 1
             /\ \A m : m \notin library \cup {"adapter"} =>
                  TimesLoaded(given[w].options, m) = TimesLoaded(n, m)
  <2> DEFINE p == PlatformOptions(fw, n)
             g == given[w].options
  <2>1. g = p \o LoadedLast
    BY <1>3 DEF WholeRunInv, GivenInv, RightOptions, WorkerOptions
  <2>2. /\ p \in Seq(NodeArg)
        /\ \A m : TimesLoaded(p, m) = IF ~ Mentions(n, m) /\ m \in library
                                      THEN 1 ELSE TimesLoaded(n, m)
    BY <1>1, PlatformTimes
  <2> HIDE DEF p, g, n
  <2>3. \A m : m # "adapter" => TimesLoaded(g, m) = TimesLoaded(p, m)
    <3>1. CASE fw = "mocha"
      <4> DEFINE a == Load("--require M", "adapter")
                 x == <<a>>
      <4>1. a \in NodeArg /\ a.module = "adapter"
        BY DEF Load, NodeArg, RequireForms, Modules
      <4> HIDE DEF a
      <4>2. x \in Seq(NodeArg) /\ \A m : TimesLoaded(x, m) = IF a.module = m THEN 1 ELSE 0
        BY <4>1, OneTimes
      <4>3. g = p \o x
        BY <2>1, <3>1 DEF LoadedLast, a
      <4> HIDE DEF x
      <4>4. \A m : TimesLoaded(p \o x, m) = TimesLoaded(p, m) + TimesLoaded(x, m)
        BY <2>2, <4>2, ConcatTimes
      <4>5. \A m : m # "adapter" => TimesLoaded(x, m) = 0
        BY <4>1, <4>2
      <4>6. \A m : TimesLoaded(p, m) \in Nat
        BY <2>2, PlacesFinite
      <4> QED
        BY <4>3, <4>4, <4>5, <4>6
    <3>2. CASE fw # "mocha"
      BY <2>1, <2>2, <3>2 DEF LoadedLast
    <3> QED
      BY <3>1, <3>2
  <2>4. \A m \in library : m # "adapter"
    BY ModuleNames
  <2>5. ASSUME NEW m \in library, ~ IsMistakenFor(n, m)
        PROVE  TimesLoaded(g, m) = IF Loads(n, m) THEN TimesLoaded(n, m) ELSE 1
    <3>1. Mentions(n, m) <=> Loads(n, m)
      BY <2>5, InTerms, ModuleNames DEF IsMistakenFor
    <3> HIDE DEF library
    <3> QED
      BY <2>2, <2>3, <2>4, <3>1
  <2>6. \A m : m \notin library \cup {"adapter"} => TimesLoaded(g, m) = TimesLoaded(n, m)
    BY <2>2, <2>3
  <2> QED
    BY <2>5, <2>6 DEF g
<1> HIDE DEF library
<1>4. fw \in JavaScript =>
        /\ \A m \in library : Loads(listing, m) <=>
             \E i \in DOMAIN n : n[i].module \in Spelled(m) /\ ~ IsRemovable(n[i], m)
        /\ \A m \in Modules \ library : TimesLoaded(listing, m) = TimesLoaded(n, m)
        /\ \A w \in Workers : Started(w) /\ workerEnv = <<>> =>
             /\ \A m \in library : \/ IsMistakenFor(n, m)
                                   \/ TimesLoaded(given[w].options, m) =
                                        IF Loads(n, m) THEN TimesLoaded(n, m) ELSE 1
             /\ \A m \in Modules \ (library \cup {"adapter"}) :
                  TimesLoaded(given[w].options, m) = TimesLoaded(n, m)
  BY <1>2, <1>3
<1> QED
  BY Zenon, <1>4 DEF InstrumentationIsRight, library

LEMMA OwnFilesHold == WholeRunInv => OwnFilesWhenPrivate
<1> SUFFICES ASSUME WholeRunInv, NEW w \in Workers, Started(w), ~ Shared(w),
                    ~ (fw = "vitest" /\ ValueIsMistaken(fw, override))
             PROVE  Runs(w) = ToSet(batch[w])
  BY DEF OwnFilesWhenPrivate
<1>1. RightFiles(w) /\ InputInv
  BY DEF WholeRunInv, GivenInv
<1>2. CASE ByEnvironment
  BY <1>1, <1>2 DEF RightFiles, Runs
<1>3. CASE ~ ByEnvironment
  <2> DEFINE T == Texts(override) \cup Files \cup Mentioned
  <2>1. Mentioned \subseteq T /\ Files \subseteq T
    OBVIOUS
  <2>2. override \in Seq(Arguments(T))
    <3>1. Arguments(Texts(override)) \subseteq Arguments(T)
      BY DEF Arguments
    <3>2. override \in Seq(Arguments(Texts(override)))
      BY <1>1 DEF InputInv
    <3>3. DOMAIN override = 1 .. Len(override) /\ Len(override) \in Nat
      BY <3>2
    <3>4. \A i \in 1 .. Len(override) : override[i] \in Arguments(T)
      <4>1. \A i \in 1 .. Len(override) : override[i] \in Arguments(Texts(override))
        BY <3>2
      <4> HIDE DEF T
      <4> QED
        BY <3>1, <4>1
    <3> HIDE DEF T
    <3> QED
      BY <3>2, <3>3, <3>4
  <2>3. batch[w] \in Seq(Files)
    BY <1>1 DEF InputInv, Batches
  <2>4. Understood(fw, override)
    BY <1>1 DEF InputInv
  <2>5. fw \in {"jest", "rspec", "minitest", "pytest", "cucumber", "vitest", "playwright", "cypress"}
    BY <1>3 DEF WholeRunInv, FoundInv, Walkers, Ruby, Python, JavaScript, ByEnvironment
  <2> HIDE DEF T
  <2>6. FilesRead(fw, RunArgs(fw, override, batch[w])) = ToSet(batch[w])
    BY <2>1, <2>2, <2>3, <2>4, <2>5, RunReadsFiles
  <2>7. Runs(w) = FilesRead(fw, given[w].args)
    BY <1>3 DEF Runs
  <2> QED
    BY <1>1, <1>3, <2>6, <2>7 DEF RightFiles
<1> QED
  BY <1>2, <1>3

(* RunTests of every adapter: whatever the user's command has, a process   *)
(* is asked for the files of its worker and no other, unless the workers   *)
(* write to the array of the command that they share, or Vitest, without a *)
(* launcher, has a value that is taken for its executable.                 *)
THEOREM OwnFilesKept == Spec => []OwnFilesWhenPrivate
BY WholeRunInvariant, OwnFilesHold, PTL

(* GetPlatformEnv and discoveryEnv of the JavaScript adapters, for any     *)
(* NODE_OPTIONS: a worker's process loads the library as often as the user *)
(* asked for it and otherwise once, unless a module of the user's has its  *)
(* name in its path; the process that lists the files loads it only by an  *)
(* option of the user's that is no documented one; other modules stay.     *)
THEOREM InstrumentationRight == Spec => []InstrumentationIsRight
BY WholeRunInvariant, InstrumentationHolds, PTL

-----------------------------------------------------------------------------
(* The options of a command with their values, which is what OptionsRead   *)
(* says of it.                                                             *)

ValuesAt(s, arity, i) == {s[j].text : j \in {k \in DOMAIN s : Owns(s, arity, i, k)}}
OptionAt(s, arity, i) == <<s[i].text, ValuesAt(s, arity, i)>>
NotWords(s) == {i \in DOMAIN s : ~ IsWord(s[i])}
Opts(s, arity) == {OptionAt(s, arity, i) : i \in NotWords(s)}

LEMMA ReadsOpts ==
  ASSUME NEW f, NEW T, NEW s \in Seq(Arguments(T))
  PROVE  OptionsRead(f, s) = Opts(s, ArityOf(f, T))
<1> DEFINE v == ValuesOf(f, s)
           a == ArityOf(f, T)
<1>1. OptionsRead(f, s) = Opts(s, v)
  BY DEF OptionsRead, Opts, OptionAt, ValuesAt, NotWords
<1>2. \A i \in DOMAIN s : v[s[i].text] = a[s[i].text]
  BY ValuesAre
<1> HIDE DEF v, a
<1>3. \A i, j \in DOMAIN s : Owns(s, v, i, j) <=> Owns(s, a, i, j)
  BY <1>2, SameArity
<1>4. \A i \in DOMAIN s : ValuesAt(s, v, i) = ValuesAt(s, a, i)
  BY <1>3 DEF ValuesAt
<1>5. Opts(s, v) = Opts(s, a)
  BY <1>4 DEF Opts, OptionAt, NotWords
<1> QED
  BY <1>1, <1>5 DEF v, a

(* A part t of s in which an option has all of its values.                 *)
LEMMA OptionMoves ==
  ASSUME NEW s, NEW t, NEW arity, NEW h, NEW b \in DOMAIN t,
         \A c \in DOMAIN t : h[c] \in DOMAIN s /\ t[c] = s[h[c]],
         \A c \in DOMAIN t : Owns(t, arity, b, c) <=> Owns(s, arity, h[b], h[c]),
         \A n \in DOMAIN s : Owns(s, arity, h[b], n) => \E c \in DOMAIN t : h[c] = n
  PROVE  OptionAt(t, arity, b) = OptionAt(s, arity, h[b])
<1>1. ASSUME NEW x \in ValuesAt(t, arity, b) PROVE x \in ValuesAt(s, arity, h[b])
  <2>1. PICK c \in DOMAIN t : Owns(t, arity, b, c) /\ x = t[c].text
    BY <1>1 DEF ValuesAt
  <2>2. h[c] \in DOMAIN s /\ Owns(s, arity, h[b], h[c]) /\ x = s[h[c]].text
    BY <2>1
  <2> QED
    BY <2>2 DEF ValuesAt
<1>2. ASSUME NEW x \in ValuesAt(s, arity, h[b]) PROVE x \in ValuesAt(t, arity, b)
  <2>1. PICK n \in DOMAIN s : Owns(s, arity, h[b], n) /\ x = s[n].text
    BY <1>2 DEF ValuesAt
  <2>2. PICK c \in DOMAIN t : h[c] = n
    BY <2>1
  <2>3. Owns(t, arity, b, c) /\ x = t[c].text
    BY <2>1, <2>2
  <2> QED
    BY <2>3 DEF ValuesAt
<1>3. ValuesAt(t, arity, b) = ValuesAt(s, arity, h[b])
  BY <1>1, <1>2
<1> QED
  BY <1>3 DEF OptionAt

(* Options of two commands that do not touch.                              *)
LEMMA ConcatOpts ==
  ASSUME NEW A, NEW s \in Seq(A), NEW t \in Seq(A), NEW arity, Apart(s, t, arity)
  PROVE  Opts(s \o t, arity) = Opts(s, arity) \cup Opts(t, arity)
<1> DEFINE u == s \o t
           n == Len(s)
           m == Len(t)
           g == [i \in 1 .. n |-> i]
           h == [i \in 1 .. m |-> n + i]
<1>1. /\ n \in Nat /\ m \in Nat /\ DOMAIN s = 1 .. n /\ DOMAIN t = 1 .. m
      /\ DOMAIN u = 1 .. n + m
      /\ \A i \in 1 .. n : u[i] = s[i]
      /\ \A i \in 1 .. m : u[n + i] = t[i]
      /\ \A k \in 1 .. n + m : k \in 1 .. n \/ \E i \in 1 .. m : k = n + i
  <2>1. n \in Nat /\ m \in Nat /\ DOMAIN s = 1 .. n /\ DOMAIN t = 1 .. m
    OBVIOUS
  <2>2. /\ \A i \in 1 .. Len(s) : (s \o t)[i] = s[i]
        /\ \A i \in 1 .. Len(t) : (s \o t)[Len(s) + i] = t[i]
        /\ DOMAIN (s \o t) = 1 .. Len(s) + Len(t)
        /\ \A k \in 1 .. Len(s) + Len(t) : k \in 1 .. Len(s) \/ \E i \in 1 .. Len(t) : k = Len(s) + i
    BY ConcatShape
  <2> QED
    BY <2>1, <2>2
<1>2. /\ \A i, j \in 1 .. n : Owns(u, arity, i, j) <=> Owns(s, arity, i, j)
      /\ \A i, j \in 1 .. m : Owns(u, arity, n + i, n + j) <=> Owns(t, arity, i, j)
      /\ \A i \in 1 .. n, j \in 1 .. m : ~ Owns(u, arity, i, n + j) /\ ~ Owns(u, arity, n + j, i)
  BY ConcatOwns
<1> HIDE DEF u, n, m
<1>3. ASSUME NEW i \in 1 .. n PROVE OptionAt(s, arity, i) = OptionAt(u, arity, i)
  <2>1. \A c \in DOMAIN s : g[c] \in DOMAIN u /\ s[c] = u[g[c]]
    BY <1>1
  <2>2. \A c \in DOMAIN s : Owns(s, arity, i, c) <=> Owns(u, arity, g[i], g[c])
    BY <1>1, <1>2
  <2>3. ASSUME NEW k \in DOMAIN u, Owns(u, arity, g[i], k) PROVE \E c \in DOMAIN s : g[c] = k
    <3>1. \A j \in 1 .. m : k # n + j
      BY <1>2, <2>3
    <3>2. k \in 1 .. n
      BY <1>1, <3>1
    <3> QED
      BY <1>1, <3>2
  <2>4. i \in DOMAIN s /\ g[i] = i
    BY <1>1
  <2> HIDE DEF g
  <2>5. OptionAt(s, arity, i) = OptionAt(u, arity, g[i])
    BY <2>1, <2>2, <2>3, <2>4, OptionMoves
  <2> QED
    BY <2>4, <2>5
<1>4. ASSUME NEW i \in 1 .. m PROVE OptionAt(t, arity, i) = OptionAt(u, arity, n + i)
  <2>1. \A c \in DOMAIN t : h[c] \in DOMAIN u /\ t[c] = u[h[c]]
    BY <1>1
  <2>2. \A c \in DOMAIN t : Owns(t, arity, i, c) <=> Owns(u, arity, h[i], h[c])
    BY <1>1, <1>2
  <2>3. \A k \in DOMAIN u : Owns(u, arity, h[i], k) => \E c \in DOMAIN t : h[c] = k
    BY <1>1, <1>2
  <2>4. i \in DOMAIN t /\ h[i] = n + i
    BY <1>1
  <2> HIDE DEF h
  <2>5. OptionAt(t, arity, i) = OptionAt(u, arity, h[i])
    BY <2>1, <2>2, <2>3, <2>4, OptionMoves
  <2> QED
    BY <2>4, <2>5
<1>5. ASSUME NEW x \in Opts(u, arity) PROVE x \in Opts(s, arity) \cup Opts(t, arity)
  <2>1. PICK k \in DOMAIN u : ~ IsWord(u[k]) /\ x = OptionAt(u, arity, k)
    BY <1>5 DEF Opts, NotWords
  <2>2. CASE k \in 1 .. n
    <3>1. k \in NotWords(s) /\ x = OptionAt(s, arity, k)
      BY <1>1, <1>3, <2>1, <2>2 DEF NotWords
    <3> QED
      BY <3>1 DEF Opts
  <2>3. ASSUME NEW i \in 1 .. m, k = n + i PROVE x \in Opts(t, arity)
    <3>1. i \in NotWords(t) /\ x = OptionAt(t, arity, i)
      BY <1>1, <1>4, <2>1, <2>3 DEF NotWords
    <3> QED
      BY <3>1 DEF Opts
  <2> QED
    BY <1>1, <2>1, <2>2, <2>3
<1>6. ASSUME NEW x \in Opts(s, arity) PROVE x \in Opts(u, arity)
  <2>1. PICK i \in 1 .. n : ~ IsWord(s[i]) /\ x = OptionAt(s, arity, i)
    BY <1>1, <1>6 DEF Opts, NotWords
  <2>2. i \in NotWords(u) /\ x = OptionAt(u, arity, i)
    BY <1>1, <1>3, <2>1 DEF NotWords
  <2> QED
    BY <2>2 DEF Opts
<1>7. ASSUME NEW x \in Opts(t, arity) PROVE x \in Opts(u, arity)
  <2>1. PICK i \in 1 .. m : ~ IsWord(t[i]) /\ x = OptionAt(t, arity, i)
    BY <1>1, <1>7 DEF Opts, NotWords
  <2>2. n + i \in NotWords(u) /\ x = OptionAt(u, arity, n + i)
    BY <1>1, <1>4, <2>1 DEF NotWords
  <2> QED
    BY <2>2 DEF Opts
<1>8. Opts(u, arity) = Opts(s, arity) \cup Opts(t, arity)
  BY <1>5, <1>6, <1>7
<1> QED
  BY <1>8 DEF u

(* Words have no options.                                                  *)
LEMMA WordsOpts ==
  ASSUME NEW s, NEW arity, \A i \in DOMAIN s : IsWord(s[i])
  PROVE  Opts(s, arity) = {}
BY DEF Opts, NotWords

(* A word at the front is no value.                                        *)
LEMMA TailOpts ==
  ASSUME NEW A, NEW s \in Seq(A), s # <<>>, IsWord(s[1]), NEW arity
  PROVE  /\ Opts(Tail(s), arity) = Opts(s, arity)
         /\ \A i, j \in DOMAIN Tail(s) :
              Owns(Tail(s), arity, i, j) <=> Owns(s, arity, i + 1, j + 1)
<1> DEFINE r == <<s[1]>>
           t == Tail(s)
<1>1. /\ s[1] \in A /\ r \in Seq(A) /\ t \in Seq(A) /\ s = r \o t
      /\ DOMAIN r = 1 .. 1 /\ r[1] = s[1] /\ Len(r) = 1 /\ DOMAIN t = 1 .. Len(t)
  OBVIOUS
<1> HIDE DEF r, t
<1>2. \A i \in DOMAIN r : IsWord(r[i])
  BY <1>1
<1>3. Closed(r, arity)
  BY <1>1, <1>2, AllWords
<1>4. Apart(r, t, arity)
  BY <1>3 DEF Apart
<1>5. Opts(r \o t, arity) = Opts(r, arity) \cup Opts(t, arity)
  BY <1>1, <1>4, ConcatOpts
<1>6. Opts(r, arity) = {}
  BY <1>2, WordsOpts
<1>7. \A i, j \in 1 .. Len(t) : Owns(r \o t, arity, Len(r) + i, Len(r) + j) <=> Owns(t, arity, i, j)
  BY <1>1, <1>4, ConcatOwns
<1>8. \A i, j \in DOMAIN t : Owns(t, arity, i, j) <=> Owns(s, arity, 1 + i, 1 + j)
  BY <1>1, <1>7
<1>9. \A i \in DOMAIN t : 1 + i = i + 1
  BY <1>1
<1> QED
  BY <1>1, <1>5, <1>6, <1>8, <1>9 DEF t

(* Of the options, dropped has those of the names N.                       *)
DropsNames(s, dropped, N) == \A i \in NotWords(s) : s[i] \in dropped <=> s[i].text \in N

(* What dropping leaves when no value changes its option: the options      *)
(* whose names are not dropped.                                            *)
LEMMA FilterOpts ==
  ASSUME NEW A, NEW s \in Seq(A), NEW arity, NEW dropped, NEW N,
         NEW out \in Seq(A), NEW places, NEW h, IsFiltered(out, s, arity, dropped, places, h),
         \A b, c \in 1 .. Len(out) : Owns(out, arity, b, c) <=> Owns(s, arity, h[b], h[c]),
         DropsNames(s, dropped, N)
  PROVE  Opts(out, arity) = {o \in Opts(s, arity) : o[1] \notin N}
<1> DEFINE n == Len(out)
<1>1. /\ DOMAIN out = 1 .. n /\ DOMAIN s = 1 .. Len(s)
      /\ \A c \in 1 .. n : h[c] \in places /\ h[c] \in 1 .. Len(s) /\ out[c] = s[h[c]]
      /\ \A i \in places : \E c \in 1 .. n : h[c] = i
  <2>1. /\ \A c \in 1 .. n : h[c] \in places /\ out[c] = s[h[c]]
        /\ \A i \in places : \E c \in 1 .. n : h[c] = i
    BY DEF IsFiltered, IsNumbering
  <2>2. DOMAIN out = 1 .. n /\ DOMAIN s = 1 .. Len(s)
    OBVIOUS
  <2> QED
    BY <2>1, <2>2 DEF IsFiltered
<1>2. \A b, c \in 1 .. n : Owns(out, arity, b, c) <=> Owns(s, arity, h[b], h[c])
  OBVIOUS
<1> HIDE DEF n
<1>3. ASSUME NEW i \in NotWords(s) PROVE i \in places <=> s[i].text \notin N
  <2>1. i \in 1 .. Len(s) /\ ~ IsWord(s[i])
    BY <1>1, <1>3 DEF NotWords
  <2>2. ~ Owned(s, arity, i)
    BY <2>1 DEF Owned, Owns
  <2> QED
    BY <1>3, <2>1, <2>2 DEF IsFiltered, DropsNames
<1>4. ASSUME NEW b \in 1 .. n PROVE OptionAt(out, arity, b) = OptionAt(s, arity, h[b])
  <2>1. ASSUME NEW k \in DOMAIN s, Owns(s, arity, h[b], k) PROVE \E c \in DOMAIN out : h[c] = k
    <3>1. k \in 1 .. Len(s) /\ h[b] \in places /\ h[b] \in 1 .. Len(s)
      BY <1>1
    <3>2. k \in places
      BY <2>1, <3>1 DEF IsFiltered
    <3> QED
      BY <1>1, <3>2
  <2>2. \A c \in DOMAIN out : h[c] \in DOMAIN s /\ out[c] = s[h[c]]
    BY <1>1
  <2>3. \A c \in DOMAIN out : Owns(out, arity, b, c) <=> Owns(s, arity, h[b], h[c])
    BY <1>1, <1>2
  <2>4. b \in DOMAIN out
    BY <1>1
  <2> QED
    BY ONLY <2>1, <2>2, <2>3, <2>4, OptionMoves
<1>5. ASSUME NEW x \in Opts(out, arity) PROVE x \in Opts(s, arity) /\ x[1] \notin N
  <2>1. PICK b \in 1 .. n : ~ IsWord(out[b]) /\ x = OptionAt(out, arity, b)
    BY <1>1, <1>5 DEF Opts, NotWords
  <2>2. h[b] \in NotWords(s) /\ h[b] \in places /\ x = OptionAt(s, arity, h[b])
    BY <1>1, <1>4, <2>1 DEF NotWords
  <2>3. x[1] = s[h[b]].text
    BY <2>2 DEF OptionAt
  <2> QED
    BY <1>3, <2>2, <2>3 DEF Opts
<1>6. ASSUME NEW x \in Opts(s, arity), x[1] \notin N PROVE x \in Opts(out, arity)
  <2>1. PICK i \in NotWords(s) : x = OptionAt(s, arity, i)
    BY <1>6 DEF Opts
  <2>2. x[1] = s[i].text
    BY <2>1 DEF OptionAt
  <2>3. i \in places /\ ~ IsWord(s[i])
    BY <1>3, <1>6, <2>1, <2>2 DEF NotWords
  <2>4. PICK b \in 1 .. n : h[b] = i
    BY <1>1, <2>3
  <2>5. b \in NotWords(out) /\ x = OptionAt(out, arity, b)
    BY <1>1, <1>4, <2>1, <2>3, <2>4 DEF NotWords
  <2> QED
    BY <2>5 DEF Opts
<1> QED
  BY <1>5, <1>6

(* Each value that the table b leaves to its option is one for the table   *)
(* a; any other goes with its option all the same.                         *)
GoesAlong(s, a, b, dropped) ==
  /\ \A i, n \in 1 .. Len(s) : Owns(s, b, i, n) => Owns(s, a, i, n)
  /\ \A i, n \in 1 .. Len(s) : Owns(s, a, i, n) =>
       Owns(s, b, i, n) \/ (s[i] \in dropped <=> s[n] \in dropped)

(* Tables that differ in options which go with their values all the same.  *)
LEMMA FilteredAlike ==
  ASSUME NEW A, NEW s \in Seq(A), NEW a, NEW b, NEW dropped, NEW out, NEW places, NEW h,
         IsFiltered(out, s, b, dropped, places, h),
         GoesAlong(s, a, b, dropped)
  PROVE  IsFiltered(out, s, a, dropped, places, h)
<1>1. DOMAIN s = 1 .. Len(s)
  OBVIOUS
<1>2. ASSUME NEW i \in 1 .. Len(s), NEW n \in 1 .. Len(s), Owns(s, a, i, n)
      PROVE  n \in places <=> i \in places
  <2>1. CASE Owns(s, b, i, n)
    BY <2>1 DEF IsFiltered
  <2>2. CASE ~ Owns(s, b, i, n)
    <3>1. ~ Owned(s, b, i)
      BY <1>2 DEF Owned, Owns, IsWord
    <3>2. ASSUME NEW k \in DOMAIN s, Owns(s, b, k, n) PROVE FALSE
      <4>1. Owns(s, a, k, n)
        BY <1>1, <3>2 DEF GoesAlong
      <4>2. k = i
        BY <1>1, <1>2, <4>1, OneOwner
      <4> QED
        BY <2>2, <3>2, <4>2
    <3>3. ~ Owned(s, b, n)
      BY <3>2 DEF Owned
    <3> QED
      BY <1>2, <2>2, <3>1, <3>3 DEF IsFiltered, GoesAlong
  <2> QED
    BY <2>1, <2>2
<1>3. ASSUME NEW n \in 1 .. Len(s), ~ Owned(s, a, n) PROVE n \in places <=> s[n] \notin dropped
  <2>1. ~ Owned(s, b, n)
    BY <1>1, <1>3 DEF Owned, GoesAlong
  <2> QED
    BY <2>1 DEF IsFiltered
<1> QED
  BY <1>2, <1>3 DEF IsFiltered

-----------------------------------------------------------------------------
(* Commands whose options keep their values when others are dropped.       *)

(* The worker has the user's options, and of those names no others.        *)
RunKeeps(f, args, run) ==
  /\ \A o \in OptionsRead(f, args) : o[1] \in Replaced(f) \/ o \in OptionsRead(f, run)
  /\ \A o \in OptionsRead(f, run) : o[1] \in {u[1] : u \in OptionsRead(f, args)} =>
       o[1] \in Replaced(f) \cup Added(f) \/ o \in OptionsRead(f, args)

(* The listing has those that matter to it.                                *)
ListingKeeps(f, args) ==
  \A o \in OptionsRead(f, args) :
    KeptForListing(f, o[1]) => o \in OptionsRead(f, DiscoveryArgs(f, args))

(* Words that the adapters write.                                          *)
Written == Mentioned \cup
  {"--listTests", "--dry-run", "--parallel", "0", "message", "list", "--filesOnly", "--json",
   "--list", "--reporter", "--config-file", "wrapper", "missing"}

LEMMA WrittenArgs ==
  ASSUME NEW T, Written \subseteq T
  PROVE  /\ Mentioned \subseteq T
         /\ \A text \in Written : /\ Word(text) \in Arguments(T) /\ Option(text) \in Arguments(T)
                                  /\ Inline(text) \in Arguments(T)
BY DEF Written, Arguments, Word, Option, Inline

(* An option that the adapter writes is not taken for a value.             *)
LEMMA FrontOption ==
  ASSUME NEW A, NEW s \in Seq(A), NEW t \in Seq(A), NEW arity, ~ IsWord(t[1])
  PROVE  Opts(s \o t, arity) = Opts(s, arity) \cup Opts(t, arity)
BY ConcatOpts DEF Apart

(* Files behind a command in which nothing is open.                        *)
LEMMA BeforeFiles ==
  ASSUME NEW T, NEW arity, NEW s \in Seq(Arguments(T)), Closed(s, arity),
         NEW F, F \subseteq T, NEW files \in Seq(F)
  PROVE  s \o Words(files) \in Seq(Arguments(T)) /\ Opts(s \o Words(files), arity) = Opts(s, arity)
<1> DEFINE w == Words(files)
           A == Arguments(T)
<1>1. w \in Seq(A) /\ \A i \in DOMAIN w : IsWord(w[i])
  BY FileWords
<1>2. s \in Seq(A)
  OBVIOUS
<1> HIDE DEF w, A
<1>3. Opts(w, arity) = {}
  BY <1>1, WordsOpts
<1>4. Apart(s, w, arity)
  BY DEF Apart
<1>5. Opts(s \o w, arity) = Opts(s, arity) \cup Opts(w, arity)
  BY ONLY <1>1, <1>2, <1>4, ConcatOpts
<1>6. s \o w \in Seq(A)
  BY <1>1, <1>2
<1> QED
  BY <1>3, <1>5, <1>6 DEF w, A

(* A word in front of a command.                                           *)
LEMMA BehindFront ==
  ASSUME NEW A, NEW word, Word(word) \in A, NEW s \in Seq(A), NEW arity
  PROVE  /\ <<Word(word)>> \o s \in Seq(A)
         /\ Opts(<<Word(word)>> \o s, arity) = Opts(s, arity)
         /\ Closed(s, arity) => Closed(<<Word(word)>> \o s, arity)
<1> DEFINE r == <<Word(word)>>
<1>1. r \in Seq(A) /\ Closed(r, arity)
  BY FrontWord
<1>2. \A i \in DOMAIN r : IsWord(r[i])
  BY DEF Word, IsWord
<1> HIDE DEF r
<1>3. Opts(r, arity) = {}
  BY <1>2, WordsOpts
<1>4. Apart(r, s, arity)
  BY <1>1 DEF Apart
<1>5. r \o s \in Seq(A) /\ Opts(r \o s, arity) = Opts(s, arity)
  <2>1. Opts(r \o s, arity) = Opts(r, arity) \cup Opts(s, arity)
    BY <1>1, <1>4, ConcatOpts
  <2>2. r \o s \in Seq(A)
    BY <1>1
  <2> QED
    BY <1>3, <2>1, <2>2
<1>6. Closed(s, arity) => Closed(r \o s, arity)
  BY <1>1, ConcatClosed
<1> QED
  BY <1>5, <1>6 DEF r

(* The options runs are the user's without those of the names N, which are *)
(* replaced, and X, none of which stands for another one of the user's.    *)
Extends(f, users, runs, N, X) ==
  /\ N \subseteq Replaced(f)
  /\ runs = {o \in users : o[1] \notin N} \cup X
  /\ \A x \in X : \/ x[1] \in Replaced(f) \cup Added(f) \/ x \in users
                  \/ \A u \in users : u[1] # x[1]

LEMMA RunOf ==
  ASSUME NEW f, NEW T, NEW args \in Seq(Arguments(T)), NEW run \in Seq(Arguments(T)), NEW N, NEW X,
         Extends(f, Opts(args, ArityOf(f, T)), Opts(run, ArityOf(f, T)), N, X)
  PROVE  RunKeeps(f, args, run)
<1> DEFINE users == Opts(args, ArityOf(f, T))
           runs == Opts(run, ArityOf(f, T))
<1>1. OptionsRead(f, args) = users /\ OptionsRead(f, run) = runs
  BY ReadsOpts
<1>2. Extends(f, users, runs, N, X)
  OBVIOUS
<1> HIDE DEF users, runs
<1>3. \A o \in users : o[1] \in Replaced(f) \/ o \in runs
  BY <1>2 DEF Extends
<1>4. ASSUME NEW o \in runs, o[1] \in {u[1] : u \in users}
      PROVE  o[1] \in Replaced(f) \cup Added(f) \/ o \in users
  BY <1>2, <1>4 DEF Extends
<1> QED
  BY <1>1, <1>3, <1>4 DEF RunKeeps

LEMMA ListingOf ==
  ASSUME NEW f, NEW T, NEW args \in Seq(Arguments(T)), DiscoveryArgs(f, args) \in Seq(Arguments(T)),
         \A o \in Opts(args, ArityOf(f, T)) :
           KeptForListing(f, o[1]) => o \in Opts(DiscoveryArgs(f, args), ArityOf(f, T))
  PROVE  ListingKeeps(f, args)
<1>1. /\ OptionsRead(f, args) = Opts(args, ArityOf(f, T))
      /\ OptionsRead(f, DiscoveryArgs(f, args)) = Opts(DiscoveryArgs(f, args), ArityOf(f, T))
  BY ReadsOpts
<1> QED
  BY <1>1 DEF ListingKeeps

-----------------------------------------------------------------------------
(* The options that each framework is given.                               *)

LEMMA JestKeeps ==
  ASSUME NEW T, Written \subseteq T, NEW args \in Seq(Arguments(T)), Understood("jest", args),
         NEW F, F \subseteq T, NEW files \in Seq(F)
  PROVE  RunKeeps("jest", args, RunArgs("jest", args, files)) /\ ListingKeeps("jest", args)
<1> DEFINE A == Arguments(T)
           a == ArityOf("jest", T)
           t == <<Option("--runTestsByPath")>>
           d == <<Option("--listTests")>>
           x == <<"--runTestsByPath", {}>>
<1>1. args \in Seq(A) /\ Mentioned \subseteq T
  BY WrittenArgs
<1>2. Option("--runTestsByPath") \in A /\ Option("--listTests") \in A
  BY WrittenArgs DEF Written, Mentioned
<1>3. a["--runTestsByPath"] = "none"
  BY DEF ArityOf, Takes, SingleArity, Written, Mentioned
<1>4. /\ t \in Seq(A) /\ t # <<>> /\ DOMAIN t = {1} /\ t[1].kind = "option" /\ t[1].text = "--runTestsByPath"
      /\ ~ IsWord(t[1])
      /\ d \in Seq(A) /\ ~ IsWord(d[1])
  BY <1>2 DEF Option, IsWord
<1> HIDE DEF A, a, t, d
<1>5. Opts(t, a) = {x} /\ Closed(t, a)
  <2>1. ValuesAt(t, a, 1) = {}
    BY <1>3, <1>4 DEF ValuesAt, Owns
  <2>2. NotWords(t) = {1}
    BY <1>4 DEF NotWords
  <2>3. Closed(t, a)
    BY <1>3, <1>4 DEF Closed, Open
  <2> QED
    BY <1>4, <2>1, <2>2, <2>3 DEF Opts, OptionAt
<1>6. args \o t \in Seq(A)
  BY <1>1, <1>4
<1>7. Opts(args \o t, a) = Opts(args, a) \cup {x}
  BY <1>1, <1>4, <1>5, FrontOption
<1>8. Closed(args \o t, a)
  BY <1>1, <1>4, <1>5, ConcatClosed
<1> DEFINE p == args \o t
           run == p \o Words(files)
           X == {x}
<1>75. p \in Seq(A) /\ Closed(p, a) /\ Opts(p, a) = Opts(args, a) \cup X
  BY <1>6, <1>7, <1>8
<1> HIDE DEF p
<1>9. run \in Seq(A) /\ Opts(run, a) = Opts(args, a) \cup X
  BY <1>75, BeforeFiles DEF A
<1> HIDE DEF run
<1>10. ASSUME NEW u \in Opts(args, a), u[1] = x[1] PROVE x \in Opts(args, a)
  <2>1. PICK i \in NotWords(args) : u = OptionAt(args, a, i)
    BY <1>10 DEF Opts
  <2>2. args[i].text = "--runTestsByPath"
    BY <1>10, <2>1 DEF OptionAt
  <2>3. ValuesAt(args, a, i) = {}
    BY <1>3, <2>2 DEF ValuesAt, Owns
  <2> QED
    BY <2>1, <2>2, <2>3 DEF OptionAt, Opts
<1>11. Extends("jest", Opts(args, a), Opts(run, a), {}, X)
  BY <1>9, <1>10 DEF Extends
<1> HIDE DEF x, X
<1>13. RunKeeps("jest", args, run)
  BY <1>1, <1>9, <1>11, RunOf DEF A, a
<1>14. RunArgs("jest", args, files) = run
  BY DEF RunArgs, JestRunArgs, run, p, t
<1>15. DiscoveryArgs("jest", args) = args \o d
  <2>1. Append(args, Option("--listTests")) = args \o <<Option("--listTests")>>
    OBVIOUS
  <2> QED
    BY <2>1 DEF DiscoveryArgs, JestDiscoveryArgs, d
<1>16. args \o d \in Seq(A) /\ Opts(args, a) \subseteq Opts(args \o d, a)
  <2>1. Opts(args \o d, a) = Opts(args, a) \cup Opts(d, a)
    BY <1>1, <1>4, FrontOption
  <2> QED
    BY <1>1, <1>4, <2>1
<1>17. ListingKeeps("jest", args)
  BY <1>15, <1>16, ListingOf DEF A, a
<1> QED
  BY <1>13, <1>14, <1>17

LEMMA RubyKeeps ==
  ASSUME NEW f \in Ruby, NEW T, Written \subseteq T, NEW args \in Seq(Arguments(T)), Understood(f, args),
         NEW F, F \subseteq T, NEW files \in Seq(F)
  PROVE  RunKeeps(f, args, RunArgs(f, args, files))
<1> DEFINE A == Arguments(T)
           a == ArityOf(f, T)
           t == <<Option("--format"), Word("progress")>>
           X == {<<"--format", {"progress"}>>}
<1>1. args \in Seq(A) /\ Mentioned \subseteq T
  BY WrittenArgs
<1>2. Closed(args, a)
  <2>1. Obeys(args, a)
    BY UnderstoodMeans
  <2> QED
    BY <2>1, ObeysClosed DEF Ruby
<1>3. CASE f = "minitest"
  <2> DEFINE run == args \o Words(files)
  <2>1. run \in Seq(A) /\ Opts(run, a) = Opts(args, a)
    BY <1>2, BeforeFiles
  <2> HIDE DEF run, A, a
  <2>2. Extends(f, Opts(args, a), Opts(run, a), {}, {})
    BY <2>1 DEF Extends
  <2>3. RunKeeps(f, args, run)
    BY <2>1, <2>2, RunOf DEF A, a
  <2> QED
    BY <1>3, <2>3 DEF RunArgs, RailsRunArgs, run
<1>4. CASE f = "rspec"
  <2>1. /\ t \in Seq(A) /\ t # <<>> /\ ~ IsWord(t[1]) /\ Closed(t, a)
    BY <1>1, <1>4, AddedArgs
  <2>2. a["--format"] = "one"
    BY <1>4 DEF ArityOf, Takes, SingleArity, Written, Mentioned
  <2>3. DOMAIN t = {1, 2} /\ t[1] = Option("--format") /\ t[2] = Word("progress")
    OBVIOUS
  <2> HIDE DEF A, a, t
  <2>4. Opts(t, a) = X
    <3>1. t[1].kind = "option" /\ t[1].text = "--format" /\ IsWord(t[2]) /\ t[2].text = "progress"
      BY <2>3 DEF Option, Word, IsWord
    <3>2. Owns(t, a, 1, 2) /\ ~ Owns(t, a, 1, 1)
      BY <2>2, <3>1 DEF Owns
    <3>3. {k \in DOMAIN t : Owns(t, a, 1, k)} = {2}
      BY <2>3, <3>2
    <3>4. ValuesAt(t, a, 1) = {"progress"}
      BY <3>1, <3>3 DEF ValuesAt
    <3>5. NotWords(t) = {1}
      BY <2>1, <2>3, <3>1 DEF NotWords
    <3> QED
      BY <3>1, <3>4, <3>5 DEF Opts, OptionAt
  <2>5. args \o t \in Seq(A) /\ Closed(args \o t, a) /\ Opts(args \o t, a) = Opts(args, a) \cup X
    <3>1. Opts(args \o t, a) = Opts(args, a) \cup Opts(t, a)
      BY <1>1, <2>1, FrontOption
    <3>2. Closed(args \o t, a)
      BY <1>1, <2>1, ConcatClosed
    <3> QED
      BY <1>1, <2>1, <2>4, <3>1, <3>2
  <2> DEFINE p == args \o t
             run == p \o Words(files)
  <2>55. p \in Seq(A) /\ Closed(p, a) /\ Opts(p, a) = Opts(args, a) \cup X
    BY <2>5
  <2> HIDE DEF p
  <2>6. run \in Seq(A) /\ Opts(run, a) = Opts(args, a) \cup X
    BY <2>55, BeforeFiles DEF A
  <2> HIDE DEF run
  <2>7. Extends(f, Opts(args, a), Opts(run, a), {}, X)
    BY <1>4, <2>6 DEF Extends, Added
  <2> HIDE DEF X
  <2>9. RunKeeps(f, args, run)
    BY <2>6, <2>7, RunOf DEF A, a
  <2> QED
    BY <1>4, <2>9 DEF RunArgs, RSpecRunArgs, run, p, t
<1> QED
  BY <1>3, <1>4 DEF Ruby

LEMMA NothingToKeep ==
  ASSUME NEW f, NEW run
  PROVE  RunKeeps(f, <<>>, run)
BY DEF RunKeeps, OptionsRead

(* The words that are no values are dropped.                               *)
DropsFree(s, a, dropped) ==
  \A n \in DOMAIN s : IsWord(s[n]) /\ ~ Owned(s, a, n) => s[n] \in dropped

(* What the table b of an adapter leaves of the options when every word    *)
(* that is no value is dropped.                                            *)
LEMMA DropFree ==
  ASSUME NEW A, NEW s \in Seq(A), NEW a, NEW b, Obeys(s, a), Typed(s, b), Obeys(s, b),
         NEW dropped, NEW N,
         GoesAlong(s, a, b, dropped), DropsNames(s, dropped, N), DropsFree(s, a, dropped)
  PROVE  LET out == Without(s, dropped, b)
         IN  /\ out \in Seq(A) /\ Obeys(out, a)
             /\ Opts(out, a) = {o \in Opts(s, a) : o[1] \notin N}
<1> DEFINE out == Without(s, dropped, b)
<1>1. out \in Seq(A) /\ \E places, h : IsFiltered(out, s, b, dropped, places, h)
  BY WithoutFilters
<1> HIDE DEF out
<1>2. PICK places, h : IsFiltered(out, s, b, dropped, places, h)
  BY <1>1
<1>3. IsFiltered(out, s, a, dropped, places, h)
  BY <1>2, FilteredAlike
<1>4. Obeys(out, a)
  BY <1>1, <1>3, FilterOwns
<1>5. \A c, d \in 1 .. Len(out) : Owns(out, a, c, d) <=> Owns(s, a, h[c], h[d])
  BY <1>1, <1>3, FilterFree DEF DropsFree
<1>6. Opts(out, a) = {o \in Opts(s, a) : o[1] \notin N}
  BY <1>1, <1>3, <1>5, FilterOpts
<1> QED
  BY <1>1, <1>4, <1>6 DEF out

LEMMA CucumberKeeps ==
  ASSUME NEW T, Written \subseteq T, NEW args \in Seq(Arguments(T)), Understood("cucumber", args),
         NEW F, F \subseteq T, NEW files \in Seq(F)
  PROVE  RunKeeps("cucumber", args, RunArgs("cucumber", args, files)) /\ ListingKeeps("cucumber", args)
<1> DEFINE A == Arguments(T)
           a == ArityOf("cucumber", T)
           b == SingleArities(args)
           dropped == {x \in ToSet(args) : IsWord(x)}
           p == Without(args, dropped, b)
           run == p \o Words(files)
           d == <<Option("--dry-run"), Option("--parallel"), Word("0"),
                  Option("--format"), Word("message")>>
           N == {}
           X == {}
<1>1. args \in Seq(A) /\ Obeys(args, a) /\ Typed(args, a)
  BY UnderstoodMeans, ArityTyped
<1>2. \A i \in DOMAIN args : b[args[i].text] = a[args[i].text]
  BY TablesAre
<1>3. DropsFree(args, a, dropped) /\ DropsNames(args, dropped, N)
  BY DEF ToSet, NotWords, DropsFree, DropsNames
<1>4. d \in Seq(A) /\ ~ IsWord(d[1])
  <2>1. /\ Option("--dry-run") \in A /\ Option("--parallel") \in A /\ Word("0") \in A
        /\ Option("--format") \in A /\ Word("message") \in A
    BY WrittenArgs DEF Written, Mentioned
  <2>2. d[1] = Option("--dry-run")
    OBVIOUS
  <2> QED
    BY <2>1, <2>2 DEF Option, IsWord
<1> HIDE DEF A, a, b, dropped, d, N, X
<1>5. Obeys(args, b) /\ Typed(args, b)
  BY <1>1, <1>2, SameArity DEF Typed
<1>6. GoesAlong(args, a, b, dropped)
  <2>1. DOMAIN args = 1 .. Len(args)
    BY <1>1
  <2>2. \A i, n \in DOMAIN args : Owns(args, b, i, n) <=> Owns(args, a, i, n)
    BY <1>1, <1>2, SameArity
  <2> QED
    BY <2>1, <2>2 DEF GoesAlong
<1> HIDE DEF p
<1>7. p \in Seq(A) /\ Obeys(p, a) /\ Opts(p, a) = {o \in Opts(args, a) : o[1] \notin N}
  BY ONLY <1>1, <1>3, <1>5, <1>6, DropFree DEF p
<1>8. Closed(p, a)
  BY <1>7, ObeysClosed DEF A, a
<1> HIDE DEF run
<1>9. run \in Seq(A) /\ Opts(run, a) = Opts(p, a)
  BY <1>7, <1>8, BeforeFiles DEF A, run
<1>10. Extends("cucumber", Opts(args, a), Opts(run, a), N, X)
  BY <1>7, <1>9 DEF N, X, Extends
<1>11. RunKeeps("cucumber", args, run)
  BY <1>1, <1>9, <1>10, RunOf DEF A, a
<1>12. RunArgs("cucumber", args, files) = run
  BY DEF RunArgs, CucumberRunArgs, run, p, dropped, b
<1>13. DiscoveryArgs("cucumber", args) = args \o d
  BY DEF DiscoveryArgs, CucumberDiscoveryArgs, d
<1>14. args \o d \in Seq(A) /\ Opts(args, a) \subseteq Opts(args \o d, a)
  <2>1. Opts(args \o d, a) = Opts(args, a) \cup Opts(d, a)
    BY <1>1, <1>4, FrontOption
  <2> QED
    BY <1>1, <1>4, <2>1
<1>15. ListingKeeps("cucumber", args)
  BY <1>13, <1>14, ListingOf DEF A, a
<1> QED
  BY <1>11, <1>12, <1>15

LEMMA BehindFrontOpts ==
  ASSUME NEW A, NEW args \in Seq(A), NEW arity
  PROVE  Opts(VitestBehind(args), arity) = Opts(args, arity)
<1> DEFINE s == Unlaunched(args)
<1>1. /\ Launched("vitest", args) => args # <<>> /\ IsWord(args[1])
      /\ HasSubcommand(s) => s # <<>> /\ IsWord(s[1])
  BY DEF Launched, HasSubcommand, VitestSubcommands, Word, IsWord
<1> HIDE DEF s
<1>2. s \in Seq(A) /\ Opts(s, arity) = Opts(args, arity)
  BY <1>1, TailOpts DEF s, Unlaunched
<1>3. Opts(Tail(s), arity) = Opts(s, arity) \/ ~ HasSubcommand(s)
  BY <1>1, <1>2, TailOpts
<1> QED
  BY <1>2, <1>3 DEF VitestBehind, s

LEMMA VitestKeeps ==
  ASSUME NEW T, Written \subseteq T, NEW args \in Seq(Arguments(T)),
         Understood("vitest", args), ~ ValueIsMistaken("vitest", args),
         NEW F, F \subseteq T, NEW files \in Seq(F)
  PROVE  RunKeeps("vitest", args, RunArgs("vitest", args, files)) /\ ListingKeeps("vitest", args)
<1> DEFINE A == Arguments(T)
           a == ArityOf("vitest", T)
           q == VitestBehind(args)
           r == VitestFront(args, "run")
           e == VitestFront(args, "list")
           p == r \o q
           g == e \o q
           run == p \o Words(files)
           d == <<Option("--filesOnly"), Inline("--json")>>
           N == {}
           X == {}
<1>1. args \in Seq(A) /\ Word("vitest") \in A
  BY WrittenArgs DEF Written, Mentioned
<1>2. Word("run") \in A /\ Word("list") \in A /\ Option("--filesOnly") \in A /\ Inline("--json") \in A
  BY WrittenArgs DEF Written, Mentioned
<1>3. q \in Seq(A) /\ Obeys(q, a)
  BY BehindFrontOwned
<1>4. d \in Seq(A) /\ ~ IsWord(d[1])
  <2>1. d[1] = Option("--filesOnly")
    OBVIOUS
  <2> QED
    BY <1>2, <2>1 DEF Option, IsWord
<1>5. Closed(q, a)
  BY <1>3, ObeysClosed
<1> HIDE DEF A, a, d, N, X
<1>6. Opts(q, a) = Opts(args, a)
  BY <1>1, BehindFrontOpts
<1> HIDE DEF q
<1>7. /\ r \in Seq(A) /\ Closed(r, a) /\ \A i \in DOMAIN r : IsWord(r[i])
      /\ e \in Seq(A) /\ Closed(e, a) /\ \A i \in DOMAIN e : IsWord(e[i])
  BY <1>1, <1>2, FrontWords
<1> HIDE DEF r, e
<1>8. ASSUME NEW x \in {r, e}
      PROVE  x \o q \in Seq(A) /\ Opts(x \o q, a) = Opts(args, a) /\ Closed(x \o q, a)
  <2>1. x \in Seq(A) /\ Closed(x, a) /\ \A i \in DOMAIN x : IsWord(x[i])
    BY <1>7
  <2>2. Opts(x, a) = {} /\ Apart(x, q, a)
    BY <2>1, WordsOpts DEF Apart
  <2>5. x \in Seq(A) /\ q \in Seq(A) /\ Apart(x, q, a)
    BY <1>3, <2>1, <2>2
  <2>3. Opts(x \o q, a) = Opts(x, a) \cup Opts(q, a)
    BY ONLY <2>5, ConcatOpts
  <2>4. x \o q \in Seq(A) /\ Closed(x \o q, a)
    BY <1>3, <1>5, <2>1, ConcatShape, ConcatClosed
  <2> QED
    BY <1>6, <2>2, <2>3, <2>4
<1>9. /\ p \in Seq(A) /\ Opts(p, a) = Opts(args, a) /\ Closed(p, a)
      /\ g \in Seq(A) /\ Opts(g, a) = Opts(args, a)
  BY <1>8
<1> HIDE DEF p, g, run
<1>10. run \in Seq(A) /\ Opts(run, a) = Opts(p, a)
  BY <1>9, BeforeFiles DEF A, run
<1>11. Extends("vitest", Opts(args, a), Opts(run, a), N, X)
  BY <1>9, <1>10 DEF N, X, Extends
<1>12. RunKeeps("vitest", args, run)
  BY <1>1, <1>10, <1>11, RunOf DEF A, a
<1>13. RunArgs("vitest", args, files) = run
  BY VitestShape DEF RunArgs, run, p, r, q
<1>14. DiscoveryArgs("vitest", args) = g \o d
  <2>1. VitestArgs(args, "list") = g
    BY VitestShape DEF g, e, q
  <2> QED
    BY <2>1 DEF DiscoveryArgs, VitestDiscoveryArgs, d
<1>15. g \o d \in Seq(A) /\ Opts(args, a) \subseteq Opts(g \o d, a)
  <2>1. Opts(g \o d, a) = Opts(g, a) \cup Opts(d, a)
    BY <1>4, <1>9, FrontOption
  <2> QED
    BY <1>4, <1>9, <2>1
<1>16. ListingKeeps("vitest", args)
  BY <1>1, <1>14, <1>15, ListingOf DEF A, a
<1> QED
  BY <1>12, <1>13, <1>16

(* Playwright's listing, in which words without an option stay: none of    *)
(* them comes to be a value.                                               *)
LEMMA ListingOwns ==
  ASSUME NEW A, NEW s \in Seq(A), NEW a, Obeys(s, a),
         \A i \in DOMAIN s : Arities(s)[s[i].text] = a[s[i].text],
         \A i, j \in DOMAIN s : Reaches(s, i, j) => Owns(s, Arities(s), i, j) \/ Removed(s, j),
         NEW dropped, \A x \in ToSet(s) : x \in dropped <=> Is(x, PlaywrightDiscoveryOverrides),
         NEW out \in Seq(A), NEW places, NEW h, IsFiltered(out, s, a, dropped, places, h)
  PROVE  \A c, d \in 1 .. Len(out) : Owns(out, a, c, d) <=> Owns(s, a, h[c], h[d])
<1> DEFINE n == Len(out)
<1>1. /\ n \in Nat /\ DOMAIN out = 1 .. n /\ DOMAIN s = 1 .. Len(s) /\ Len(s) \in Nat
      /\ \A c \in 1 .. n : h[c] \in places /\ h[c] \in 1 .. Len(s) /\ out[c] = s[h[c]]
      /\ \A i \in places : \E c \in 1 .. n : h[c] = i
  <2>1. n \in Nat /\ DOMAIN out = 1 .. n /\ DOMAIN s = 1 .. Len(s) /\ Len(s) \in Nat
    OBVIOUS
  <2>2. /\ \A c \in 1 .. n : h[c] \in places /\ out[c] = s[h[c]]
        /\ \A i \in places : \E c \in 1 .. n : h[c] = i
    BY DEF IsFiltered, IsNumbering
  <2> QED
    BY <2>1, <2>2 DEF IsFiltered
<1>2. \A c, d \in 1 .. n : Owns(s, a, h[c], h[d]) => Owns(out, a, c, d)
  BY FilterOwns
<1>3. \A c, d \in 1 .. n : c < d => h[c] < h[d]
  BY DEF IsFiltered, IsNumbering
<1>4. \A i, j \in DOMAIN s : Owns(s, Arities(s), i, j) <=> Owns(s, a, i, j)
  BY SameArity
<1> HIDE DEF n
<1>5. ASSUME NEW k \in 1 .. Len(s) PROVE k \in places <=> ~ Removed(s, k)
  <2>1. \A i \in 1 .. Len(s) : s[i] \in dropped <=> Is(s[i], PlaywrightDiscoveryOverrides)
    BY <1>1 DEF ToSet
  <2>2. CASE Owned(s, a, k)
    <3>1. PICK i \in 1 .. Len(s) : Owns(s, a, i, k)
      BY <1>1, <2>2 DEF Owned
    <3>2. ~ Owned(s, a, i) /\ ~ Is(s[k], PlaywrightDiscoveryOverrides)
      BY <3>1 DEF Owned, Owns, IsWord, Is
    <3>3. k \in places <=> ~ Is(s[i], PlaywrightDiscoveryOverrides)
      BY <2>1, <3>1, <3>2 DEF IsFiltered
    <3>4. \A m \in 1 .. Len(s) : Owns(s, a, m, k) => m = i
      BY <1>1, <3>1, OneOwner
    <3>5. Removed(s, k) <=> Is(s[i], PlaywrightDiscoveryOverrides)
      BY <1>1, <1>4, <3>1, <3>2, <3>4 DEF Removed
    <3> QED
      BY <3>3, <3>5
  <2>3. CASE ~ Owned(s, a, k)
    <3>1. k \in places <=> ~ Is(s[k], PlaywrightDiscoveryOverrides)
      BY <2>1, <2>3 DEF IsFiltered
    <3>2. Removed(s, k) <=> Is(s[k], PlaywrightDiscoveryOverrides)
      BY <1>1, <1>4, <2>3 DEF Removed, Owned
    <3> QED
      BY <3>1, <3>2
  <2> QED
    BY <2>2, <2>3
<1>6. ASSUME NEW c \in 1 .. n, NEW d \in 1 .. n, Owns(out, a, c, d)
      PROVE  Owns(s, a, h[c], h[d])
  <2> DEFINE i == h[c]
             j == h[d]
  <2>1. /\ i \in 1 .. Len(s) /\ j \in 1 .. Len(s) /\ s[i] = out[c] /\ s[j] = out[d]
        /\ c < d /\ i < j /\ s[i].kind = "option" /\ IsWord(s[j])
        /\ i \in places /\ ~ Removed(s, i) /\ ~ Removed(s, j)
    <3>1. c < d /\ out[c].kind = "option" /\ IsWord(out[d])
      BY <1>6 DEF Owns
    <3> QED
      BY <1>1, <1>3, <1>5, <3>1
  <2>2. a[out[c].text] = a[s[i].text] /\ Arities(s)[s[i].text] = a[s[i].text]
    BY <1>1, <2>1
  <2>3. ASSUME NEW k \in i + 1 .. j - 1, ~ Removed(s, k)
        PROVE  \E e \in c + 1 .. d - 1 : e \in 1 .. n /\ out[e] = s[k]
    <3>1. k \in 1 .. Len(s) /\ i < k /\ k < j
      BY <1>1, <2>1
    <3>2. PICK e \in 1 .. n : h[e] = k
      BY <1>1, <1>5, <2>3, <3>1
    <3>3. ~ (e < c) /\ ~ (d < e) /\ e # c /\ e # d
      BY <1>1, <1>3, <2>1, <3>1, <3>2
    <3>4. e \in c + 1 .. d - 1
      BY <1>1, <3>3
    <3> QED
      BY <1>1, <3>2, <3>4
  <2>4. Reaches(s, i, j) => Owns(s, a, i, j)
    BY <1>1, <1>4, <2>1
  <2> HIDE DEF i, j
  <2>5. CASE a[s[i].text] = "one"
    <3>1. d = c + 1
      BY <1>6, <2>2, <2>5 DEF Owns
    <3>2. i + 1 \in 1 .. Len(s) /\ IsWord(s[i + 1])
      <4>1. i \in DOMAIN s /\ a[s[i].text] \in {"one", "many"}
        BY <1>1, <2>1, <2>5
      <4>2. i < Len(s) /\ IsWord(s[i + 1])
        BY <2>1, <4>1 DEF Obeys
      <4> QED
        BY <1>1, <2>1, <4>2
    <3>3. i < i + 1
      BY <1>1, <2>1
    <3>4. Owns(s, a, i, i + 1)
      BY <2>1, <2>5, <3>2, <3>3 DEF Owns
    <3>5. i + 1 \in places
      BY <2>1, <3>2, <3>4 DEF IsFiltered
    <3>6. PICK e \in 1 .. n : h[e] = i + 1
      BY <1>1, <3>5
    <3>7. Owns(out, a, c, e)
      BY <1>2, <3>4, <3>6 DEF i
    <3>8. e = d
      BY <2>2, <2>5, <3>1, <3>7 DEF Owns
    <3> QED
      BY <3>4, <3>6, <3>8 DEF i
  <2>6. CASE a[s[i].text] = "optional"
    <3>1. d = c + 1
      BY <1>6, <2>2, <2>6 DEF Owns
    <3>2. c + 1 .. d - 1 = {}
      BY <1>1, <3>1
    <3>3. \A k \in i + 1 .. j - 1 : Removed(s, k)
      BY <2>3, <3>2
    <3>4. Reaches(s, i, j)
      BY <2>1, <2>2, <2>6, <3>3 DEF Reaches
    <3> QED
      BY <2>4, <3>4 DEF i, j
  <2>7. CASE a[s[i].text] = "many"
    <3>1. \A e \in c + 1 .. d : IsWord(out[e])
      BY <1>6, <2>2, <2>7 DEF Owns
    <3>2. ASSUME NEW e \in c + 1 .. d - 1 PROVE e \in c + 1 .. d
      BY <1>1
    <3>3. \A k \in i + 1 .. j - 1 : IsWord(s[k]) \/ Removed(s, k)
      BY <2>3, <3>1, <3>2
    <3>4. Reaches(s, i, j)
      BY <2>1, <2>2, <2>7, <3>3 DEF Reaches
    <3> QED
      BY <2>4, <3>4 DEF i, j
  <2> QED
    BY <1>6, <2>2, <2>5, <2>6, <2>7 DEF Owns
<1> QED
  BY <1>2, <1>6 DEF n

LEMMA PlaywrightKeeps ==
  ASSUME NEW T, Written \subseteq T, NEW args \in Seq(Arguments(T)),
         Understood("playwright", args),
         NEW F, F \subseteq T, NEW files \in Seq(F)
  PROVE  /\ RunKeeps("playwright", args, RunArgs("playwright", args, files))
         /\ ~ FileIsMistaken("playwright", args) => ListingKeeps("playwright", args)
<1> DEFINE A == Arguments(T)
           a == ArityOf("playwright", T)
           q == PlaywrightCLIArgs(args)
           b == Arities(q)
           N == PlaywrightRunOverrides
           M == PlaywrightDiscoveryOverrides
           dropped == {x \in ToSet(q) : Is(x, N) \/ (TRUE /\ IsWord(x))}
           shown == {x \in ToSet(q) : Is(x, M) \/ (FALSE /\ IsWord(x))}
           p == Without(q, dropped, b)
           g == Without(q, shown, b)
           w == Words(files)
           s == <<Word("test")>> \o w
           e == <<Word("test")>> \o g
           run == s \o p
           d == <<Option("--list"), Inline("--reporter")>>
           X == {}
<1>1. args \in Seq(A) /\ Obeys(args, a)
  BY UnderstoodMeans
<1>2. Word("test") \in A /\ Option("--list") \in A /\ Inline("--reporter") \in A
  BY WrittenArgs DEF Written, Mentioned
<1>3. q \in Seq(A) /\ Obeys(q, a) /\ Opts(q, a) = Opts(args, a)
  <2> HIDE DEF A, a
  <2>1. CASE StartsWithWord(args)
    BY <1>1, <2>1, BehindWord, TailOpts DEF StartsWithWord, PlaywrightCLIArgs
  <2>2. CASE ~ StartsWithWord(args)
    BY <1>1, <2>2 DEF PlaywrightCLIArgs
  <2> QED
    BY <2>1, <2>2
<1>4. ~ FileIsMistaken("playwright", args) =>
        \A i, j \in DOMAIN q : Reaches(q, i, j) => Owns(q, b, i, j) \/ Removed(q, j)
  BY DEF FileIsMistaken
<1> HIDE DEF q
<1>5. \A i \in DOMAIN q : b[q[i].text] = a[q[i].text]
  BY <1>3, TablesAre
<1>6. Typed(q, a)
  BY <1>3, ArityTyped
<1>7. w \in Seq(A) /\ Closed(w, a) /\ \A i \in DOMAIN w : IsWord(w[i])
  BY FileWords
<1>8. d \in Seq(A) /\ ~ IsWord(d[1])
  <2>1. d[1] = Option("--list")
    OBVIOUS
  <2> QED
    BY <1>2, <2>1 DEF Option, IsWord
<1>9. DropsFree(q, a, dropped) /\ DropsNames(q, dropped, N)
  BY DEF ToSet, NotWords, DropsFree, DropsNames, Is
<1>10. DropsNames(q, shown, M) /\ \A x \in ToSet(q) : x \in shown <=> Is(x, M)
  BY DEF ToSet, NotWords, DropsNames, Is
<1> HIDE DEF A, a, dropped, shown, w, d, X, s, e, p, g, run
<1>11. Obeys(q, b) /\ Typed(q, b)
  BY <1>3, <1>5, <1>6, SameArity DEF Typed
<1>12. \A dr : GoesAlong(q, a, b, dr)
  <2>1. DOMAIN q = 1 .. Len(q)
    BY <1>3
  <2>2. \A i, n \in DOMAIN q : Owns(q, b, i, n) <=> Owns(q, a, i, n)
    BY <1>3, <1>5, SameArity
  <2> QED
    BY <2>1, <2>2 DEF GoesAlong
<1> HIDE DEF b, N
<1>13. p \in Seq(A) /\ Opts(p, a) = {o \in Opts(args, a) : o[1] \notin N}
  BY <1>3, <1>9, <1>11, <1>12, DropFree DEF p
<1>14. s \in Seq(A) /\ Closed(s, a) /\ Opts(s, a) = {}
  <2>1. Opts(w, a) = {}
    BY <1>7, WordsOpts
  <2> QED
    BY <1>2, <1>7, <2>1, BehindFront DEF s
<1>15. run \in Seq(A) /\ Opts(run, a) = Opts(p, a)
  <2>1. Apart(s, p, a)
    BY <1>14 DEF Apart
  <2>2. Opts(s \o p, a) = Opts(s, a) \cup Opts(p, a)
    BY <1>13, <1>14, <2>1, ConcatOpts
  <2>3. s \o p \in Seq(A)
    BY <1>13, <1>14
  <2> QED
    BY <1>14, <2>2, <2>3 DEF run
<1>16. Extends("playwright", Opts(args, a), Opts(run, a), N, X)
  BY <1>13, <1>15 DEF N, X, Extends, Replaced
<1>17. RunKeeps("playwright", args, run)
  BY <1>1, <1>15, <1>16, RunOf DEF A, a
<1>18. RunArgs("playwright", args, files) = run
  BY DEF RunArgs, PlaywrightRunArgs, PlaywrightFilter, run, s, p, w, b, q, dropped, N
<1>21. DiscoveryArgs("playwright", args) = e \o d
  BY DEF DiscoveryArgs, PlaywrightDiscoveryArgs, PlaywrightFilter, e, g, b, q, shown, d
<1>19. ASSUME ~ FileIsMistaken("playwright", args) PROVE ListingKeeps("playwright", args)
  <2>1. g \in Seq(A) /\ \E places, h : IsFiltered(g, q, b, shown, places, h)
    BY <1>3, <1>11, WithoutFilters DEF g
  <2>2. PICK places, h : IsFiltered(g, q, b, shown, places, h)
    BY <2>1
  <2>3. IsFiltered(g, q, a, shown, places, h)
    BY <1>3, <1>12, <2>2, FilteredAlike
  <2>4. \A c, k \in 1 .. Len(g) : Owns(g, a, c, k) <=> Owns(q, a, h[c], h[k])
    BY <1>3, <1>4, <1>5, <1>10, <1>19, <2>1, <2>3, ListingOwns DEF b
  <2> HIDE DEF M
  <2>5. Opts(g, a) = {o \in Opts(args, a) : o[1] \notin M}
    BY <1>3, <1>10, <2>1, <2>3, <2>4, FilterOpts
  <2>6. e \in Seq(A) /\ Opts(e, a) = Opts(g, a)
    BY <1>2, <2>1, BehindFront DEF e
  <2>7. e \o d \in Seq(A) /\ Opts(e \o d, a) = Opts(e, a) \cup Opts(d, a)
    BY <1>8, <2>6, FrontOption
  <2>8. \A o \in Opts(args, a) : o[1] \notin M => o \in Opts(e \o d, a)
    BY <2>5, <2>6, <2>7
  <2> QED
    BY <1>21, <2>7, <2>8, ListingOf DEF A, a, M, KeptForListing
<1> QED
  BY <1>17, <1>18, <1>19

(* Cypress: the subcommand is at the front, or there is none.              *)
LEMMA FirstRemoved ==
  ASSUME NEW A, NEW s \in Seq(A), s # <<>>
  PROVE  RemoveAt(s, 1) = Tail(s)
<1>1. SubSeq(s, 1, 0) = <<>> /\ SubSeq(s, 2, Len(s)) = Tail(s)
  OBVIOUS
<1>2. <<>> \o Tail(s) = Tail(s)
  OBVIOUS
<1>3. RemoveAt(s, 1) = SubSeq(s, 1, 0) \o SubSeq(s, 2, Len(s))
  BY DEF RemoveAt
<1> QED
  BY <1>1, <1>2, <1>3

LEMMA SubcommandGone ==
  ASSUME NEW T, NEW args \in Seq(Arguments(T)),
         Understood("cypress", args), ~ ValueIsMistaken("cypress", args)
  PROVE  LET a == ArityOf("cypress", T)
             s == CypressWithoutSubcommand(args)
         IN  /\ s \in Seq(Arguments(T)) /\ Obeys(s, a) /\ AllOwned(s, a) /\ SpecOnce(s, a)
             /\ Opts(s, a) = Opts(args, a) /\ ToSet(s) \subseteq ToSet(args)
<1> DEFINE A == Arguments(T)
           a == ArityOf("cypress", T)
           s == CypressWithoutSubcommand(args)
           at == {i \in DOMAIN args : args[i] \in {Word("run"), Word("open")}}
<1>1. args \in Seq(A) /\ Obeys(args, a)
  BY UnderstoodMeans
<1>2. \A j \in DOMAIN args : IsWord(args[j]) => Owned(args, a, j) \/ (j = 1 /\ args[j] = Word("run"))
  <2>1. Launch("cypress", args) = 0
    BY DEF Launch, Launched
  <2>2. \A j \in DOMAIN args : j # 0
    OBVIOUS
  <2>3. \A j \in DOMAIN args : IsWord(args[j]) =>
          \/ Owned(args, a, j)
          \/ j = Launch("cypress", args) + 1 /\ args[j] = Word("run")
          \/ j = Launch("cypress", args)
    BY UnderstoodMeans
  <2> HIDE DEF a
  <2> QED
    BY <2>1, <2>2, <2>3
<1>3. at # {} => args[1] \in {Word("run"), Word("open")}
  BY DEF ValueIsMistaken
<1>9. SpecOnce(args, a)
  BY UnderstoodMeans
<1>6. s = IF at = {} THEN args ELSE RemoveAt(args, CHOOSE i \in at : \A j \in at : i <= j)
  BY DEF CypressWithoutSubcommand
<1>7. \A i \in at : i \in DOMAIN args /\ IsWord(args[i])
  BY DEF IsWord, Word
<1>8. \A i \in DOMAIN args : args[i] = Word("run") => i \in at
  OBVIOUS
<1> HIDE DEF A, a, s
<1>10. CASE at = {}
  <2>1. AllOwned(args, a)
    BY <1>2, <1>8, <1>10 DEF AllOwned
  <2> QED
    BY <1>1, <1>6, <1>9, <1>10, <2>1 DEF A, a, s
<1>11. CASE at # {}
  <2>2. args # <<>>
    BY <1>1, <1>7, <1>11
  <2>1. 1 \in at /\ 1 \in DOMAIN args /\ IsWord(args[1])
    BY <1>1, <1>3, <1>7, <1>11, <2>2
  <2>3. (CHOOSE i \in at : \A j \in at : i <= j) = 1
    <3>1. \A j \in at : j \in Nat /\ 1 <= j
      BY <1>1
    <3> HIDE DEF at
    <3> QED
      BY <2>1, <3>1
  <2>4. s = Tail(args)
    BY <1>1, <1>6, <1>11, <2>2, <2>3, FirstRemoved
  <2> DEFINE t == Tail(args)
  <2>5. /\ t \in Seq(A) /\ Obeys(t, a)
        /\ \A j \in DOMAIN t : /\ j + 1 \in DOMAIN args /\ t[j] = args[j + 1]
                               /\ Owned(args, a, j + 1) => Owned(t, a, j)
    BY <1>1, <2>1, <2>2, BehindWord
  <2>6. /\ Opts(t, a) = Opts(args, a)
        /\ \A i, j \in DOMAIN t : Owns(t, a, i, j) <=> Owns(args, a, i + 1, j + 1)
    BY <1>1, <2>1, <2>2, TailOpts
  <2> HIDE DEF t
  <2>7. \A j \in DOMAIN t : j \in Nat /\ j + 1 # 1
    BY <2>5
  <2>10. ToSet(t) \subseteq ToSet(args)
    BY <2>5 DEF ToSet
  <2>8. AllOwned(t, a)
    BY <1>2, <2>5, <2>7 DEF AllOwned
  <2>9. SpecOnce(t, a)
    <3> SUFFICES ASSUME NEW i \in DOMAIN t, NEW j \in DOMAIN t, t[i].text = "--spec", Owns(t, a, i, j)
                 PROVE  j = i + 1
      BY DEF SpecOnce
    <3>1. j + 1 = (i + 1) + 1
      BY <1>9, <2>5, <2>6 DEF SpecOnce
    <3> QED
      BY <2>7, <3>1
  <2> QED
    BY <2>4, <2>5, <2>6, <2>8, <2>9, <2>10 DEF A, a, s, t
<1> QED
  BY <1>10, <1>11

(* What removing --spec leaves.                                            *)
LEMMA SpecDropped ==
  ASSUME NEW T, Written \subseteq T, NEW s \in Seq(Arguments(T)),
         Obeys(s, ArityOf("cypress", T)), AllOwned(s, ArityOf("cypress", T)),
         SpecOnce(s, ArityOf("cypress", T))
  PROVE  LET a == ArityOf("cypress", T)
             p == CypressWithoutSpec(s)
         IN  /\ p \in Seq(Arguments(T))
             /\ Opts(p, a) = {o \in Opts(s, a) : o[1] \notin {"--spec"}}
<1> DEFINE A == Arguments(T)
           a == ArityOf("cypress", T)
           b == [name \in Texts(s) |-> IF name = "--spec" THEN "one" ELSE "none"]
           N == {"--spec"}
           dropped == {x \in ToSet(s) : Is(x, N)}
           p == Without(s, dropped, b)
<1>1. DOMAIN s = 1 .. Len(s) /\ Len(s) \in Nat /\ s \in Seq(A)
  OBVIOUS
<1>2. \A i \in DOMAIN s : b[s[i].text] = IF s[i].text = "--spec" THEN "one" ELSE "none"
  BY DEF Texts
<1>3. a["--spec"] = "many"
  BY DEF ArityOf, Takes, Written, Mentioned
<1>4. DropsFree(s, a, dropped)
  BY DEF AllOwned, DropsFree
<1>5. DropsNames(s, dropped, N)
  BY DEF DropsNames, NotWords, ToSet, Is
<1>6. \A i \in DOMAIN s : s[i] \in dropped <=> s[i].text = "--spec" /\ ~ IsWord(s[i])
  BY DEF ToSet, Is
<1> HIDE DEF A, a, b, dropped, N
<1>7. Typed(s, b)
  BY <1>2 DEF Typed, Kinds
<1>8. Obeys(s, b)
  <2>1. \A i \in DOMAIN s : b[s[i].text] \in {"one", "many"} => a[s[i].text] \in {"one", "many"}
    BY <1>2, <1>3
  <2> QED
    BY <2>1 DEF Obeys, a
<1>9. GoesAlong(s, a, b, dropped)
  <2>1. ASSUME NEW i \in 1 .. Len(s), NEW n \in 1 .. Len(s), Owns(s, b, i, n)
        PROVE  Owns(s, a, i, n)
    <3>1. s[i].text = "--spec" /\ n = i + 1 /\ IsWord(s[n])
      BY <1>1, <1>2, <2>1 DEF Owns
    <3>2. \A k \in i + 1 .. n : IsWord(s[k])
      BY <3>1
    <3> QED
      BY <1>3, <2>1, <3>1, <3>2 DEF Owns
  <2>2. ASSUME NEW i \in 1 .. Len(s), NEW n \in 1 .. Len(s), Owns(s, a, i, n)
        PROVE  Owns(s, b, i, n) \/ (s[i] \in dropped <=> s[n] \in dropped)
    <3>1. CASE s[i].text = "--spec"
      <4>1. n = i + 1
        BY <1>1, <2>2, <3>1 DEF SpecOnce, a
      <4> QED
        BY <1>1, <1>2, <2>2, <3>1, <4>1 DEF Owns
    <3>2. CASE s[i].text # "--spec"
      BY <1>1, <1>6, <2>2, <3>2 DEF Owns
    <3> QED
      BY <3>1, <3>2
  <2> QED
    BY <2>1, <2>2 DEF GoesAlong
<1>10. p \in Seq(A) /\ Opts(p, a) = {o \in Opts(s, a) : o[1] \notin N}
  BY <1>1, <1>4, <1>5, <1>7, <1>8, <1>9, DropFree DEF a
<1>11. CypressWithoutSpec(s) = p
  BY DEF CypressWithoutSpec, p, dropped, b, N
<1> QED
  BY <1>10, <1>11 DEF A, a, N

(* What is left for the listing, which takes only the configuration.       *)
LEMMA ConfigurationLeft ==
  ASSUME NEW T, Written \subseteq T, NEW s \in Seq(Arguments(T)),
         Obeys(s, ArityOf("cypress", T)), AllOwned(s, ArityOf("cypress", T)),
         NEW args, ToSet(s) \subseteq ToSet(args)
  PROVE  LET a == ArityOf("cypress", T)
             g == Without(s, {x \in ToSet(args) : ~ Is(x, CypressConfiguration)}, SingleArities(args))
         IN  /\ g \in Seq(Arguments(T))
             /\ \A o \in Opts(s, a) : o[1] \in CypressConfiguration => o \in Opts(g, a)
<1> DEFINE A == Arguments(T)
           a == ArityOf("cypress", T)
           b == SingleArities(args)
           C == CypressConfiguration
           N == Texts(s) \ C
           dropped == {x \in ToSet(args) : ~ Is(x, C)}
           g == Without(s, dropped, b)
<1>1. DOMAIN s = 1 .. Len(s) /\ Len(s) \in Nat /\ s \in Seq(A)
  OBVIOUS
<1>13. \A i \in DOMAIN s : s[i] \in ToSet(args) /\ s[i].text \in Texts(args)
  BY DEF ToSet, Texts
<1>2. \A i \in DOMAIN s : b[s[i].text] = SingleArity(s[i].text)
  BY <1>13 DEF SingleArities
<1>3. \A i \in DOMAIN s : a[s[i].text] = IF s[i].text = "--spec" THEN "many" ELSE SingleArity(s[i].text)
  <2>1. \A i \in DOMAIN s : s[i] \in A
    BY <1>1
  <2> QED
    BY <2>1 DEF ArityOf, Takes, Arguments
<1>4. DropsFree(s, a, dropped)
  BY <1>13 DEF DropsFree, Is
<1>5. DropsNames(s, dropped, N)
  BY <1>13 DEF DropsNames, NotWords, Is, Texts
<1>6. \A i \in DOMAIN s : s[i] \in dropped <=> ~ (s[i].text \in C /\ ~ IsWord(s[i]))
  BY <1>13 DEF Is
<1>7. SingleArity("--spec") = "none" /\ "--spec" \notin C
  BY DEF SingleArity, CypressConfiguration
<1> HIDE DEF A, a, b, dropped, C
<1>8. Typed(s, b)
  <2>1. \A name : SingleArity(name) \in Kinds
    BY DEF SingleArity, Kinds
  <2> QED
    BY <1>2, <2>1 DEF Typed
<1>9. Obeys(s, b)
  <2>1. \A i \in DOMAIN s : b[s[i].text] \in {"one", "many"} => a[s[i].text] \in {"one", "many"}
    BY <1>2, <1>3
  <2> QED
    BY <2>1 DEF Obeys, a
<1>10. GoesAlong(s, a, b, dropped)
  <2>1. ASSUME NEW i \in 1 .. Len(s), NEW n \in 1 .. Len(s), Owns(s, b, i, n)
        PROVE  Owns(s, a, i, n)
    <3>1. s[i].text # "--spec"
      BY <1>1, <1>2, <1>7, <2>1 DEF Owns
    <3> QED
      BY <1>1, <1>2, <1>3, <2>1, <3>1 DEF Owns
  <2>2. ASSUME NEW i \in 1 .. Len(s), NEW n \in 1 .. Len(s), Owns(s, a, i, n)
        PROVE  Owns(s, b, i, n) \/ (s[i] \in dropped <=> s[n] \in dropped)
    <3>1. CASE s[i].text = "--spec"
      BY <1>1, <1>6, <1>7, <2>2, <3>1 DEF Owns
    <3>2. CASE s[i].text # "--spec"
      BY <1>1, <1>2, <1>3, <2>2, <3>2 DEF Owns
    <3> QED
      BY <3>1, <3>2
  <2> QED
    BY <2>1, <2>2 DEF GoesAlong
<1> HIDE DEF N
<1>11. g \in Seq(A) /\ Opts(g, a) = {o \in Opts(s, a) : o[1] \notin N}
  BY <1>1, <1>4, <1>5, <1>8, <1>9, <1>10, DropFree DEF a
<1>12. \A o \in Opts(s, a) : o[1] \in C => o \in Opts(g, a)
  BY <1>11 DEF N
<1> QED
  BY <1>11, <1>12 DEF A, a, b, C, dropped, g

LEMMA CypressKeeps ==
  ASSUME NEW T, Written \subseteq T, NEW args \in Seq(Arguments(T)),
         Understood("cypress", args), ~ ValueIsMistaken("cypress", args),
         NEW F, F \subseteq T, NEW files \in Seq(F)
  PROVE  RunKeeps("cypress", args, RunArgs("cypress", args, files)) /\ ListingKeeps("cypress", args)
<1> DEFINE A == Arguments(T)
           a == ArityOf("cypress", T)
           s == CypressWithoutSubcommand(args)
           p == CypressWithoutSpec(s)
           g == Without(s, {x \in ToSet(args) : ~ Is(x, CypressConfiguration)}, SingleArities(args))
           w == Words(files)
           r == <<Word("run")>> \o p
           e == <<Word("run")>> \o g
           sp == <<Option("--spec")>>
           y == sp \o w
           d == <<Option("--config-file"), Word("wrapper"), Option("--spec"), Word("missing")>>
           N == {"--spec"}
           X == Opts(y, a)
           run == r \o y
<1>1. /\ s \in Seq(A) /\ Obeys(s, a) /\ AllOwned(s, a) /\ SpecOnce(s, a)
      /\ Opts(s, a) = Opts(args, a) /\ ToSet(s) \subseteq ToSet(args)
  BY SubcommandGone
<1>2. args \in Seq(A) /\ Word("run") \in A /\ sp \in Seq(A) /\ Len(sp) = 1 /\ sp[1] = Option("--spec")
  <2>1. Word("run") \in A /\ Option("--spec") \in A
    BY WrittenArgs DEF Written, Mentioned
  <2> QED
    BY <2>1
<1>3. d \in Seq(A) /\ ~ IsWord(d[1])
  <2>1. /\ Option("--config-file") \in A /\ Word("wrapper") \in A
        /\ Option("--spec") \in A /\ Word("missing") \in A
    BY WrittenArgs DEF Written, Mentioned
  <2>2. d[1] = Option("--config-file")
    OBVIOUS
  <2> QED
    BY <2>1, <2>2 DEF Option, IsWord
<1>4. w \in Seq(A) /\ \A i \in DOMAIN w : IsWord(w[i])
  BY FileWords
<1> HIDE DEF s
<1>5. p \in Seq(A) /\ Opts(p, a) = {o \in Opts(s, a) : o[1] \notin N}
  BY <1>1, SpecDropped
<1>6. g \in Seq(A) /\ \A o \in Opts(s, a) : o[1] \in CypressConfiguration => o \in Opts(g, a)
  BY <1>1, ConfigurationLeft
<1> HIDE DEF A, a, p, g, w, sp, d, N
<1>7. /\ y \in Seq(A) /\ y[1] = Option("--spec")
      /\ \A k \in DOMAIN y : k = 1 \/ IsWord(y[k])
  <2>1. /\ sp \o w \in Seq(A)
        /\ \A i \in 1 .. Len(sp) : (sp \o w)[i] = sp[i]
        /\ \A i \in 1 .. Len(w) : (sp \o w)[Len(sp) + i] = w[i]
        /\ DOMAIN (sp \o w) = 1 .. Len(sp) + Len(w)
        /\ \A k \in 1 .. Len(sp) + Len(w) : k \in 1 .. Len(sp) \/ \E i \in 1 .. Len(w) : k = Len(sp) + i
    <3>1. sp \in Seq(A) /\ w \in Seq(A)
      BY <1>2, <1>4
    <3> QED
      BY <3>1, ConcatShape
  <2>2. DOMAIN w = 1 .. Len(w) /\ 1 \in 1 .. 1 /\ \A k \in 1 .. 1 : k = 1
    BY <1>4
  <2> QED
    BY <1>2, <1>4, <2>1, <2>2
<1> HIDE DEF y
<1>8. \A x \in X : x[1] = "--spec"
  BY <1>7 DEF Opts, NotWords, OptionAt, Option
<1>9. ~ IsWord(y[1])
  BY <1>7 DEF Option, IsWord
<1>10. r \in Seq(A) /\ Opts(r, a) = Opts(p, a)
  BY <1>2, <1>5, BehindFront
<1> HIDE DEF r, X
<1>11. run \in Seq(A) /\ Opts(run, a) = Opts(r, a) \cup X
  <2>1. Opts(r \o y, a) = Opts(r, a) \cup Opts(y, a)
    BY <1>7, <1>9, <1>10, FrontOption
  <2> QED
    BY <1>7, <1>10, <2>1 DEF X
<1>12. Replaced("cypress") = N
  BY DEF Replaced, N
<1>13. run \in Seq(A) /\ Extends("cypress", Opts(args, a), Opts(run, a), N, X)
  BY <1>1, <1>5, <1>8, <1>10, <1>11, <1>12 DEF N, Extends
<1> HIDE DEF run
<1>14. RunKeeps("cypress", args, run)
  BY <1>2, <1>13, RunOf DEF A, a
<1>15. RunArgs("cypress", args, files) = run
  <2>1. RunArgs("cypress", args, files) = (r \o sp) \o w
    BY DEF RunArgs, CypressRunArgs, r, p, s, sp, w
  <2>2. (r \o sp) \o w = r \o (sp \o w)
    BY <1>2, <1>4, <1>10
  <2> QED
    BY <2>1, <2>2 DEF run, y
<1>16. e \in Seq(A) /\ Opts(e, a) = Opts(g, a)
  BY <1>2, <1>6, BehindFront
<1> HIDE DEF e
<1>17. DiscoveryArgs("cypress", args) = e \o d
  <2>1. DiscoveryArgs("cypress", args) = CypressDiscoveryArgs(args)
    BY DEF DiscoveryArgs
  <2>2. CypressDiscoveryArgs(args) = <<Word("run")>> \o g \o d
    BY DEF CypressDiscoveryArgs, g, s, d
  <2> QED
    BY <2>1, <2>2 DEF e
<1>18. e \o d \in Seq(A) /\ \A o \in Opts(args, a) : o[1] \in CypressConfiguration => o \in Opts(e \o d, a)
  <2>1. Opts(e \o d, a) = Opts(e, a) \cup Opts(d, a)
    BY <1>3, <1>16, FrontOption
  <2> QED
    BY <1>1, <1>3, <1>6, <1>16, <2>1
<1>19. ListingKeeps("cypress", args)
  BY <1>17, <1>18, ListingOf DEF A, a, KeptForListing
<1> QED
  BY <1>14, <1>15, <1>19

-----------------------------------------------------------------------------
(* Every framework, and what the processes of a run are started with.      *)

(* An empty command has nothing to lose; neither has one that is passed on *)
(* as it is.                                                               *)
LEMMA SameKeeps ==
  ASSUME NEW f, NEW args
  PROVE  /\ RunKeeps(f, args, args)
         /\ f = "mocha" => ListingKeeps(f, args)
BY DEF RunKeeps, ListingKeeps, DiscoveryArgs

LEMMA RunKeepsOptions ==
  ASSUME NEW f \in {"jest", "rspec", "minitest", "pytest", "cucumber", "vitest", "playwright", "cypress"},
         NEW T, Written \subseteq T, NEW args \in Seq(Arguments(T)),
         Understood(f, args), ~ ValueIsMistaken(f, args), f = "pytest" => args = <<>>,
         NEW F, F \subseteq T, NEW files \in Seq(F)
  PROVE  /\ RunKeeps(f, args, RunArgs(f, args, files))
         /\ f \in JavaScript /\ ~ FileIsMistaken(f, args) => ListingKeeps(f, args)
<1>1. CASE f \in {"rspec", "minitest"}
  BY <1>1, RubyKeeps DEF Ruby, JavaScript
<1>2. CASE f = "pytest"
  BY <1>2, NothingToKeep DEF JavaScript
<1>3. CASE f = "jest"
  BY <1>3, JestKeeps
<1>4. CASE f = "cucumber"
  BY <1>4, CucumberKeeps
<1>5. CASE f = "vitest"
  BY <1>5, VitestKeeps
<1>6. CASE f = "playwright"
  BY <1>6, PlaywrightKeeps DEF JavaScript
<1>7. CASE f = "cypress"
  BY <1>7, CypressKeeps DEF JavaScript
<1> QED
  BY <1>1, <1>2, <1>3, <1>4, <1>5, <1>6, <1>7

(* Where nothing was written there is no file: what a worker reads out of  *)
(* the shared array may be what another one has put there, or nothing.     *)
Cells == Files \cup {"unused"}

HasCommand(w) ==
  IF ByEnvironment THEN given[w].args = override
  ELSE \E files \in Seq(Cells) : given[w].args = RunArgs(fw, override, files)

ArgsInv ==
  /\ override \in Commands \cup {<<>>} /\ (fw \in Python => override = <<>>)
  /\ spare \in 0 .. MaxSpare
  /\ cells \in [1 .. MaxSpare -> Cells] /\ written \in [Workers -> Nat]
  /\ \A w \in Workers : Started(w) => HasCommand(w)

LEMMA InitArgs == Init => ArgsInv
BY WorkerRunAssumption DEF Init, ArgsInv, Cells, Started

LEMMA HasCommandKept ==
  ASSUME NEW w \in Workers, fw' = fw, UNCHANGED inputs, given'[w] = given[w], HasCommand(w)
  PROVE  HasCommand(w)'
BY DEF HasCommand, ByEnvironment, inputs

(* Steps that start no process and write no file.                          *)
LEMMA ArgsKept ==
  ASSUME ArgsInv, fw' = fw, UNCHANGED <<inputs, cells, written, given>>,
         \A w \in Workers : Started(w)' => Started(w)
  PROVE  ArgsInv'
<1>1. \A w \in Workers : Started(w)' => HasCommand(w)'
  BY HasCommandKept DEF ArgsInv
<1> QED
  BY <1>1 DEF ArgsInv, inputs

LEMMA RunListedArgs == RunInv /\ ArgsInv /\ RunListed => ArgsInv'
<1> SUFFICES ASSUME RunInv, ArgsInv, RunListed PROVE ArgsInv'
  OBVIOUS
<1>1. fw' = fw /\ UNCHANGED <<cells, written, given, child>>
  BY DEF RunListed, Settings, argvars
<1>2. \A w \in Workers : ~ Started(w)'
  BY <1>1 DEF RunListed, RunInv, WorkInv, Idle, Started
<1>3. override' \in Commands \cup {<<>>} /\ (fw \in Python => override' = <<>>)
  BY DEF RunListed, ChooseInputs
<1>4. spare' \in 0 .. MaxSpare
  <2>1. 0 \in 0 .. MaxSpare
    BY WorkerRunAssumption
  <2> QED
    BY <2>1 DEF RunListed, ChooseInputs
<1> QED
  BY <1>1, <1>2, <1>3, <1>4 DEF ArgsInv, Cells

LEMMA WriteCellArgs ==
  ASSUME ArgsInv, InputInv, NEW w \in Workers, WriteCell(w)
  PROVE  ArgsInv'
<1>1. fw' = fw /\ UNCHANGED <<inputs, given, child>>
  BY DEF WriteCell, lvars
<1>2. written[w] \in Nat /\ written[w] < Len(batch[w]) /\ batch[w] \in Seq(Files)
  BY DEF WriteCell, ArgsInv, InputInv, Batches
<1> DEFINE k == written[w] + 1
<1>3. k \in 1 .. Len(batch[w])
  BY <1>2
<1>4. batch[w][k] \in Cells
  BY <1>2, <1>3 DEF Cells
<1>5. written' = [written EXCEPT ![w] = k] /\ written' \in [Workers -> Nat] /\ written'[w] = k
  BY <1>2 DEF WriteCell, ArgsInv
<1>6. cells' = [cells EXCEPT ![k] = batch[w][k]]
  BY <1>5 DEF WriteCell
<1> HIDE DEF k
<1>7. cells' \in [1 .. MaxSpare -> Cells]
  BY <1>4, <1>6 DEF ArgsInv
<1>8. \A u \in Workers : Started(u)' => HasCommand(u)'
  BY <1>1, HasCommandKept DEF ArgsInv, Started
<1> QED
  BY <1>1, <1>5, <1>7, <1>8 DEF ArgsInv, inputs, Cells

LEMMA StartArgs ==
  ASSUME ArgsInv, InputInv, NEW w \in Workers, StartProcess(w)
  PROVE  ArgsInv'
<1>1. UNCHANGED <<lvars, inputs, cells, written>> /\ fw' = fw
  BY DEF StartProcess, lvars
<1>2. CASE UNCHANGED <<given, child>>
  BY <1>1, <1>2, ArgsKept DEF Started
<1>3. CASE given' = [given EXCEPT ![w] = Given(w)] /\ child' = [child EXCEPT ![w] = "running"]
  <2>1. given'[w] = Given(w) /\ \A u \in Workers : u # w => given'[u] = given[u]
    BY <1>3 DEF InputInv
  <2> DEFINE files == IF Shared(w) THEN SubSeq(cells, 1, Len(batch[w])) ELSE batch[w]
  <2>2. batch[w] \in Seq(Files) /\ Len(batch[w]) \in Nat
    BY DEF InputInv, Batches
  <2>3. files \in Seq(Cells)
    <3>1. CASE Shared(w)
      <4>1. Len(batch[w]) <= MaxSpare
        BY <2>2, <3>1, WorkerRunAssumption DEF ArgsInv, Shared, SharedByRSpec, SharedByRails
      <4>2. /\ files = [i \in 1 .. Len(batch[w]) |-> cells[i]]
        <5>1. SubSeq(cells, 1, Len(batch[w])) = [i \in 1 .. (1 + Len(batch[w])) - 1 |-> cells[(i + 1) - 1]]
          BY DEF SubSeq
        <5> QED
          BY <2>2, <3>1, <5>1
      <4>3. \A i \in 1 .. Len(batch[w]) : cells[i] \in Cells
        BY <2>2, <4>1, WorkerRunAssumption DEF ArgsInv
      <4> QED
        BY <2>2, <4>2, <4>3
    <3>2. CASE ~ Shared(w)
      BY <2>2, <3>2 DEF Cells
    <3> QED
      BY <3>1, <3>2
  <2> DEFINE a == IF ByEnvironment THEN override ELSE RunArgs(fw, override, files)
             t == IF ByEnvironment THEN ToSet(files) ELSE {}
             o == IF fw \in JavaScript
                  THEN WorkerOptions(fw, nodeOptions, workerEnv) \o LoadedLast ELSE <<>>
  <2>4. Given(w) = [args |-> a, testFiles |-> t, options |-> o]
    BY DEF Given, LoadedLast
  <2> HIDE DEF files
  <2>5. /\ ByEnvironment => a = override
        /\ ~ ByEnvironment => a = RunArgs(fw, override, files)
    OBVIOUS
  <2> HIDE DEF a, t, o
  <2>6. given'[w].args = a
    BY <2>1, <2>4
  <2>7. HasCommand(w)'
    <3>1. IF ByEnvironment THEN given'[w].args = override
          ELSE \E fs \in Seq(Cells) : given'[w].args = RunArgs(fw, override, fs)
      BY <2>3, <2>5, <2>6
    <3> QED
      BY <1>1, <3>1 DEF HasCommand, ByEnvironment, Cells, inputs
  <2>8. ASSUME NEW u \in Workers, u # w, Started(u)' PROVE HasCommand(u)'
    <3>1. HasCommand(u)
      BY <1>3, <2>8 DEF Started, ArgsInv
    <3> QED
      BY <1>1, <2>1, <2>8, <3>1, HasCommandKept
  <2> QED
    BY <1>1, <2>7, <2>8 DEF ArgsInv, inputs, Cells
<1> QED
  BY <1>2, <1>3 DEF StartProcess

LEMMA NextArgs == WholeRunInv /\ ArgsInv /\ [Next]_vars => ArgsInv'
<1> SUFFICES ASSUME WholeRunInv, ArgsInv, [Next]_vars PROVE ArgsInv'
  OBVIOUS
<1> USE DEF WholeRunInv
<1>1. CASE ListNext /\ UNCHANGED wvars
  <2>1. fw' = fw
    BY <1>1 DEF ListNext, SanityCheck, RunTagScript, ReadTags, DetectFramework, ResolveTestFiles,
       ListWithoutFramework, AskFramework, Prepare, Command, PlaywrightFindsNone, VitestRefuses,
       ReadAnswer, VitestFallback, Filter, StartFull, DryRun, ParseReport, Settings
  <2>2. UNCHANGED <<inputs, cells, written, given, child>>
    BY <1>1 DEF wvars, argvars
  <2> QED
    BY <2>1, <2>2, ArgsKept DEF Started
<1>2. CASE RunListed
  BY <1>2, RunListedArgs
<1>3. ASSUME NEW w \in Workers, WriteCell(w) \/ StartProcess(w)
      PROVE  ArgsInv'
  BY <1>3, WriteCellArgs, StartArgs DEF GivenInv
<1>4. ASSUME NEW w \in Workers, ChildEnds(w)
      PROVE  ArgsInv'
  <2>1. \A u \in Workers : Started(u)' => Started(u)
    BY <1>4 DEF ChildEnds, Started, RunInv, WorkInv
  <2>2. fw' = fw /\ UNCHANGED <<inputs, cells, written, given>>
    BY <1>4 DEF ChildEnds, lvars, argvars
  <2> QED
    BY <2>1, <2>2, ArgsKept
<1>5. CASE \/ \E w \in Workers : Notify(w) \/ Forward(w) \/ ReturnFromRun(w)
           \/ \E kind \in SignalKinds : Signal(kind)
           \/ HandlerExits \/ UNCHANGED vars
  <2>1. fw' = fw /\ UNCHANGED <<inputs, cells, written, given, child>>
    BY <1>5 DEF Notify, Forward, ReturnFromRun, Signal, SignalReaches, HandlerExits, vars, lvars,
       wvars, argvars
  <2> QED
    BY <2>1, ArgsKept DEF Started
<1> QED
  BY <1>1, <1>2, <1>3, <1>4, <1>5 DEF Next

(* RunTests and the discovery of every adapter, for any command: unless a  *)
(* value is taken for an executable or a subcommand, its options keep      *)
(* their values on the way to the worker's process, and, unless a file is  *)
(* taken for a value, on the way to the process that lists the files,      *)
(* whatever the array they are stored in holds behind them.                *)
THEOREM OptionsKept == Spec => []OptionsAreKept
<1>1. ASSUME WholeRunInv, ArgsInv, NEW w \in Workers, Started(w), ~ ValueIsMistaken(fw, override)
      PROVE  /\ RunKeeps(fw, override, given[w].args)
             /\ fw \in JavaScript /\ ~ FileIsMistaken(fw, override) => ListingKeeps(fw, override)
  <2>1. InputInv /\ HasCommand(w)
    BY <1>1 DEF WholeRunInv, GivenInv, ArgsInv
  <2>2. fw \in {"jest", "rspec", "minitest", "pytest", "cucumber", "vitest", "playwright", "cypress", "mocha"}
    BY <1>1 DEF WholeRunInv, FoundInv, Walkers, Ruby, Python, JavaScript
  <2>3. CASE ByEnvironment
    BY <2>1, <2>3, SameKeeps DEF HasCommand, ByEnvironment, JavaScript
  <2>4. CASE ~ ByEnvironment
    <3>1. PICK files \in Seq(Cells) : given[w].args = RunArgs(fw, override, files)
      BY <2>1, <2>4 DEF HasCommand
    <3> DEFINE T == Texts(override) \cup Cells \cup Written
    <3>2. override \in Seq(Arguments(T))
      <4>1. Arguments(Texts(override)) \subseteq Arguments(T)
        BY DEF Arguments
      <4>2. override \in Seq(Arguments(Texts(override)))
        BY <2>1 DEF InputInv
      <4> HIDE DEF T
      <4>3. \A i \in 1 .. Len(override) : override[i] \in Arguments(T)
        BY <4>1, <4>2
      <4>4. DOMAIN override = 1 .. Len(override) /\ Len(override) \in Nat
        BY <4>2
      <4> QED
        BY <4>2, <4>3, <4>4
    <3>4. fw = "pytest" => override = <<>>
      BY <1>1 DEF ArgsInv, Python
    <3>5. Cells \subseteq T /\ Written \subseteq T
      OBVIOUS
    <3>6. fw # "mocha"
      BY <2>4 DEF ByEnvironment
    <3>7. Understood(fw, override)
      BY <2>1 DEF InputInv
    <3> HIDE DEF T
    <3>8. /\ RunKeeps(fw, override, RunArgs(fw, override, files))
          /\ fw \in JavaScript /\ ~ FileIsMistaken(fw, override) => ListingKeeps(fw, override)
      BY <1>1, <2>2, <3>2, <3>4, <3>5, <3>6, <3>7, RunKeepsOptions
    <3> QED
      BY <3>1, <3>8
  <2> QED
    BY <2>3, <2>4
<1>2. WholeRunInv /\ ArgsInv => OptionsAreKept
  BY <1>1 DEF OptionsAreKept, RunKeeps, ListingKeeps
<1>3. Spec => []ArgsInv
  BY WholeRunInvariant, InitArgs, NextArgs, PTL DEF Spec
<1> QED
  BY <1>2, <1>3, WholeRunInvariant, PTL

-----------------------------------------------------------------------------
(* Types.                                                                  *)

Steps ==
  {"sanity", "tags", "readTags", "framework", "resolve", "discover", "prepare", "command",
   "answer", "nodeAPI", "filter", "dryRun", "parse", "done"}

(* What FoundInv does not say of the discovery.                            *)
StepsInv ==
  /\ platform \in {"ruby", "python", "javascript"}
  /\ step \in Steps /\ temps \subseteq {"tags", "adapter"}
  /\ report \in {"absent", "stale", "fresh", "torn"}
  /\ outcome \in {"none", "ok", "error"}

SettingsInv ==
  /\ location \in BOOLEAN /\ exclude \in BOOLEAN /\ full \in BOOLEAN
  /\ direct \in BOOLEAN /\ removable \in BOOLEAN /\ lists \in BOOLEAN

AnswerInv == explicit \in BOOLEAN

DiscoveryTypeInv == StepsInv /\ SettingsInv /\ AnswerInv

LEMMA StepsStep == StepsInv /\ ListNext => StepsInv'
<1> SUFFICES ASSUME StepsInv, ListNext PROVE StepsInv'
  OBVIOUS
<1> USE DEF StepsInv, Steps, Settings, Goto, Fail, Return, Answer, Remaining
<1>1. CASE SanityCheck \/ RunTagScript \/ ReadTags \/ DetectFramework
  BY <1>1 DEF SanityCheck, RunTagScript, ReadTags, DetectFramework
<1>2. CASE ResolveTestFiles
  BY <1>2 DEF ResolveTestFiles
<1>3. CASE ListWithoutFramework \/ AskFramework \/ Prepare
  BY <1>3 DEF ListWithoutFramework, AskFramework, Prepare
<1>4. CASE Command \/ PlaywrightFindsNone \/ VitestRefuses \/ ReadAnswer
  BY <1>4 DEF Command, PlaywrightFindsNone, VitestRefuses, ReadAnswer
<1>5. CASE VitestFallback \/ Filter
  BY <1>5 DEF VitestFallback, Filter
<1>6. CASE StartFull
  BY <1>6 DEF StartFull
<1>7. CASE DryRun \/ ParseReport
  BY <1>7 DEF DryRun, ParseReport
<1> QED
  BY <1>1, <1>2, <1>3, <1>4, <1>5, <1>6, <1>7 DEF ListNext

LEMMA SettingsKept == SettingsInv /\ UNCHANGED Settings => SettingsInv'
BY Zenon DEF SettingsInv, Settings

LEMMA AnswerStep == SettingsInv /\ AnswerInv /\ ListNext => UNCHANGED Settings /\ AnswerInv'
<1> SUFFICES ASSUME SettingsInv, AnswerInv, ListNext PROVE UNCHANGED Settings /\ AnswerInv'
  OBVIOUS
<1>1. UNCHANGED Settings
  BY DEF ListNext, SanityCheck, RunTagScript, ReadTags, DetectFramework, ResolveTestFiles,
     ListWithoutFramework, AskFramework, Prepare, Command, PlaywrightFindsNone, VitestRefuses,
     ReadAnswer, VitestFallback, Filter, StartFull, DryRun, ParseReport
<1>2. ASSUME UNCHANGED Selected PROVE explicit' = explicit
  BY <1>2 DEF Selected
<1>3. explicit' \in BOOLEAN
  <2>1. CASE ResolveTestFiles
    <3>1. explicit' = explicit \/ \E t : Select(t)
      BY <2>1 DEF ResolveTestFiles
    <3>2. ASSUME NEW t, Select(t) PROVE explicit' \in BOOLEAN
      BY <3>2 DEF Select
    <3> QED
      BY <3>1, <3>2 DEF AnswerInv
  <2>2. CASE ~ ResolveTestFiles
    <3>1. UNCHANGED Selected
      BY <2>2 DEF ListNext, SanityCheck, RunTagScript, ReadTags, DetectFramework,
         ListWithoutFramework, AskFramework, Prepare, Command, PlaywrightFindsNone,
         VitestRefuses, ReadAnswer, VitestFallback, Filter, StartFull, DryRun, ParseReport
    <3> QED
      BY <1>2, <3>1 DEF AnswerInv
  <2> QED
    BY <2>1, <2>2
<1> QED
  BY <1>1, <1>3 DEF AnswerInv

LEMMA DiscoveryTypeStep == DiscoveryTypeInv /\ ListNext => DiscoveryTypeInv'
BY StepsStep, SettingsKept, AnswerStep DEF DiscoveryTypeInv

LEMMA DiscoveryTypeKept == DiscoveryTypeInv /\ UNCHANGED lvars => DiscoveryTypeInv'
<1> SUFFICES ASSUME DiscoveryTypeInv, UNCHANGED lvars PROVE DiscoveryTypeInv'
  OBVIOUS
<1>1. UNCHANGED Settings /\ UNCHANGED <<step, explicit, temps, report, outcome>>
  BY DEF lvars, Settings
<1>2. platform' = platform
  BY <1>1 DEF Settings
<1>3. StepsInv' /\ AnswerInv'
  BY <1>1, <1>2 DEF DiscoveryTypeInv, StepsInv, AnswerInv
<1> QED
  BY <1>1, <1>3, SettingsKept DEF DiscoveryTypeInv

(* What WorkInv does not say of the workers.                               *)
BoundsInv ==
  /\ spare \in 0 .. MaxSpare /\ written \in [Workers -> 0 .. Cardinality(Files)]
  /\ scripts \subseteq Workers /\ signals \in 0 .. MaxSignals

SwitchesInv ==
  rails \in BOOLEAN /\ handler \in BOOLEAN /\ exiting \in BOOLEAN /\ gone \in BOOLEAN

LEMMA InitTypes == Init => DiscoveryTypeInv /\ BoundsInv /\ SwitchesInv
<1> SUFFICES ASSUME Init PROVE DiscoveryTypeInv /\ BoundsInv /\ SwitchesInv
  OBVIOUS
<1>1. StepsInv
  BY DEF Init, ListInit, StepsInv, Steps
<1>2. SettingsInv
  BY Zenon DEF Init, ListInit, SettingsInv
<1>3. AnswerInv /\ SwitchesInv
  BY DEF Init, ListInit, AnswerInv, SwitchesInv
<1>4. Cardinality(Files) \in Nat
  BY TestFilesAssumption, FS_CardinalityType
<1>5. 0 \in 0 .. MaxSpare /\ 0 \in 0 .. MaxSignals /\ 0 \in 0 .. Cardinality(Files)
  BY <1>4, WorkerRunAssumption
<1>6. BoundsInv
  BY <1>5 DEF Init, BoundsInv
<1> QED
  BY <1>1, <1>2, <1>3, <1>6 DEF DiscoveryTypeInv

LEMMA BoundsStep == WholeRunInv /\ BoundsInv /\ [Next]_vars => BoundsInv'
<1> SUFFICES ASSUME WholeRunInv, BoundsInv, [Next]_vars PROVE BoundsInv'
  OBVIOUS
<1> USE DEF BoundsInv
<1>1. CASE UNCHANGED wvars \/ UNCHANGED vars \/ HandlerExits
  BY <1>1 DEF vars, wvars, inputs, argvars, sigvars, HandlerExits
<1>2. CASE RunListed
  <2>1. spare' \in 0 .. MaxSpare
    <3>1. ChooseInputs
      BY <1>2 DEF RunListed
    <3>2. spare' \in IF fw \in Ruby THEN 0 .. MaxSpare ELSE {0}
      BY Zenon, <3>1 DEF ChooseInputs
    <3> QED
      BY <3>2, WorkerRunAssumption
  <2> QED
    BY <1>2, <2>1 DEF RunListed, argvars, sigvars
<1>3. ASSUME NEW w \in Workers, WriteCell(w) PROVE BoundsInv'
  <2>1. /\ written[w] < Len(batch[w]) /\ written' = [written EXCEPT ![w] = @ + 1]
        /\ UNCHANGED <<inputs, scripts, sigvars>>
    BY <1>3 DEF WriteCell
  <2>2. Len(batch[w]) \in Nat /\ Len(batch[w]) <= Cardinality(Files)
    BY <1>3 DEF WholeRunInv, GivenInv, InputInv, Batches
  <2>3. Cardinality(Files) \in Nat
    BY TestFilesAssumption, FS_CardinalityType
  <2>4. written[w] + 1 \in 0 .. Cardinality(Files)
    BY <2>1, <2>2, <2>3
  <2>5. written' \in [Workers -> 0 .. Cardinality(Files)]
    BY <2>1, <2>3, <2>4
  <2> QED
    BY <2>1, <2>5 DEF inputs, sigvars
<1>4. ASSUME NEW w \in Workers,
             StartProcess(w) \/ Notify(w) \/ Forward(w) \/ ChildEnds(w) \/ ReturnFromRun(w)
      PROVE  BoundsInv'
  BY <1>4 DEF StartProcess, Notify, Forward, ChildEnds, ReturnFromRun, inputs, argvars, sigvars
<1>5. ASSUME NEW kind, Signal(kind) PROVE BoundsInv'
  <2>1. signals < MaxSignals /\ signals' = signals + 1 /\ UNCHANGED <<inputs, argvars>>
    BY <1>5 DEF Signal, SignalReaches
  <2>2. signals' \in 0 .. MaxSignals
    BY <2>1, WorkerRunAssumption
  <2> QED
    BY <2>1, <2>2 DEF inputs, argvars
<1> QED
  BY <1>1, <1>2, <1>3, <1>4, <1>5 DEF Next

LEMMA SwitchesStep == SwitchesInv /\ [Next]_vars => SwitchesInv'
<1> SUFFICES ASSUME SwitchesInv, [Next]_vars PROVE SwitchesInv'
  OBVIOUS
<1>1. CASE UNCHANGED <<rails, handler, exiting, gone>>
  BY <1>1 DEF SwitchesInv
<1>2. CASE UNCHANGED wvars \/ UNCHANGED vars
  BY <1>1, <1>2 DEF vars, wvars, inputs, sigvars
<1>3. CASE RunListed
  <2>1. rails' \in BOOLEAN /\ handler' \in BOOLEAN
    <3>1. ChooseInputs
      BY <1>3 DEF RunListed
    <3>2. rails' \in RailsFound /\ handler' \in BOOLEAN
      BY Zenon, <3>1 DEF ChooseInputs
    <3>3. RailsFound \subseteq BOOLEAN
      BY DEF RailsFound
    <3> QED
      BY <3>2, <3>3
  <2>2. UNCHANGED <<exiting, gone>>
    BY <1>3 DEF RunListed, sigvars
  <2> QED
    BY <2>1, <2>2 DEF SwitchesInv
<1>4. ASSUME NEW w \in Workers,
             \/ WriteCell(w) \/ StartProcess(w) \/ Notify(w)
             \/ Forward(w) \/ ChildEnds(w) \/ ReturnFromRun(w)
      PROVE  SwitchesInv'
  <2>1. UNCHANGED <<rails, handler, exiting, gone>>
    BY <1>4 DEF WriteCell, StartProcess, Notify, Forward, ChildEnds, ReturnFromRun, inputs, sigvars
  <2> QED
    BY <1>1, <2>1
<1>5. ASSUME NEW kind, Signal(kind) PROVE SwitchesInv'
  <2>1. UNCHANGED <<rails, handler>>
    BY <1>5 DEF Signal, SignalReaches, inputs
  <2>2. exiting' \in BOOLEAN /\ gone' \in BOOLEAN
    BY <1>5 DEF Signal, SignalReaches
  <2> QED
    BY <2>1, <2>2 DEF SwitchesInv
<1>6. CASE HandlerExits
  <2>1. UNCHANGED <<rails, handler, exiting>> /\ gone' = TRUE
    BY <1>6 DEF HandlerExits, inputs
  <2> QED
    BY <2>1 DEF SwitchesInv
<1> QED
  BY <1>2, <1>3, <1>4, <1>5, <1>6 DEF Next

LEMMA NextDiscoveryType == DiscoveryTypeInv /\ [Next]_vars => DiscoveryTypeInv'
<1> SUFFICES ASSUME DiscoveryTypeInv, [Next]_vars PROVE DiscoveryTypeInv'
  OBVIOUS
<1>1. CASE RunListed
  <2>1. /\ UNCHANGED Settings /\ UNCHANGED <<step, temps, report>>
        /\ outcome' = "none" /\ explicit' = FALSE
    BY <1>1 DEF RunListed
  <2>2. platform' = platform
    BY <2>1 DEF Settings
  <2>3. StepsInv'
    BY <2>1, <2>2 DEF DiscoveryTypeInv, StepsInv
  <2>4. AnswerInv'
    BY <2>1 DEF AnswerInv
  <2> QED
    BY <2>1, <2>3, <2>4, SettingsKept DEF DiscoveryTypeInv
<1>2. CASE ListNext
  BY <1>2, DiscoveryTypeStep
<1>3. CASE ~ ListNext /\ ~ RunListed
  <2>1. UNCHANGED lvars
    BY <1>3 DEF Next, vars, WriteCell, StartProcess, Notify, Forward, ChildEnds, ReturnFromRun,
       Signal, SignalReaches, HandlerExits
  <2> QED
    BY <2>1, DiscoveryTypeKept
<1> QED
  BY <1>1, <1>2, <1>3

(* Everything of the discovery and of the workers has its type; no worker  *)
(* writes more than its batch behind the shared command.                   *)
THEOREM TypeCorrect == Spec => []TypeOK
<1>1. WholeRunInv /\ DiscoveryTypeInv /\ BoundsInv /\ SwitchesInv => TypeOK
  <2> SUFFICES ASSUME WholeRunInv, DiscoveryTypeInv, BoundsInv, SwitchesInv PROVE TypeOK
    OBVIOUS
  <2>1. ListTypeOK
    <3>1. /\ platform \in {"ruby", "python", "javascript"} /\ step \in Steps
          /\ temps \subseteq {"tags", "adapter"}
          /\ report \in {"absent", "stale", "fresh", "torn"}
          /\ outcome \in {"none", "ok", "error"}
      BY DEF DiscoveryTypeInv, StepsInv
    <3>2. /\ location \in BOOLEAN /\ exclude \in BOOLEAN /\ full \in BOOLEAN
          /\ direct \in BOOLEAN /\ removable \in BOOLEAN /\ lists \in BOOLEAN
          /\ explicit \in BOOLEAN
      BY DEF DiscoveryTypeInv, SettingsInv, AnswerInv
    <3>3. /\ fw \in Walkers \cup JavaScript /\ tree \in Trees
          /\ selection \subseteq Files /\ listed \subseteq Files
      BY DEF WholeRunInv, FoundInv
    <3> QED
      BY Zenon, <3>1, <3>2, <3>3 DEF ListTypeOK, Steps
  <2>2. WorkInv
    BY DEF WholeRunInv, RunInv
  <2>3. /\ pending \in [Workers -> SignalKinds \cup {"none"}]
        /\ sent \in [Workers -> Seq(SignalKinds)] /\ passed \in [Workers -> Seq(SignalKinds)]
    BY DEF WholeRunInv, RunInv, SignalInv
  <2>4. rails \in BOOLEAN /\ handler \in BOOLEAN /\ exiting \in BOOLEAN /\ gone \in BOOLEAN
    BY DEF SwitchesInv
  <2>5. /\ pc \in [Workers -> {"none", "building", "failed", "started", "watching", "ended"}]
        /\ child \in [Workers -> {"none", "running", "ended"}]
    BY <2>2 DEF WorkInv, Idle
  <2> QED
    BY Zenon, <2>1, <2>3, <2>4, <2>5 DEF TypeOK, BoundsInv
<1>2. WholeRunInv /\ DiscoveryTypeInv /\ BoundsInv /\ SwitchesInv /\ [Next]_vars
        => (DiscoveryTypeInv /\ BoundsInv /\ SwitchesInv)'
  BY NextDiscoveryType, BoundsStep, SwitchesStep
<1> QED
  BY <1>1, <1>2, WholeRunInvariant, InitTypes, PTL DEF Spec
=============================================================================
