----------------------------- MODULE CommProofs -----------------------------
(***************************************************************************)
(* Proofs about the communication object (communication_object_2.hpp), for *)
(* any patterns, fields, objects and threads whose programs fit            *)
(* (ProgramsFit): CommInv is inductive; it says of every channel of MPI    *)
(* that the receives and the messages it holds are those of the same calls *)
(* in the same order.  From it follow MessagesMatch, HaloFresh, TypeOK and *)
(* that every step is one of HaloExchange or changes nothing there.        *)
(***************************************************************************)
EXTENDS CommObject, FiniteSetTheorems, SequenceTheorems, NaturalsInduction,
        WellFoundedInduction, TLAPS

----------------------------------------------------------------------------
(***************************************************************************)
(* Numbers and recursive functions.                                        *)
(***************************************************************************)

LEMMA LeastNumber ==
  ASSUME NEW S \in SUBSET Nat, S # {}
  PROVE  \E k \in S : \A n \in S : k <= n
<1> DEFINE R == {ss \in Nat \X Nat : ss[1] < ss[2]}
<1>1. IsWellFoundedOn(R, Nat)
  BY NatLessThanWellFounded, Zenon DEF OpToRel
<1>2. PICK k \in S : \A n \in S : ~(<<n, k>> \in R)
  <2> HIDE DEF R
  <2> QED
    BY <1>1, WFMin
<1>3. \A n \in S : ~(n < k)
  BY <1>2
<1> QED
  BY <1>3

\* Induction up to a number, over a set.
LEMMA InductionUpTo ==
  ASSUME NEW N \in Nat, NEW S, 0 \in S, \A n \in 0 .. N : n \in S /\ n < N => n + 1 \in S
  PROVE  \A n \in 0 .. N : n \in S
<1>1. SUFFICES ASSUME NEW n \in 0 .. N, n \notin S PROVE FALSE
  OBVIOUS
<1>2. PICK T : T = {m \in 0 .. N : m \notin S}
  OBVIOUS
<1>3. PICK k \in T : \A m \in T : k <= m
  BY <1>1, <1>2, LeastNumber
<1>4. k \in 0 .. N /\ k \notin S /\ k # 0
  BY <1>2, <1>3
<1>5. PICK m \in 0 .. N : m + 1 = k
  BY <1>4
<1>6. m < k /\ m \notin T
  BY <1>3, <1>4, <1>5
<1> QED
  BY <1>2, <1>4, <1>5, <1>6

\* What is done to the value at each number.
Steps(N, S) == [1 .. N -> [S -> S]]
Iterates(g, N, S, base, step) ==
  g \in [0 .. N -> S] /\ g[0] = base /\ \A j \in 1 .. N : g[j] = step[j][g[j - 1]]

\* A value and a step determine a function on 0 .. N.
LEMMA Recursion ==
  ASSUME NEW N \in Nat, NEW S, NEW base \in S, NEW step \in Steps(N, S)
  PROVE  \E g : Iterates(g, N, S, base, step)
<1> DEFINE Solves(g, m) == g[0] = base /\ \A j \in 1 .. m : g[j] = step[j][g[j - 1]]
<1>1. PICK T : T = {m \in 0 .. N : \E g \in [0 .. m -> S] : Solves(g, m)}
  OBVIOUS
<1>2. 0 \in T
  <2>1. PICK g : g = [j \in 0 .. 0 |-> base]
    OBVIOUS
  <2>2. g \in [0 .. 0 -> S] /\ g[0] = base /\ 1 .. 0 = {}
    BY <2>1
  <2> QED
    BY <1>1, <2>2
<1>3. ASSUME NEW m \in 0 .. N, m \in T, m < N PROVE m + 1 \in T
  <2>1. PICK g \in [0 .. m -> S] : Solves(g, m)
    BY <1>1, <1>3
  <2>2. PICK h : h = [j \in 0 .. m + 1 |-> IF j = m + 1 THEN step[m + 1][g[m]] ELSE g[j]]
    OBVIOUS
  <2>3. m + 1 \in 1 .. N /\ m \in 0 .. m
    BY <1>3
  <2>4. step[m + 1][g[m]] \in S
    <3>1. g[m] \in S
      BY <2>1, <2>3
    <3>2. step[m + 1] \in [S -> S]
      BY <2>3 DEF Steps
    <3> QED
      BY <3>1, <3>2
  <2>5. h \in [0 .. m + 1 -> S]
    BY <2>2, <2>4
  <2>6. \A j \in 1 .. m + 1 : h[j] = step[j][h[j - 1]]
    <3>1. TAKE j \in 1 .. m + 1
    <3>2. CASE j = m + 1
      <4>1. j \in 0 .. m + 1 /\ m \in 0 .. m + 1 /\ j - 1 = m /\ m # m + 1
        BY <3>2, <1>3
      <4>2. h[j] = step[m + 1][g[m]] /\ h[m] = g[m]
        BY <3>2, <4>1, <2>2
      <4> QED
        BY <3>2, <4>1, <4>2
    <3>3. CASE j \in 1 .. m
      <4>1. h[j] = g[j] /\ h[j - 1] = g[j - 1]
        BY <3>3, <2>2
      <4> QED
        BY <4>1, <3>3, <2>1
    <3> QED
      BY <3>2, <3>3
  <2>7. h[0] = base
    BY <2>1, <2>2
  <2>8. Solves(h, m + 1) /\ m + 1 \in 0 .. N
    BY <2>6, <2>7, <2>3
  <2> HIDE DEF Solves
  <2> QED
    BY <2>5, <2>8, <1>1
<1>4. N \in T
  <2>1. \A n \in 0 .. N : n \in T /\ n < N => n + 1 \in T
    BY <1>3
  <2>2. \A n \in 0 .. N : n \in T
    BY <1>2, <2>1, InductionUpTo
  <2> QED
    BY <2>2
<1> QED
  BY <1>4, <1>1 DEF Iterates

----------------------------------------------------------------------------
(***************************************************************************)
(* Pairs, instances and calls.                                             *)
(***************************************************************************)

LEMMA PairTypes ==
  ASSUME NEW p \in Pairs
  PROVE  /\ p[1] \in Domains /\ p[2] \in Domains /\ p = <<p[1], p[2]>>
         /\ Receiver(p) \in Threads /\ Sender(p) \in Threads
<1>1. p \in Domains \X Domains
  BY TypeAssumption DEF TypeAssumption, Pairs
<1>2. p[1] \in Domains /\ p[2] \in Domains /\ p = <<p[1], p[2]>>
  BY <1>1
<1> QED
  BY <1>2, TypeAssumption DEF TypeAssumption, Receiver, Sender

LEMMA InstanceTypes ==
  ASSUME NEW i \in Instances
  PROVE  /\ i[1] \in Fields /\ i[2] \in Domains /\ i = <<i[1], i[2]>>
         /\ PatternOf[i[1]] \in Patterns /\ OwnerOf[i[2]] \in Threads
<1>1. i \in Fields \X Domains
  BY DEF Instances
<1>2. i[1] \in Fields /\ i[2] \in Domains /\ i = <<i[1], i[2]>>
  BY <1>1
<1> QED
  BY <1>2, TypeAssumption DEF TypeAssumption

LEMMA HalosArePairs ==
  ASSUME NEW f \in Fields, NEW p \in HalosOf[PatternOf[f]]
  PROVE  p \in Pairs /\ <<f, p[1]>> \in Instances /\ <<f, p[2]>> \in Instances
<1>1. p \in Pairs
  BY TypeAssumption DEF TypeAssumption, Pairs
<1>2. p[1] \in Domains /\ p[2] \in Domains
  BY <1>1, PairTypes
<1>3. \A d \in {p[1], p[2]} : <<f, d>> \in Instances
  <2>1. TAKE d \in {p[1], p[2]}
  <2>2. PICK i : i = <<f, d>>
    OBVIOUS
  <2>3. i \in Fields \X Domains /\ i[1] = f /\ i[2] \in {p[1], p[2]}
    BY <2>2, <1>2
  <2>4. i \in Instances
    BY <2>3 DEF Instances
  <2> QED
    BY <2>2, <2>4
<1> QED
  BY <1>1, <1>3

LEMMA CallTypes ==
  ASSUME NEW t \in Threads
  PROVE  /\ Len(Program[t]) \in 0 .. MaxCalls
         /\ DOMAIN Program[t] = 1 .. Len(Program[t])
         /\ \A n \in DOMAIN Program[t] :
              /\ Program[t][n].co \in COs /\ ThreadOf[Program[t][n].co] = t
              /\ Program[t][n].args \in Seq(Instances)
              /\ \A j \in DOMAIN Program[t][n].args :
                   Program[t][n].args[j] \in Instances /\ OwnerOf[Program[t][n].args[j][2]] = t
<1>1. PICK M : M = {i \in Instances : OwnerOf[i[2]] = t}
  OBVIOUS
<1>2. PICK C : C = {c \in COs : ThreadOf[c] = t}
  OBVIOUS
<1>3. PICK R : R = [co : C, args : Seq(M)]
  OBVIOUS
<1>4. Program[t] \in Seq(R) /\ Len(Program[t]) <= MaxCalls
  BY <1>1, <1>2, <1>3, ProgramAssumption DEF ProgramAssumption
<1>5. DOMAIN Program[t] = 1 .. Len(Program[t]) /\ Len(Program[t]) \in Nat
  BY <1>4
<1>6. Len(Program[t]) \in 0 .. MaxCalls
  BY <1>4, <1>5, TypeAssumption DEF TypeAssumption
<1>7. ASSUME NEW n \in DOMAIN Program[t]
      PROVE  /\ Program[t][n].co \in C /\ Program[t][n].args \in Seq(M)
  <2>1. Program[t][n] \in R
    BY <1>4, <1>5
  <2>2. Program[t][n] \in [co : C, args : Seq(M)]
    BY <2>1, <1>3
  <2> QED
    BY <2>2
<1>8. ASSUME NEW n \in DOMAIN Program[t]
      PROVE  /\ Program[t][n].args \in Seq(Instances)
             /\ \A j \in DOMAIN Program[t][n].args : Program[t][n].args[j] \in M
  <2>1. PICK a : a = Program[t][n].args
    OBVIOUS
  <2>2. a \in Seq(M)
    BY <2>1, <1>7
  <2>3. M \subseteq Instances
    BY <1>1
  <2>4. a \in Seq(Instances) /\ \A j \in DOMAIN a : a[j] \in M
    BY <2>2, <2>3
  <2> QED
    BY <2>1, <2>4
<1> QED
  BY <1>1, <1>2, <1>5, <1>6, <1>7, <1>8

----------------------------------------------------------------------------
(***************************************************************************)
(* The fields of a buffer.                                                 *)
(***************************************************************************)

Mine(p, side, i) == i[2] = p[side] /\ p \in HalosOf[PatternOf[i[1]]]

LEMMA InfosRecursion ==
  ASSUME NEW args \in Seq(Instances), NEW p, NEW side
  PROVE  \E g \in [0 .. Len(args) -> Seq(Fields)] :
           /\ g[0] = << >>
           /\ \A j \in 1 .. Len(args) :
                g[j] = IF Mine(p, side, args[j]) THEN Append(g[j - 1], args[j][1]) ELSE g[j - 1]
           /\ Infos(p, side, args) = g[Len(args)]
<1>1. PICK N \in Nat : N = Len(args)
  OBVIOUS
<1>0. PICK T : T = Seq(Fields) /\ << >> \in T /\ \A s \in T : \A x \in Fields : Append(s, x) \in T
  <2>1. << >> \in Seq(Fields) /\ \A s \in Seq(Fields) : \A x \in Fields : Append(s, x) \in Seq(Fields)
    OBVIOUS
  <2> QED
    BY <2>1
<1>2. PICK step : step = [j \in 1 .. N |-> [s \in T |->
                            IF Mine(p, side, args[j]) THEN Append(s, args[j][1]) ELSE s]]
  OBVIOUS
<1>3. \A j \in 1 .. N : args[j][1] \in Fields
  BY <1>1, InstanceTypes
<1>4. step \in Steps(N, T)
  BY <1>0, <1>2, <1>3 DEF Steps
<1>5. PICK g \in [0 .. N -> T] :
        g[0] = << >> /\ \A j \in 1 .. N : g[j] = step[j][g[j - 1]]
  <2>1. PICK base : base = << >>
    OBVIOUS
  <2>2. base \in T /\ step \in Steps(N, T)
    BY <2>1, <1>0, <1>4
  <2>3. PICK g : Iterates(g, N, T, base, step)
    BY <2>2, Recursion
  <2>4. g \in [0 .. N -> T] /\ g[0] = base /\ \A j \in 1 .. N : g[j] = step[j][g[j - 1]]
    BY <2>3 DEF Iterates
  <2>5. g[0] = << >>
    BY <2>1, <2>4
  <2> QED
    BY <2>4, <2>5
<1>6. \A j \in 1 .. N :
        g[j] = IF Mine(p, side, args[j]) THEN Append(g[j - 1], args[j][1]) ELSE g[j - 1]
  <2>1. TAKE j \in 1 .. N
  <2>2. g[j - 1] \in T /\ g[j] = step[j][g[j - 1]]
    BY <1>5
  <2> QED
    BY <2>2, <1>2
<1>7. PICK f : /\ f = [j \in 0 .. Len(args) |->
                          IF j = 0 THEN << >>
                          ELSE IF args[j][2] = p[side] /\ p \in HalosOf[PatternOf[args[j][1]]]
                               THEN Append(f[j - 1], args[j][1])
                          ELSE f[j - 1]]
               /\ Infos(p, side, args) = f[Len(args)]
  <2>1. ASSUME NEW j \in 0 .. N
        PROVE  g[j] = IF j = 0 THEN << >>
                      ELSE IF args[j][2] = p[side] /\ p \in HalosOf[PatternOf[args[j][1]]]
                           THEN Append(g[j - 1], args[j][1])
                      ELSE g[j - 1]
    <3>1. CASE j = 0
      BY <3>1, <1>5
    <3>2. CASE j # 0
      <4>1. j \in 1 .. N
        BY <3>2
      <4> QED
        BY <4>1, <3>2, <1>6 DEF Mine
    <3> QED
      BY <3>1, <3>2
  <2>2. g = [j \in 0 .. N |-> g[j]]
    BY <1>5
  <2>3. g = [j \in 0 .. N |-> IF j = 0 THEN << >>
                      ELSE IF args[j][2] = p[side] /\ p \in HalosOf[PatternOf[args[j][1]]]
                           THEN Append(g[j - 1], args[j][1])
                      ELSE g[j - 1]]
    BY <2>1, <2>2, Zenon
  <2> QED
    BY <2>3, <1>1 DEF Infos
<1>8. f[0] = << >> /\ DOMAIN f = 0 .. N
  BY <1>1, <1>7
<1>9. ASSUME NEW j \in 1 .. N
      PROVE  f[j] = IF Mine(p, side, args[j]) THEN Append(f[j - 1], args[j][1]) ELSE f[j - 1]
  <2>1. j \in 0 .. Len(args) /\ j # 0
    BY <1>1
  <2> QED
    BY <2>1, <1>7 DEF Mine
<1>10. \A j \in 0 .. N : f[j] \in T
  <2>1. PICK S : S = {j \in 0 .. N : f[j] \in T}
    OBVIOUS
  <2>2. 0 \in S
    <3>1. f[0] \in T
      BY <1>8, <1>0, Zenon
    <3> QED
      BY <2>1, <3>1
  <2>3. ASSUME NEW j \in 0 .. N, j \in S, j < N PROVE j + 1 \in S
    <3>1. j + 1 \in 1 .. N /\ (j + 1) - 1 = j /\ f[j] \in T
      BY <2>1, <2>3
    <3>2. f[j + 1] \in T
      BY <3>1, <1>9, <1>3, <1>0
    <3> QED
      BY <3>1, <3>2, <2>1
  <2>4. \A j \in 0 .. N : j \in S
    BY <2>2, <2>3, InductionUpTo
  <2> QED
    BY <2>1, <2>4
<1>11. f \in [0 .. N -> T]
  <2>1. f = [j \in 0 .. N |-> f[j]]
    BY <1>1, <1>7
  <2> QED
    BY <2>1, <1>10
<1> QED
  BY <1>0, <1>1, <1>7, <1>8, <1>9, <1>11

LEMMA RangeAppend ==
  ASSUME NEW S, NEW s \in Seq(S), NEW x \in S
  PROVE  Append(s, x) \in Seq(S) /\ \A y : y \in Range(Append(s, x)) <=> y \in Range(s) \/ y = x
<1>1. PICK a \in Seq(S) : a = Append(s, x)
  <2>1. Append(s, x) \in Seq(S)
    OBVIOUS
  <2> QED
    BY <2>1, Zenon
<1>2. PICK N \in Nat : N = Len(s) /\ DOMAIN s = 1 .. N /\ DOMAIN a = 1 .. N + 1
  BY <1>1
<1>3. a[N + 1] = x /\ \A j \in 1 .. N : a[j] = s[j]
  BY <1>1, <1>2
<1>4. ASSUME NEW y PROVE y \in Range(a) <=> y \in Range(s) \/ y = x
  <2>1. y \in Range(a) <=> \E j \in 1 .. N + 1 : a[j] = y
    BY <1>2 DEF Range
  <2>2. y \in Range(s) <=> \E j \in 1 .. N : s[j] = y
    BY <1>2 DEF Range
  <2>3. (\E j \in 1 .. N + 1 : a[j] = y) => (\E j \in 1 .. N : s[j] = y) \/ y = x
    BY <1>3
  <2>4. y = x => \E j \in 1 .. N + 1 : a[j] = y
    BY <1>3
  <2>5. (\E j \in 1 .. N : s[j] = y) => \E j \in 1 .. N + 1 : a[j] = y
    BY <1>3
  <2> QED
    BY <2>1, <2>2, <2>3, <2>4, <2>5
<1> QED
  BY <1>1, <1>4

\* The fields of the buffer of a pair are those of the instances on its domain
\* whose pattern has the pair.
LEMMA InfosFields ==
  ASSUME NEW args \in Seq(Instances), NEW p, NEW side
  PROVE  /\ Infos(p, side, args) \in Seq(Fields)
         /\ \A f : f \in Range(Infos(p, side, args))
                     <=> p \in HalosOf[PatternOf[f]] /\ <<f, p[side]>> \in Range(args)
<1>1. PICK N \in Nat : N = Len(args) /\ DOMAIN args = 1 .. N
  OBVIOUS
<1>2. PICK T : T = Seq(Fields)
  OBVIOUS
<1>3. PICK g \in [0 .. N -> T] :
        /\ g[0] = << >>
        /\ \A j \in 1 .. N :
             g[j] = IF Mine(p, side, args[j]) THEN Append(g[j - 1], args[j][1]) ELSE g[j - 1]
        /\ Infos(p, side, args) = g[N]
  BY <1>1, <1>2, InfosRecursion
<1> DEFINE Has(m, f) == f \in Range(g[m]) <=> \E j \in 1 .. m : Mine(p, side, args[j]) /\ args[j][1] = f
<1>4. PICK S : S = {m \in 0 .. N : \A f : Has(m, f)}
  OBVIOUS
<1>5. 0 \in S
  <2>1. g[0] = << >> /\ 1 .. 0 = {}
    BY <1>3
  <2>2. Range(g[0]) = {}
    BY <2>1 DEF Range
  <2>3. \A f : Has(0, f)
    BY <2>1, <2>2
  <2> QED
    BY <2>3, <1>4
<1>6. ASSUME NEW m \in 0 .. N, m \in S, m < N PROVE m + 1 \in S
  <2>1. m + 1 \in 1 .. N /\ (m + 1) - 1 = m /\ \A f : Has(m, f)
    BY <1>4, <1>6
  <2>2. PICK i : i = args[m + 1]
    OBVIOUS
  <2>3. i[1] \in Fields
    <3>1. i \in Instances
      BY <2>1, <2>2, <1>1
    <3> QED
      BY <3>1, InstanceTypes
  <2>4. ASSUME NEW f PROVE Has(m + 1, f)
    <3>1. f \in Range(g[m + 1]) <=> f \in Range(g[m]) \/ (Mine(p, side, i) /\ i[1] = f)
      <4>1. CASE Mine(p, side, i)
        <5>1. g[m + 1] = Append(g[m], i[1]) /\ g[m] \in Seq(Fields)
          <6>1. g[m] \in Seq(Fields)
            <7>1. g[m] \in T
              BY <1>3
            <7> QED
              BY <7>1, <1>2, Zenon
          <6>2. g[m + 1] = IF Mine(p, side, i) THEN Append(g[m], i[1]) ELSE g[m]
            BY <2>1, <2>2, <1>3
          <6> QED
            BY <6>1, <6>2, <4>1, Zenon
        <5>2. f \in Range(Append(g[m], i[1])) <=> f \in Range(g[m]) \/ f = i[1]
          <6>1. g[m] \in Seq(Fields)
            BY <5>1
          <6>2. \A s \in Seq(Fields) : \A x \in Fields : \A y :
                  y \in Range(Append(s, x)) <=> y \in Range(s) \/ y = x
            BY RangeAppend
          <6> QED
            BY <6>1, <6>2, <2>3, Zenon
        <5> QED
          BY <4>1, <5>1, <5>2
      <4>2. CASE ~Mine(p, side, i)
        <5>1. g[m + 1] = g[m]
          BY <4>2, <2>1, <2>2, <1>3
        <5> QED
          BY <4>2, <5>1
      <4> QED
        BY <4>1, <4>2
    <3>2. (\E j \in 1 .. m + 1 : Mine(p, side, args[j]) /\ args[j][1] = f)
            <=> (\E j \in 1 .. m : Mine(p, side, args[j]) /\ args[j][1] = f)
                \/ (Mine(p, side, i) /\ i[1] = f)
      BY <2>1, <2>2
    <3> QED
      BY <3>1, <3>2, <2>1
  <2> QED
    BY <2>1, <2>4, <1>4
<1>7. N \in S
  <2>1. \A m \in 0 .. N : m \in S
    BY <1>5, <1>6, InductionUpTo
  <2> QED
    BY <2>1
<1>8. ASSUME NEW f
      PROVE  f \in Range(Infos(p, side, args))
               <=> p \in HalosOf[PatternOf[f]] /\ <<f, p[side]>> \in Range(args)
  <2>1. f \in Range(Infos(p, side, args)) <=> \E j \in 1 .. N : Mine(p, side, args[j]) /\ args[j][1] = f
    BY <1>3, <1>4, <1>7
  <2>2. ASSUME NEW j \in 1 .. N
        PROVE  (Mine(p, side, args[j]) /\ args[j][1] = f)
                 <=> p \in HalosOf[PatternOf[f]] /\ <<f, p[side]>> = args[j]
    <3>1. args[j] = <<args[j][1], args[j][2]>>
      BY <1>1, InstanceTypes
    <3> QED
      BY <3>1 DEF Mine
  <2>3. <<f, p[side]>> \in Range(args) <=> \E j \in 1 .. N : <<f, p[side]>> = args[j]
    BY <1>1 DEF Range
  <2> QED
    BY <2>1, <2>2, <2>3
<1>9. Infos(p, side, args) \in Seq(Fields)
  BY <1>2, <1>3
<1> QED
  BY <1>8, <1>9

----------------------------------------------------------------------------
(***************************************************************************)
(* The tag map.                                                            *)
(***************************************************************************)

PatternAt(args, j) == PatternOf[args[j][1]]
Repeats(args, j) == \E l \in 1 .. j - 1 : PatternAt(args, l) = PatternAt(args, j)

LEMMA PatternsAreTyped ==
  ASSUME NEW args \in Seq(Instances), NEW j \in DOMAIN args
  PROVE  PatternAt(args, j) \in Patterns /\ MaxTagOf[PatternAt(args, j)] \in Nat
<1>1. args[j] \in Instances
  OBVIOUS
<1>2. PatternAt(args, j) \in Patterns
  BY <1>1, InstanceTypes DEF PatternAt
<1> QED
  BY <1>2, TypeAssumption DEF TypeAssumption

LEMMA TagSumsRecursion ==
  ASSUME NEW args \in Seq(Instances)
  PROVE  /\ TagSums(args) \in [0 .. Len(args) -> Nat]
         /\ TagSums(args)[0] = 0
         /\ \A j \in 1 .. Len(args) :
              /\ Repeats(args, j) => TagSums(args)[j] = TagSums(args)[j - 1]
              /\ ~Repeats(args, j)
                   => TagSums(args)[j] = TagSums(args)[j - 1] + MaxTagOf[PatternAt(args, j)] + 1
<1>1. PICK N \in Nat : N = Len(args) /\ DOMAIN args = 1 .. N
  OBVIOUS
<1>2. PICK step : step = [j \in 1 .. N |-> [s \in Nat |->
                            IF Repeats(args, j) THEN s ELSE s + MaxTagOf[PatternAt(args, j)] + 1]]
  OBVIOUS
<1>3. \A j \in 1 .. N : MaxTagOf[PatternAt(args, j)] \in Nat
  BY <1>1, PatternsAreTyped
<1>4. step \in Steps(N, Nat)
  <2>1. ASSUME NEW j \in 1 .. N, NEW s \in Nat
        PROVE  (IF Repeats(args, j) THEN s ELSE s + MaxTagOf[PatternAt(args, j)] + 1) \in Nat
    <3>1. MaxTagOf[PatternAt(args, j)] \in Nat
      BY <1>3
    <3>2. s + MaxTagOf[PatternAt(args, j)] + 1 \in Nat
      BY <3>1
    <3> QED
      BY <3>2
  <2> QED
    BY <2>1, <1>2 DEF Steps
<1>5. PICK g : Iterates(g, N, Nat, 0, step)
  BY <1>4, Recursion
<1>6. g \in [0 .. N -> Nat] /\ g[0] = 0 /\ \A j \in 1 .. N : g[j] = step[j][g[j - 1]]
  BY <1>5 DEF Iterates
<1>7. \A j \in 1 .. N :
        g[j] = IF Repeats(args, j) THEN g[j - 1] ELSE g[j - 1] + MaxTagOf[PatternAt(args, j)] + 1
  <2>1. TAKE j \in 1 .. N
  <2>2. g[j - 1] \in Nat /\ g[j] = step[j][g[j - 1]]
    BY <1>6
  <2> QED
    BY <2>2, <1>2
<1>8. PICK f : /\ f = [j \in 0 .. Len(args) |->
                          IF j = 0 THEN 0
                          ELSE IF \E l \in 1 .. j - 1 : PatternOf[args[l][1]] = PatternOf[args[j][1]]
                               THEN f[j - 1]
                          ELSE f[j - 1] + MaxTagOf[PatternOf[args[j][1]]] + 1]
               /\ TagSums(args) = f
  <2>1. ASSUME NEW j \in 0 .. N
        PROVE  g[j] = IF j = 0 THEN 0
                      ELSE IF \E l \in 1 .. j - 1 : PatternOf[args[l][1]] = PatternOf[args[j][1]]
                           THEN g[j - 1]
                      ELSE g[j - 1] + MaxTagOf[PatternOf[args[j][1]]] + 1
    <3>1. CASE j = 0
      BY <3>1, <1>6
    <3>2. CASE j # 0
      <4>1. j \in 1 .. N
        BY <3>2
      <4> QED
        BY <4>1, <3>2, <1>7 DEF Repeats, PatternAt
    <3> QED
      BY <3>1, <3>2
  <2>2. g = [j \in 0 .. N |-> g[j]]
    BY <1>6
  <2>3. g = [j \in 0 .. N |-> IF j = 0 THEN 0
                      ELSE IF \E l \in 1 .. j - 1 : PatternOf[args[l][1]] = PatternOf[args[j][1]]
                           THEN g[j - 1]
                      ELSE g[j - 1] + MaxTagOf[PatternOf[args[j][1]]] + 1]
    BY <2>1, <2>2, Zenon
  <2> QED
    BY <2>3, <1>1 DEF TagSums
<1>9. f[0] = 0 /\ DOMAIN f = 0 .. N
  BY <1>1, <1>8
<1>10. ASSUME NEW j \in 1 .. N
       PROVE  /\ Repeats(args, j) => f[j] = f[j - 1]
              /\ ~Repeats(args, j) => f[j] = f[j - 1] + MaxTagOf[PatternAt(args, j)] + 1
  <2>1. j \in 0 .. Len(args) /\ j # 0
    BY <1>1
  <2>2. f[j] = IF j = 0 THEN 0
               ELSE IF \E l \in 1 .. j - 1 : PatternOf[args[l][1]] = PatternOf[args[j][1]]
                    THEN f[j - 1]
               ELSE f[j - 1] + MaxTagOf[PatternOf[args[j][1]]] + 1
    BY <2>1, <1>8
  <2> QED
    BY <2>1, <2>2 DEF Repeats, PatternAt
<1>11. \A j \in 0 .. N : f[j] \in Nat
  <2>1. PICK S : S = {j \in 0 .. N : f[j] \in Nat}
    OBVIOUS
  <2>2. 0 \in S
    BY <2>1, <1>9
  <2>3. ASSUME NEW j \in 0 .. N, j \in S, j < N PROVE j + 1 \in S
    <3>1. j + 1 \in 1 .. N /\ (j + 1) - 1 = j /\ f[j] \in Nat
      BY <2>1, <2>3
    <3>2. MaxTagOf[PatternAt(args, j + 1)] \in Nat
      BY <3>1, <1>3
    <3>3. f[j + 1] = f[j] \/ f[j + 1] = f[j] + MaxTagOf[PatternAt(args, j + 1)] + 1
      BY <3>1, <1>10
    <3> QED
      BY <3>1, <3>2, <3>3, <2>1
  <2>4. \A j \in 0 .. N : j \in S
    BY <2>2, <2>3, InductionUpTo
  <2> QED
    BY <2>1, <2>4
<1>12. f \in [0 .. N -> Nat]
  <2>1. f = [j \in 0 .. N |-> f[j]]
    BY <1>1, <1>8
  <2> QED
    BY <2>1, <1>11
<1> QED
  BY <1>1, <1>8, <1>9, <1>10, <1>12

LEMMA TagSumsMonotone ==
  ASSUME NEW args \in Seq(Instances), NEW n \in 0 .. Len(args), NEW m \in 0 .. n
  PROVE  TagSums(args)[m] <= TagSums(args)[n]
<1>1. PICK N \in Nat : N = Len(args) /\ DOMAIN args = 1 .. N
  OBVIOUS
<1>2. PICK f : f = TagSums(args)
  OBVIOUS
<1>3. f \in [0 .. N -> Nat]
  BY <1>1, <1>2, TagSumsRecursion
<1>4. ASSUME NEW j \in 1 .. N PROVE f[j - 1] <= f[j]
  <2>1. MaxTagOf[PatternAt(args, j)] \in Nat
    BY <1>1, PatternsAreTyped
  <2>2. f[j - 1] \in Nat
    BY <1>3
  <2>3. f[j] = f[j - 1] \/ f[j] = f[j - 1] + MaxTagOf[PatternAt(args, j)] + 1
    BY <1>1, <1>2, TagSumsRecursion
  <2> QED
    BY <2>1, <2>2, <2>3
<1>5. PICK S : S = {k \in 0 .. N : \A l \in 0 .. k : f[l] <= f[k]}
  OBVIOUS
<1>6. 0 \in S
  BY <1>3, <1>5
<1>7. ASSUME NEW k \in 0 .. N, k \in S, k < N PROVE k + 1 \in S
  <2>1. k + 1 \in 1 .. N /\ k + 1 \in 0 .. N /\ (k + 1) - 1 = k /\ \A l \in 0 .. k : f[l] <= f[k]
    BY <1>5, <1>7
  <2>2. f[k] <= f[k + 1]
    BY <2>1, <1>4
  <2>3. \A l \in 0 .. k + 1 : f[l] <= f[k + 1]
    BY <2>1, <2>2, <1>3
  <2> QED
    BY <2>1, <2>3, <1>5
<1>8. n \in S
  <2>1. \A k \in 0 .. N : k \in S
    BY <1>6, <1>7, InductionUpTo
  <2> QED
    BY <2>1, <1>1
<1> QED
  BY <1>8, <1>5, <1>2

Passed(args) == {PatternAt(args, j) : j \in DOMAIN args}

LEMMA FirstPassed ==
  ASSUME NEW args \in Seq(Instances), NEW q \in Passed(args)
  PROVE  /\ First(args, q) \in 1 .. Len(args)
         /\ PatternAt(args, First(args, q)) = q
         /\ ~Repeats(args, First(args, q))
<1>1. PICK S : S = {j \in DOMAIN args : PatternAt(args, j) = q}
  OBVIOUS
<1>2. DOMAIN args = 1 .. Len(args) /\ Len(args) \in Nat
  OBVIOUS
<1>3. S # {} /\ S \in SUBSET Nat
  BY <1>1, <1>2 DEF Passed
<1>4. PICK k \in S : \A n \in S : k <= n
  BY <1>3, LeastNumber
<1>5. k \in DOMAIN args /\ PatternOf[args[k][1]] = q /\ \A l \in 1 .. k - 1 : PatternOf[args[l][1]] # q
  <2>1. k \in 1 .. Len(args) /\ PatternAt(args, k) = q
    BY <1>1, <1>2, <1>4
  <2>2. ASSUME NEW l \in 1 .. k - 1 PROVE PatternAt(args, l) # q
    <3>1. l \in DOMAIN args /\ ~(k <= l)
      BY <2>1, <1>2
    <3> QED
      BY <3>1, <1>1, <1>4
  <2> QED
    BY <2>1, <2>2, <1>2 DEF PatternAt
<1>6. /\ First(args, q) \in DOMAIN args
      /\ PatternOf[args[First(args, q)][1]] = q
      /\ \A l \in 1 .. First(args, q) - 1 : PatternOf[args[l][1]] # q
  BY <1>5 DEF First
<1> QED
  BY <1>6, <1>2 DEF PatternAt, Repeats

\* Patterns of one call have tags of their own.
LEMMA TagRanges ==
  ASSUME NEW args \in Seq(Instances), NEW q \in Passed(args), NEW r \in Passed(args)
  PROVE  /\ TagOffset(args, q) \in Nat /\ MaxTagOf[q] \in Nat
         /\ \/ q = r
            \/ TagOffset(args, q) + MaxTagOf[q] < TagOffset(args, r)
            \/ TagOffset(args, r) + MaxTagOf[r] < TagOffset(args, q)
<1>1. PICK N \in Nat : N = Len(args) /\ DOMAIN args = 1 .. N
  OBVIOUS
<1>2. PICK f : f = TagSums(args)
  OBVIOUS
<1>3. f \in [0 .. N -> Nat]
  BY <1>1, <1>2, TagSumsRecursion
<1>4. ASSUME NEW a \in Passed(args)
      PROVE  /\ First(args, a) \in 1 .. N /\ TagOffset(args, a) = f[First(args, a) - 1]
             /\ TagOffset(args, a) \in Nat /\ MaxTagOf[a] \in Nat
             /\ f[First(args, a)] = TagOffset(args, a) + MaxTagOf[a] + 1
  <2>1. PICK k : k = First(args, a)
    OBVIOUS
  <2>2. k \in 1 .. N /\ PatternAt(args, k) = a /\ ~Repeats(args, k)
    BY <2>1, <1>1, FirstPassed
  <2>3. TagOffset(args, a) = f[k - 1] /\ f[k - 1] \in Nat
    BY <2>1, <2>2, <1>2, <1>3 DEF TagOffset
  <2>4. MaxTagOf[a] \in Nat
    BY <2>2, <1>1, PatternsAreTyped
  <2>5. f[k] = f[k - 1] + MaxTagOf[a] + 1
    BY <2>2, <1>1, <1>2, TagSumsRecursion
  <2> QED
    BY <2>1, <2>2, <2>3, <2>4, <2>5
<1>5. ASSUME NEW a \in Passed(args), NEW b \in Passed(args), First(args, a) < First(args, b)
      PROVE  TagOffset(args, a) + MaxTagOf[a] < TagOffset(args, b)
  <2>1. PICK k, l : k = First(args, a) /\ l = First(args, b)
    OBVIOUS
  <2>2. k \in 1 .. N /\ l \in 1 .. N /\ k < l
    BY <2>1, <1>4, <1>5
  <2>3. l - 1 \in 0 .. N /\ k \in 0 .. l - 1
    BY <2>2
  <2>4. f[k] <= f[l - 1]
    BY <2>3, <1>1, <1>2, TagSumsMonotone
  <2>5. /\ f[k] = TagOffset(args, a) + MaxTagOf[a] + 1 /\ TagOffset(args, b) = f[l - 1]
        /\ TagOffset(args, a) \in Nat /\ MaxTagOf[a] \in Nat /\ TagOffset(args, b) \in Nat
    BY <2>1, <1>4
  <2> QED
    BY <2>4, <2>5
<1>6. First(args, q) = First(args, r) => q = r
  BY FirstPassed
<1>7. First(args, q) \in Nat /\ First(args, r) \in Nat
  BY <1>4
<1> QED
  BY <1>4, <1>5, <1>6, <1>7

----------------------------------------------------------------------------
(***************************************************************************)
(* The invariant.  Calls are counted by their position in the program:     *)
(* under ProgramsFit the calls of all threads with one position go         *)
(* together.                                                               *)
(***************************************************************************)

Obj(t, n) == Program[t][n].co
Args(t, n) == Program[t][n].args

\* What call n receives for p, the tag and the channel it uses.
RecvInfos(p, n) == Infos(p, 1, Args(Receiver(p), n))
Uses(p, n) == n \in DOMAIN Program[Receiver(p)] /\ RecvInfos(p, n) # << >>
TagIn(infos, p, args) == TagOf[PatternOf[Head(infos)]][p] + TagOffset(args, PatternOf[Head(infos)])
RecvChannel(p, n) == Channel(p, TagIn(RecvInfos(p, n), p, Args(Receiver(p), n)))

\* The pair (there is at most one) that has a message on channel k in call n.
Slot(k, n) == {p \in Pairs : Uses(p, n) /\ RecvChannel(p, n) = k}

\* The number of messages on channel k, and of exchanges of instance i, in the
\* calls up to n.
Count(S, n) == Cardinality(S \cap (1 .. n))
CallsOn(k) == {m \in Nat : Slot(k, m) # {}}
CallsOf(i) == {m \in DOMAIN Program[OwnerOf[i[2]]] : i \in Range(Args(OwnerOf[i[2]], m))}
Pos(k, n) == Count(CallsOn(k), n)
Round(i, n) == Count(CallsOf(i), n)

\* The data of the message for p in call n.
Expected(p, n) == [j \in DOMAIN RecvInfos(p, n) |->
                     LET i == <<RecvInfos(p, n)[j], p[2]>> IN Content(i, Round(i, n))]

ReceiverOf(k) == CHOOSE t \in Threads : RankOf[t] = k[2]
SenderOf(k) == CHOOSE t \in Threads : RankOf[t] = k[1]

\* The last call whose message on k, if it has one, has been sent; the number
\* of messages that have been matched.
SentCall(k) == IF \E p \in todo[SenderOf(k)] : RecvChannel(p, call[SenderOf(k)]) = k
                 THEN call[SenderOf(k)] - 1 ELSE call[SenderOf(k)]
Matched(k) == Pos(k, call[ReceiverOf(k)]) - Len(posted[k])

\* Call n is the last that thread t made with object c.
IsLast(t, c, n) == /\ n \in 1 .. call[t]
                   /\ Obj(t, n) = c
                   /\ \A m \in n + 1 .. call[t] : Obj(t, m) # c

\* Threads pack the buffers of their last call and wait for a valid object.
ControlInv ==
  \A t \in Threads :
    /\ call[t] <= Len(Program[t])
    /\ pc[t] = "pack" => /\ call[t] > 0
                         /\ current[t] = Obj(t, call[t])
                         /\ current[t] \in m_valid
                         /\ \A p \in todo[t] : Sender(p) = t /\ Uses(p, call[t])
    /\ pc[t] # "pack" => todo[t] = {}
    /\ pc[t] = "wait" => current[t] \in m_valid /\ ThreadOf[current[t]] = t

\* A valid object has the buffers of its last call, the others none.
OpenInv == \A c \in m_valid : \E n \in Nat : IsLast(ThreadOf[c], c, n)

Holds(buffer, p, side, args) ==
  /\ buffer.field_infos = Infos(p, side, args)
  /\ buffer.field_infos # << >> => buffer.tag = TagIn(buffer.field_infos, p, args)

MemoryInv ==
  \A c \in COs : \A p \in Pairs :
    /\ c \notin m_valid => /\ recv_memory[c][p].field_infos = << >>
                           /\ recv_memory[c][p].data = << >>
                           /\ send_memory[c][p].field_infos = << >>
                           /\ <<c, p>> \notin m_recv_futures
    /\ \A n \in Nat : c \in m_valid /\ IsLast(ThreadOf[c], c, n) =>
         /\ Holds(recv_memory[c][p], p, 1, Args(ThreadOf[c], n))
         /\ Holds(send_memory[c][p], p, 2, Args(ThreadOf[c], n))
         /\ <<c, p>> \in m_recv_futures => recv_memory[c][p].field_infos # << >>

\* On every channel the receives and the messages without a partner are those
\* of the calls after the last match, in the order of the calls.
CountInv ==
  \A k \in Channels : /\ Matched(k) \in Nat
                      /\ Pos(k, SentCall(k)) = Matched(k) + Len(chan[k])

PostedInv ==
  \A k \in Channels : \A n \in 1 .. call[ReceiverOf(k)] : \A p \in Slot(k, n) :
    Pos(k, n) > Matched(k) =>
      LET c == Obj(ReceiverOf(k), n)
      IN  /\ posted[k][Pos(k, n) - Matched(k)] = <<c, p>>
          /\ c \in m_valid
          /\ IsLast(ReceiverOf(k), c, n)
          /\ <<c, p>> \in m_recv_futures
          /\ recv_memory[c][p].data = << >>

SentInv ==
  \A k \in Channels : \A n \in 1 .. SentCall(k) : \A p \in Slot(k, n) :
    Pos(k, n) > Matched(k) =>
      chan[k][Pos(k, n) - Matched(k)] = [from |-> <<Obj(SenderOf(k), n), p>>, data |-> Expected(p, n)]

\* What has been received is the data of the same call.
ReceivedInv ==
  \A c \in COs : \A p \in Pairs : \A n \in Nat :
    <<c, p>> \in m_recv_futures /\ IsLast(ThreadOf[c], c, n)
      /\ Pos(RecvChannel(p, n), n) <= Matched(RecvChannel(p, n))
      => recv_memory[c][p].data = Expected(p, n)

\* Exchanges are counted, and open while their object is.
HistoryInv ==
  \A i \in Instances :
    /\ started[i] = Round(i, call[OwnerOf[i[2]]])
    /\ completed[i] <= started[i]
    /\ \A c \in m_valid : \A n \in Nat :
         IsLast(ThreadOf[c], c, n) /\ i \in Range(Args(ThreadOf[c], n))
           => completed[i] < started[i] /\ Round(i, n) = started[i]
    /\ completed[i] = started[i] \/ \E c \in m_valid : \E n \in Nat :
         IsLast(ThreadOf[c], c, n) /\ i \in Range(Args(ThreadOf[c], n))

\* A halo that is not waiting for its message has the data of the last exchange.
Waits(f, p) == \E c \in COs : <<c, p>> \in m_recv_futures /\ f \in Range(recv_memory[c][p].field_infos)

HaloInv ==
  \A f \in Fields : \A p \in HalosOf[PatternOf[f]] :
    /\ ~Waits(f, p) => halo[f][p] = Content(<<f, p[2]>>, started[<<f, p[1]>>])
    /\ Waits(f, p) => halo[f][p].round + 1 = started[<<f, p[1]>>]

CommInv == /\ TypeOK /\ ControlInv /\ OpenInv /\ MemoryInv /\ CountInv /\ PostedInv
           /\ SentInv /\ ReceivedInv /\ HistoryInv /\ HaloInv

----------------------------------------------------------------------------
(***************************************************************************)
(* The messages of a call.                                                 *)
(***************************************************************************)

LEMMA HeadInRange ==
  ASSUME NEW S, NEW s \in Seq(S), s # << >>
  PROVE  Head(s) \in Range(s) /\ Head(s) \in S
<1>1. Len(s) \in Nat /\ Len(s) # 0 /\ DOMAIN s = 1 .. Len(s)
  OBVIOUS
<1>2. 1 \in DOMAIN s /\ Head(s) = s[1]
  BY <1>1
<1> QED
  BY <1>2 DEF Range

LEMMA CallInfos ==
  ASSUME NEW t \in Threads, NEW n \in DOMAIN Program[t], NEW p, NEW side \in {1, 2},
         NEW infos, infos = Infos(p, side, Args(t, n))
  PROVE  /\ infos \in Seq(Fields)
         /\ infos # << >> =>
              LET q == PatternOf[Head(infos)]
              IN  /\ q \in Passed(Args(t, n)) /\ q \in Patterns
                  /\ p \in HalosOf[q] /\ p \in Pairs
                  /\ OwnerOf[p[side]] = t
                  /\ Head(infos) \in Range(infos)
                  /\ TagOf[q][p] \in 0 .. MaxTagOf[q]
                  /\ TagOffset(Args(t, n), q) \in Nat /\ MaxTagOf[q] \in Nat
                  /\ TagIn(infos, p, Args(t, n)) \in Tags
<1>1. PICK args \in Seq(Instances) : args = Args(t, n)
  BY CallTypes DEF Args
<1>2. /\ infos \in Seq(Fields)
      /\ \A f : f \in Range(infos) <=> p \in HalosOf[PatternOf[f]] /\ <<f, p[side]>> \in Range(args)
  BY <1>1, InfosFields
<1>3. ASSUME infos # << >>, NEW q, q = PatternOf[Head(infos)]
      PROVE  /\ q \in Passed(Args(t, n)) /\ q \in Patterns
             /\ p \in HalosOf[q] /\ p \in Pairs
             /\ OwnerOf[p[side]] = t
             /\ Head(infos) \in Range(infos)
             /\ TagOf[q][p] \in 0 .. MaxTagOf[q]
             /\ TagOffset(Args(t, n), q) \in Nat /\ MaxTagOf[q] \in Nat
             /\ TagIn(infos, p, Args(t, n)) \in Tags
  <2>1. PICK f : f = Head(infos)
    OBVIOUS
  <2>2. f \in Range(infos) /\ f \in Fields
    BY <2>1, <1>2, <1>3, HeadInRange
  <2>3. q = PatternOf[f] /\ p \in HalosOf[q] /\ <<f, p[side]>> \in Range(args)
    BY <1>2, <1>3, <2>1, <2>2
  <2>4. PICK j \in DOMAIN args : args[j] = <<f, p[side]>>
    BY <2>3 DEF Range
  <2>5. args[j][1] = f /\ args[j][2] = p[side]
    BY <2>4
  <2>6. OwnerOf[p[side]] = t
    BY <2>5, <1>1, CallTypes DEF Args
  <2>7. q \in Passed(args) /\ q \in Patterns
    BY <2>3, <2>5, PatternsAreTyped DEF Passed, PatternAt
  <2>8. p \in Pairs
    BY <2>3, <2>7 DEF Pairs
  <2>9. TagOf[q][p] \in 0 .. MaxTagOf[q]
    BY <2>3, <2>7, TagAssumption DEF TagAssumption
  <2>10. TagOffset(args, q) \in Nat /\ MaxTagOf[q] \in Nat
    BY <2>7, TagRanges
  <2>11. TagOffset(args, q) + MaxTagOf[q] <= TagUB
    <3>1. PatternOf[args[j][1]] = q
      BY <2>3, <2>5
    <3> QED
      BY <3>1, <1>1, TagUBAssumption DEF TagUBAssumption, Args
  <2>12. TagIn(infos, p, args) \in Tags
    BY <1>3, <2>9, <2>10, <2>11, TypeAssumption DEF TagIn, Tags, TypeAssumption
  <2> QED
    BY <1>1, <2>1, <2>2, <2>3, <2>6, <2>7, <2>8, <2>9, <2>10, <2>12
<1> QED
  BY <1>2, <1>3

\* The messages that a call receives, and those it sends, use channels of
\* their own.
LEMMA ChannelsDiffer ==
  ASSUME NEW t \in Threads, NEW n \in DOMAIN Program[t], NEW side \in {1, 2}, NEW p, NEW r,
         NEW pinfos, NEW rinfos, pinfos # << >>, rinfos # << >>,
         pinfos = Infos(p, side, Args(t, n)), rinfos = Infos(r, side, Args(t, n)),
         Channel(p, TagIn(pinfos, p, Args(t, n))) = Channel(r, TagIn(rinfos, r, Args(t, n)))
  PROVE  p = r
<1>1. PICK args \in Seq(Instances) : args = Args(t, n)
  BY CallTypes DEF Args
<1>2. PICK q, s : q = PatternOf[Head(pinfos)] /\ s = PatternOf[Head(rinfos)]
  OBVIOUS
<1>3. /\ q \in Passed(args) /\ p \in HalosOf[q] /\ TagOf[q][p] \in 0 .. MaxTagOf[q] /\ q \in Patterns
      /\ TagOffset(args, q) \in Nat /\ MaxTagOf[q] \in Nat
  BY <1>1, <1>2, CallInfos
<1>4. /\ s \in Passed(args) /\ r \in HalosOf[s] /\ TagOf[s][r] \in 0 .. MaxTagOf[s]
      /\ TagOffset(args, s) \in Nat /\ MaxTagOf[s] \in Nat
  BY <1>1, <1>2, CallInfos
<1>5. /\ RankOf[Sender(p)] = RankOf[Sender(r)] /\ RankOf[Receiver(p)] = RankOf[Receiver(r)]
      /\ TagOf[q][p] + TagOffset(args, q) = TagOf[s][r] + TagOffset(args, s)
  BY <1>1, <1>2 DEF Channel, TagIn
<1>6. q = s
  <2>1. \/ q = s
        \/ TagOffset(args, q) + MaxTagOf[q] < TagOffset(args, s)
        \/ TagOffset(args, s) + MaxTagOf[s] < TagOffset(args, q)
    BY <1>3, <1>4, TagRanges
  <2> QED
    BY <2>1, <1>3, <1>4, <1>5
<1>7. TagOf[q][p] = TagOf[q][r] /\ r \in HalosOf[q]
  BY <1>3, <1>4, <1>5, <1>6
<1> QED
  BY <1>3, <1>5, <1>7, TagAssumption DEF TagAssumption

\* Both ends of a pair use the same fields and the same channel.
LEMMA EndsAgree ==
  ASSUME ProgramsFit, NEW p \in Pairs, NEW n \in DOMAIN Program[Receiver(p)]
  PROVE  /\ n \in DOMAIN Program[Sender(p)]
         /\ Infos(p, 2, Args(Sender(p), n)) = RecvInfos(p, n)
         /\ RecvInfos(p, n) # << >> =>
              Channel(p, TagIn(RecvInfos(p, n), p, Args(Sender(p), n))) = RecvChannel(p, n)
<1>1. Receiver(p) \in Threads /\ Sender(p) \in Threads
  BY PairTypes
<1>2. n \in DOMAIN Program[Sender(p)]
  <2>1. Len(Program[Receiver(p)]) = Len(Program[Sender(p)])
    BY <1>1 DEF ProgramsFit
  <2> QED
    BY <1>1, <2>1, CallTypes
<1>3. PICK here, there, infos :
        here = Args(Receiver(p), n) /\ there = Args(Sender(p), n) /\ infos = RecvInfos(p, n)
  OBVIOUS
<1>4. /\ infos = Infos(p, 2, there)
      /\ \A j \in DOMAIN infos : TagOffset(here, PatternOf[infos[j]]) = TagOffset(there, PatternOf[infos[j]])
  BY <1>3 DEF ProgramsFit, RecvInfos, Args
<1>5. infos \in Seq(Fields)
  BY <1>1, <1>3, CallInfos DEF RecvInfos
<1>6. ASSUME infos # << >> PROVE TagIn(infos, p, there) = TagIn(infos, p, here)
  <2>1. 1 \in DOMAIN infos /\ Head(infos) = infos[1]
    BY <1>5, <1>6
  <2> QED
    BY <2>1, <1>4 DEF TagIn
<1> QED
  BY <1>2, <1>3, <1>4, <1>6 DEF RecvChannel

----------------------------------------------------------------------------
(***************************************************************************)
(* Counting.                                                               *)
(***************************************************************************)

LEMMA CountStep ==
  ASSUME NEW S, NEW n \in Nat
  PROVE  /\ Count(S, n) \in Nat /\ Count(S, 0) = 0
         /\ n + 1 \in S => Count(S, n + 1) = Count(S, n) + 1
         /\ n + 1 \notin S => Count(S, n + 1) = Count(S, n)
<1>1. PICK A, B : A = S \cap (1 .. n) /\ B = S \cap (1 .. n + 1)
  OBVIOUS
<1>2. IsFiniteSet(A) /\ Cardinality(A) \in Nat
  <2>1. IsFiniteSet(1 .. n)
    BY FS_Interval
  <2>2. A \subseteq 1 .. n
    BY <1>1
  <2> QED
    BY <2>1, <2>2, FS_Subset, FS_CardinalityType
<1>3. Count(S, 0) = 0
  <2>1. S \cap (1 .. 0) = {}
    OBVIOUS
  <2> QED
    BY <2>1, FS_EmptySet DEF Count
<1>4. CASE n + 1 \in S
  <2>1. B = A \cup {n + 1} /\ n + 1 \notin A
    BY <1>1, <1>4
  <2>2. Cardinality(B) = Cardinality(A) + 1
    BY <2>1, <1>2, FS_AddElement
  <2> QED
    BY <1>1, <1>2, <1>3, <1>4, <2>2 DEF Count
<1>5. CASE n + 1 \notin S
  <2>1. B = A
    BY <1>1, <1>5
  <2> QED
    BY <1>1, <1>2, <1>3, <1>5, <2>1 DEF Count
<1> QED
  BY <1>4, <1>5

LEMMA CountMonotone ==
  ASSUME NEW S, NEW n \in Nat, NEW m \in 0 .. n
  PROVE  /\ Count(S, m) \in Nat /\ Count(S, n) \in Nat
         /\ Count(S, m) <= Count(S, n)
         /\ m < n /\ n \in S => Count(S, m) < Count(S, n)
<1>1. \A k \in Nat : Count(S, k) \in Nat /\ Count(S, k) <= Count(S, k + 1)
  BY CountStep
<1>2. PICK T : T = {k \in 0 .. n : \A l \in 0 .. k : Count(S, l) <= Count(S, k)}
  OBVIOUS
<1>3. 0 \in T
  BY <1>1, <1>2
<1>4. ASSUME NEW k \in 0 .. n, k \in T, k < n PROVE k + 1 \in T
  <2>1. k \in Nat /\ k + 1 \in 0 .. n /\ \A l \in 0 .. k : Count(S, l) <= Count(S, k)
    BY <1>2, <1>4
  <2>2. ASSUME NEW l \in 0 .. k + 1 PROVE Count(S, l) <= Count(S, k + 1)
    <3>1. l \in Nat /\ Count(S, l) \in Nat /\ Count(S, k) \in Nat /\ Count(S, k + 1) \in Nat
          /\ Count(S, k) <= Count(S, k + 1)
      BY <2>1, <1>1
    <3>2. CASE l = k + 1
      BY <3>1, <3>2
    <3>3. CASE l \in 0 .. k
      BY <3>1, <3>3, <2>1
    <3> QED
      BY <3>2, <3>3
  <2> QED
    BY <2>1, <2>2, <1>2
<1>5. \A k \in 0 .. n : k \in T
  BY <1>3, <1>4, InductionUpTo
<1>6. Count(S, m) <= Count(S, n)
  BY <1>2, <1>5
<1>7. ASSUME m < n, n \in S PROVE Count(S, m) < Count(S, n)
  <2>1. PICK k \in 0 .. n : n = k + 1 /\ m \in 0 .. k
    BY <1>7
  <2>2. Count(S, m) <= Count(S, k)
    BY <2>1, <1>2, <1>5
  <2>3. Count(S, n) = Count(S, k) + 1
    BY <2>1, <1>7, CountStep
  <2>4. Count(S, m) \in Nat /\ Count(S, k) \in Nat
    BY <1>1
  <2> QED
    BY <2>2, <2>3, <2>4
<1> QED
  BY <1>1, <1>6, <1>7

\* Every number up to the count is the count of an element.
LEMMA CountOnto ==
  ASSUME NEW S, NEW n \in Nat, NEW x \in 1 .. Count(S, n)
  PROVE  \E m \in 1 .. n : m \in S /\ Count(S, m) = x
<1>1. \A k \in Nat : Count(S, k) \in Nat
  BY CountStep
<1>2. PICK T : T = {k \in 0 .. n : x <= Count(S, k)}
  OBVIOUS
<1>3. n \in T /\ T \subseteq Nat
  BY <1>1, <1>2
<1>4. PICK m \in T : \A l \in T : m <= l
  BY <1>3, LeastNumber
<1>5. m \in 0 .. n /\ x <= Count(S, m)
  BY <1>2, <1>4
<1>6. m # 0
  BY <1>5, CountStep
<1>7. PICK k \in 0 .. n : m = k + 1
  BY <1>5, <1>6
<1>8. ~(x <= Count(S, k)) /\ k \in Nat
  <2>1. ~(m <= k)
    BY <1>7
  <2> QED
    BY <2>1, <1>2, <1>4
<1>9. Count(S, k) \in Nat /\ Count(S, m) \in Nat
  BY <1>1, <1>8, <1>7
<1>10. m \in S
  <2>1. m \notin S => Count(S, m) = Count(S, k)
    BY <1>7, <1>8, CountStep
  <2> QED
    BY <2>1, <1>5, <1>8
<1>11. Count(S, m) = Count(S, k) + 1
  BY <1>7, <1>8, <1>10, CountStep
<1> QED
  BY <1>5, <1>6, <1>8, <1>9, <1>10, <1>11

----------------------------------------------------------------------------
(***************************************************************************)
(* Channels.                                                               *)
(***************************************************************************)

LEMMA ChannelThreads ==
  ASSUME ProgramsFit, NEW p \in Pairs, NEW tag, NEW k, k = Channel(p, tag)
  PROVE  ReceiverOf(k) = Receiver(p) /\ SenderOf(k) = Sender(p)
<1>1. Receiver(p) \in Threads /\ Sender(p) \in Threads
  BY PairTypes
<1>2. k[1] = RankOf[Sender(p)] /\ k[2] = RankOf[Receiver(p)]
  BY DEF Channel
<1>3. \A s, t \in Threads : RankOf[s] = RankOf[t] => s = t
  BY DEF ProgramsFit
<1>4. ReceiverOf(k) \in Threads /\ RankOf[ReceiverOf(k)] = k[2]
  BY <1>1, <1>2 DEF ReceiverOf
<1>5. SenderOf(k) \in Threads /\ RankOf[SenderOf(k)] = k[1]
  BY <1>1, <1>2 DEF SenderOf
<1> QED
  BY <1>1, <1>2, <1>3, <1>4, <1>5

LEMMA ChannelEnds ==
  ASSUME NEW k \in Channels
  PROVE  ReceiverOf(k) \in Threads /\ SenderOf(k) \in Threads
<1>1. k[1] \in Ranks /\ k[2] \in Ranks
  BY DEF Channels
<1>2. (\E t \in Threads : RankOf[t] = k[2]) /\ \E t \in Threads : RankOf[t] = k[1]
  BY <1>1 DEF Ranks
<1> QED
  BY <1>2 DEF ReceiverOf, SenderOf

LEMMA UsedChannel ==
  ASSUME ProgramsFit, NEW p \in Pairs, NEW n, Uses(p, n), NEW k, k = RecvChannel(p, n)
  PROVE  /\ k \in Channels /\ p \in Slot(k, n)
         /\ ReceiverOf(k) = Receiver(p) /\ SenderOf(k) = Sender(p)
         /\ Receiver(p) \in Threads /\ Sender(p) \in Threads
         /\ n \in DOMAIN Program[Receiver(p)] /\ n \in Nat /\ n > 0
         /\ RecvInfos(p, n) # << >>
<1>1. Receiver(p) \in Threads /\ Sender(p) \in Threads
  BY PairTypes
<1>2. n \in DOMAIN Program[Receiver(p)] /\ RecvInfos(p, n) # << >>
  BY DEF Uses
<1>3. n \in Nat /\ n > 0
  BY <1>1, <1>2, CallTypes
<1>4. PICK tag : tag = TagIn(RecvInfos(p, n), p, Args(Receiver(p), n)) /\ k = Channel(p, tag)
  BY DEF RecvChannel
<1>5. tag \in Tags
  BY <1>1, <1>2, <1>4, CallInfos DEF RecvInfos
<1>6. k \in Channels
  BY <1>1, <1>4, <1>5 DEF Channel, Channels, Ranks
<1> QED
  BY <1>1, <1>2, <1>3, <1>4, <1>6, ChannelThreads DEF Slot

\* There is one message on a channel in a call.
LEMMA SlotFacts ==
  ASSUME ProgramsFit, NEW k, NEW n, NEW p \in Slot(k, n)
  PROVE  /\ p \in Pairs /\ Uses(p, n) /\ RecvChannel(p, n) = k
         /\ \A r \in Slot(k, n) : r = p
         /\ n \in CallsOn(k)
         /\ k \in Channels
         /\ ReceiverOf(k) = Receiver(p) /\ SenderOf(k) = Sender(p)
         /\ n \in DOMAIN Program[Receiver(p)] /\ RecvInfos(p, n) # << >>
<1>1. p \in Pairs /\ Uses(p, n) /\ RecvChannel(p, n) = k
  BY DEF Slot
<1>2. ASSUME NEW r \in Slot(k, n) PROVE r = p
  <2>1. r \in Pairs /\ Uses(r, n) /\ RecvChannel(r, n) = k
    BY DEF Slot
  <2>2. PICK t \in Threads : t = Receiver(p) /\ t = Receiver(r)
    BY <1>1, <2>1, UsedChannel
  <2>3. PICK pinfos, rinfos : pinfos = Infos(p, 1, Args(t, n)) /\ rinfos = Infos(r, 1, Args(t, n))
    OBVIOUS
  <2>4. n \in DOMAIN Program[t] /\ pinfos # << >> /\ rinfos # << >>
    BY <1>1, <2>1, <2>2, <2>3, UsedChannel DEF RecvInfos
  <2>5. Channel(p, TagIn(pinfos, p, Args(t, n))) = Channel(r, TagIn(rinfos, r, Args(t, n)))
    BY <1>1, <2>1, <2>2, <2>3 DEF RecvChannel, RecvInfos
  <2> QED
    BY <2>3, <2>4, <2>5, ChannelsDiffer
<1>3. n \in CallsOn(k)
  BY <1>1, UsedChannel DEF CallsOn
<1> QED
  BY <1>1, <1>2, <1>3, UsedChannel

----------------------------------------------------------------------------
(***************************************************************************)
(* Type correctness.                                                       *)
(***************************************************************************)

LEMMA SetToSeqTypes ==
  ASSUME NEW S, IsFiniteSet(S)
  PROVE  SetToSeq(S) \in Seq(S)
<1>1. PICK N \in Nat : N = Cardinality(S) /\ ExistsBijection(1 .. N, S)
  BY FS_CardinalityType
<1>2. \E g \in [1 .. N -> S] : IsInjective(g)
  BY <1>1 DEF ExistsBijection, Bijection, Injection
<1>3. SetToSeq(S) \in [1 .. N -> S]
  BY <1>1, <1>2 DEF SetToSeq
<1> QED
  BY <1>1, <1>3

LEMMA SetToSeqSmall ==
  /\ SetToSeq({}) = << >>
  /\ \A x : SetToSeq({x}) = <<x>>
<1>1. SetToSeq({}) = << >>
  <2>1. SetToSeq({}) \in Seq({})
    BY FS_EmptySet, SetToSeqTypes
  <2> QED
    BY <2>1
<1>2. ASSUME NEW x PROVE SetToSeq({x}) = <<x>>
  <2>1. IsFiniteSet({x}) /\ Cardinality({x}) = 1
    BY FS_Singleton
  <2>2. PICK g : g = [j \in 1 .. 1 |-> x]
    OBVIOUS
  <2>3. g \in [1 .. Cardinality({x}) -> {x}] /\ IsInjective(g)
    BY <2>1, <2>2 DEF IsInjective
  <2>4. SetToSeq({x}) \in [1 .. 1 -> {x}]
    BY <2>1, <2>3 DEF SetToSeq
  <2>5. \A h \in [1 .. 1 -> {x}] : h = <<x>>
    OBVIOUS
  <2> QED
    BY <2>4, <2>5
<1> QED
  BY <1>1, <1>2

LEMMA PairsAreFinite == IsFiniteSet(Pairs)
<1>1. IsFiniteSet(Domains)
  BY TypeAssumption DEF TypeAssumption
<1>2. IsFiniteSet(Domains \X Domains)
  BY <1>1, FS_Product
<1>3. Pairs \subseteq Domains \X Domains
  BY TypeAssumption DEF TypeAssumption, Pairs
<1> QED
  BY <1>2, <1>3, FS_Subset

\* What a call of exchange does, with its local values named.
On(c, recvs, k) == {<<c, p>> : p \in {p \in InUse(recvs) : Channel(p, recvs[p].tag) = k}}

Exchanges(t, n, c, args, recvs, sends) ==
  /\ pc[t] = "program" /\ n = call[t] + 1 /\ call[t] < Len(Program[t])
  /\ c = Obj(t, n) /\ args = Args(t, n) /\ c \notin m_valid
  /\ recvs = [p \in Pairs |-> Allocated(recv_memory[c][p], p, 1, args)]
  /\ sends = [p \in Pairs |-> Allocated(send_memory[c][p], p, 2, args)]

LEMMA ExchangeStep ==
  ASSUME NEW t, Exchange(t)
  PROVE  \E n, c, args, recvs, sends :
           /\ Exchanges(t, n, c, args, recvs, sends)
           /\ m_valid' = m_valid \cup {c}
           /\ current' = [current EXCEPT ![t] = c]
           /\ recv_memory' = [recv_memory EXCEPT ![c] = recvs]
           /\ send_memory' = [send_memory EXCEPT ![c] = sends]
           /\ m_recv_futures' = m_recv_futures \cup ({c} \X InUse(recvs))
           /\ posted' = [k \in Channels |-> posted[k] \o SetToSeq(On(c, recvs, k))]
           /\ todo' = [todo EXCEPT ![t] = InUse(sends)]
           /\ started' = [i \in Instances |-> IF i \in Range(args) THEN started[i] + 1
                                                                   ELSE started[i]]
           /\ call' = [call EXCEPT ![t] = n]
           /\ pc' = [pc EXCEPT ![t] = "pack"]
           /\ UNCHANGED <<m_send_futures, chan, halo, completed>>
<1>1. PICK n, c, args : n = call[t] + 1 /\ c = Program[t][n].co /\ args = Program[t][n].args
  OBVIOUS
<1>2. PICK recvs, sends : /\ recvs = [p \in Pairs |-> Allocated(recv_memory[c][p], p, 1, args)]
                          /\ sends = [p \in Pairs |-> Allocated(send_memory[c][p], p, 2, args)]
  OBVIOUS
<1>3. Exchanges(t, n, c, args, recvs, sends)
  BY <1>1, <1>2 DEF Exchange, Exchanges, Obj, Args
<1>4. /\ m_valid' = m_valid \cup {c}
      /\ current' = [current EXCEPT ![t] = c]
      /\ recv_memory' = [recv_memory EXCEPT ![c] = recvs]
      /\ send_memory' = [send_memory EXCEPT ![c] = sends]
      /\ m_recv_futures' = m_recv_futures \cup ({c} \X InUse(recvs))
      /\ todo' = [todo EXCEPT ![t] = InUse(sends)]
      /\ started' = [i \in Instances |-> IF i \in Range(args) THEN started[i] + 1
                                                              ELSE started[i]]
  BY <1>1, <1>2 DEF Exchange
<1>5. posted' = [k \in Channels |-> posted[k] \o SetToSeq(On(c, recvs, k))]
  BY <1>1, <1>2 DEF Exchange, On
<1>6. call' = [call EXCEPT ![t] = n]
  BY <1>1 DEF Exchange
<1>7. pc' = [pc EXCEPT ![t] = "pack"] /\ UNCHANGED <<m_send_futures, chan, halo, completed>>
  BY DEF Exchange
<1> QED
  BY <1>3, <1>4, <1>5, <1>6, <1>7

LEMMA AllocatedTypes ==
  ASSUME NEW t \in Threads, NEW n \in DOMAIN Program[t], NEW p \in Pairs, NEW side \in {1, 2},
         NEW buffer \in Buffers, NEW a, a = Allocated(buffer, p, side, Args(t, n)),
         NEW infos, infos = Infos(p, side, Args(t, n))
  PROVE  /\ a \in Buffers /\ infos \in Seq(Fields)
         /\ a.data = buffer.data
         /\ buffer.field_infos = << >> => Holds(a, p, side, Args(t, n))
<1>1. PICK args : args = Args(t, n)
  OBVIOUS
<1>2. PICK T, D : T = Seq(Fields) /\ D = Seq(Data) /\ Buffers = [tag : Tags, field_infos : T, data : D]
  BY DEF Buffers
<1>3. infos \in T
  BY <1>2, CallInfos
<1>4. CASE infos = << >>
  <2>1. a = buffer
    BY <1>1, <1>4 DEF Allocated
  <2> QED
    BY <2>1, <1>3, <1>2, <1>4 DEF Holds
<1>5. CASE infos # << >>
  <2>1. PICK tag : tag = IF buffer.field_infos = << >> THEN TagIn(infos, p, args) ELSE buffer.tag
    OBVIOUS
  <2>2. PICK both : both = buffer.field_infos \o infos
    OBVIOUS
  <2>3. a = [buffer EXCEPT !.tag = tag, !.field_infos = both]
    BY <1>1, <1>5, <2>1, <2>2 DEF Allocated, TagIn
  <2>4. buffer.tag \in Tags /\ buffer.field_infos \in T /\ buffer.data \in D
    BY <1>2
  <2>5. tag \in Tags
    BY <2>1, <2>4, <1>1, <1>5, CallInfos
  <2>6. both \in T
    <3>1. \A x, y \in Seq(Fields) : x \o y \in Seq(Fields)
      OBVIOUS
    <3> QED
      BY <3>1, <2>2, <2>4, <1>2, <1>3, Zenon
  <2>7. a \in Buffers /\ a.tag = tag /\ a.field_infos = both /\ a.data = buffer.data
    BY <2>3, <2>4, <2>5, <2>6, <1>2
  <2>8. ASSUME buffer.field_infos = << >> PROVE both = infos /\ tag = TagIn(infos, p, args)
    <3>1. infos \in Seq(Fields)
      BY <1>2, <1>3
    <3> QED
      BY <3>1, <2>1, <2>2, <2>8
  <2>9. infos \in Seq(Fields)
    BY <1>2, <1>3
  <2> QED
    BY <2>7, <2>8, <2>9, <1>1 DEF Holds
<1> QED
  BY <1>4, <1>5

LEMMA ExchangesTypes ==
  ASSUME TypeOK, NEW t \in Threads, NEW n, NEW c, NEW args, NEW recvs, NEW sends,
         Exchanges(t, n, c, args, recvs, sends)
  PROVE  /\ n \in DOMAIN Program[t] /\ n \in 1 .. MaxCalls /\ call[t] \in Nat /\ n = call[t] + 1
         /\ c \in COs /\ ThreadOf[c] = t /\ c \notin m_valid
         /\ args \in Seq(Instances) /\ args = Args(t, n)
         /\ recvs \in [Pairs -> Buffers] /\ sends \in [Pairs -> Buffers]
         /\ InUse(recvs) \subseteq Pairs /\ InUse(sends) \subseteq Pairs
<1>1. call[t] \in Nat /\ n = call[t] + 1 /\ call[t] < Len(Program[t])
  BY DEF TypeOK, Exchanges
<1>2. n \in DOMAIN Program[t] /\ n \in 1 .. MaxCalls
  BY <1>1, CallTypes, TypeAssumption DEF TypeAssumption
<1>3. c \in COs /\ ThreadOf[c] = t /\ args \in Seq(Instances) /\ args = Args(t, n)
  BY <1>2, CallTypes DEF Exchanges, Obj, Args
<1>4. ASSUME NEW p \in Pairs
      PROVE  /\ Allocated(recv_memory[c][p], p, 1, args) \in Buffers
             /\ Allocated(send_memory[c][p], p, 2, args) \in Buffers
  <2>1. recv_memory[c][p] \in Buffers /\ send_memory[c][p] \in Buffers
    BY <1>3 DEF TypeOK
  <2> QED
    BY <2>1, <1>2, <1>3, AllocatedTypes
<1>5. recvs \in [Pairs -> Buffers] /\ sends \in [Pairs -> Buffers]
  BY <1>4 DEF Exchanges
<1> QED
  BY <1>1, <1>2, <1>3, <1>5 DEF Exchanges, InUse

LEMMA OnTypes ==
  ASSUME NEW c \in COs, NEW recvs, NEW k
  PROVE  SetToSeq(On(c, recvs, k)) \in Seq(COs \X Pairs)
<1>1. PICK S : S = {p \in InUse(recvs) : Channel(p, recvs[p].tag) = k}
  OBVIOUS
<1>2. IsFiniteSet(S)
  <2>1. S \subseteq Pairs
    BY <1>1 DEF InUse
  <2> QED
    BY <2>1, PairsAreFinite, FS_Subset
<1>3. IsFiniteSet(On(c, recvs, k))
  <2>1. PICK g : g = [p \in S |-> <<c, p>>]
    OBVIOUS
  <2>2. On(c, recvs, k) = {<<c, p>> : p \in S}
    BY <1>1 DEF On
  <2>3. g \in [S -> On(c, recvs, k)] /\ \A x \in On(c, recvs, k) : \E p \in S : g[p] = x
    BY <2>1, <2>2
  <2>4. g \in Surjection(S, On(c, recvs, k))
    BY <2>3 DEF Surjection
  <2> QED
    BY <2>4, <1>2, FS_Surjection
<1>4. On(c, recvs, k) \subseteq COs \X Pairs
  BY DEF On, InUse
<1>5. SetToSeq(On(c, recvs, k)) \in Seq(On(c, recvs, k))
  BY <1>3, SetToSeqTypes
<1> QED
  BY <1>4, <1>5

----------------------------------------------------------------------------
(***************************************************************************)
(* What the steps do, by the invariant.                                    *)
(***************************************************************************)

LEMMA InfosInstances ==
  ASSUME NEW t \in Threads, NEW n \in DOMAIN Program[t], NEW p, NEW side \in {1, 2},
         NEW infos, infos = Infos(p, side, Args(t, n)), NEW j \in DOMAIN infos
  PROVE  /\ infos[j] \in Fields /\ infos[j] \in Range(infos)
         /\ p \in HalosOf[PatternOf[infos[j]]] /\ p \in Pairs
         /\ <<infos[j], p[side]>> \in Range(Args(t, n))
         /\ <<infos[j], p[side]>> \in Instances
<1>1. PICK args \in Seq(Instances) : args = Args(t, n)
  BY CallTypes DEF Args
<1>2. /\ infos \in Seq(Fields)
      /\ \A f : f \in Range(infos) <=> p \in HalosOf[PatternOf[f]] /\ <<f, p[side]>> \in Range(args)
  BY <1>1, InfosFields
<1>3. infos[j] \in Fields /\ infos[j] \in Range(infos)
  BY <1>2 DEF Range
<1>4. p \in HalosOf[PatternOf[infos[j]]] /\ <<infos[j], p[side]>> \in Range(args)
  BY <1>2, <1>3
<1>5. p \in Pairs
  BY <1>3, <1>4, HalosArePairs
<1>6. <<infos[j], p[side]>> \in Instances
  BY <1>1, <1>4 DEF Range
<1> QED
  BY <1>1, <1>3, <1>4, <1>5, <1>6

LEMMA RoundTypes ==
  ASSUME NEW i, NEW n \in Nat
  PROVE  Round(i, n) \in Nat
BY CountStep DEF Round

LEMMA ExpectedTypes ==
  ASSUME ProgramsFit, NEW p \in Pairs, NEW n, Uses(p, n)
  PROVE  /\ Expected(p, n) \in Seq(Data) /\ Expected(p, n) # << >>
         /\ RecvInfos(p, n) \in Seq(Fields)
         /\ DOMAIN Expected(p, n) = DOMAIN RecvInfos(p, n)
<1>1. PICK infos : infos = RecvInfos(p, n)
  OBVIOUS
<1>2. /\ Receiver(p) \in Threads /\ n \in DOMAIN Program[Receiver(p)] /\ n \in Nat
      /\ infos # << >>
  BY <1>1, UsedChannel
<1>3. infos = Infos(p, 1, Args(Receiver(p), n)) /\ infos \in Seq(Fields)
  BY <1>1, <1>2, CallInfos DEF RecvInfos
<1>4. PICK N \in Nat : N = Len(infos) /\ DOMAIN infos = 1 .. N /\ N # 0
  BY <1>2, <1>3
<1>5. ASSUME NEW j \in 1 .. N
      PROVE  Content(<<infos[j], p[2]>>, Round(<<infos[j], p[2]>>, n)) \in Data
  <2>1. infos[j] \in Fields /\ p[2] \in Domains
    BY <1>3, <1>4, PairTypes
  <2>2. PICK i \in Fields \X Domains : i = <<infos[j], p[2]>>
    BY <2>1
  <2>3. Round(i, n) \in Nat
    BY <1>2, RoundTypes
  <2> QED
    BY <2>2, <2>3 DEF Content, Data
<1>6. Expected(p, n) = [j \in 1 .. N |-> Content(<<infos[j], p[2]>>, Round(<<infos[j], p[2]>>, n))]
  BY <1>1, <1>4 DEF Expected
<1>7. Expected(p, n) \in Seq(Data) /\ DOMAIN Expected(p, n) = 1 .. N
  BY <1>4, <1>5, <1>6
<1>8. Expected(p, n) # << >>
  BY <1>4, <1>7
<1> QED
  BY <1>1, <1>3, <1>4, <1>7, <1>8

\* An instance and the instance its halo is filled from are exchanged in the
\* same calls.
LEMMA RoundsAgree ==
  ASSUME ProgramsFit, NEW f \in Fields, NEW p \in HalosOf[PatternOf[f]], NEW n
  PROVE  Round(<<f, p[1]>>, n) = Round(<<f, p[2]>>, n)
<1>1. p \in Pairs /\ Receiver(p) \in Threads /\ Sender(p) \in Threads
  BY HalosArePairs, PairTypes
<1>2. PICK r, s : r = Receiver(p) /\ s = Sender(p) /\ r = OwnerOf[p[1]] /\ s = OwnerOf[p[2]]
  BY DEF Receiver, Sender
<1>3. DOMAIN Program[r] = DOMAIN Program[s]
  <2>1. Len(Program[r]) = Len(Program[s])
    BY <1>1, <1>2 DEF ProgramsFit
  <2> QED
    BY <2>1, <1>1, <1>2, CallTypes
<1>4. ASSUME NEW m \in DOMAIN Program[r]
      PROVE  <<f, p[1]>> \in Range(Args(r, m)) <=> <<f, p[2]>> \in Range(Args(s, m))
  <2>1. Args(r, m) \in Seq(Instances) /\ Args(s, m) \in Seq(Instances)
    BY <1>1, <1>2, <1>3, CallTypes DEF Args
  <2>2. f \in Range(Infos(p, 1, Args(r, m))) <=> <<f, p[1]>> \in Range(Args(r, m))
    BY <2>1, InfosFields
  <2>3. f \in Range(Infos(p, 2, Args(s, m))) <=> <<f, p[2]>> \in Range(Args(s, m))
    BY <2>1, InfosFields
  <2>4. Infos(p, 2, Args(s, m)) = Infos(p, 1, Args(r, m))
    BY <1>1, <1>2, EndsAgree DEF RecvInfos
  <2> QED
    BY <2>2, <2>3, <2>4
<1>5. CallsOf(<<f, p[1]>>) = CallsOf(<<f, p[2]>>)
  <2>1. CallsOf(<<f, p[1]>>) = {m \in DOMAIN Program[r] : <<f, p[1]>> \in Range(Args(r, m))}
    BY <1>2 DEF CallsOf
  <2>2. CallsOf(<<f, p[2]>>) = {m \in DOMAIN Program[s] : <<f, p[2]>> \in Range(Args(s, m))}
    BY <1>2 DEF CallsOf
  <2> QED
    BY <2>1, <2>2, <1>3, <1>4
<1> QED
  BY <1>5 DEF Round

LEMMA LastIsUnique ==
  ASSUME TypeOK, NEW t \in Threads, NEW c, NEW n, IsLast(t, c, n)
  PROVE  n \in Nat /\ LastCall(t, c) = n /\ \A m : IsLast(t, c, m) => m = n
<1>1. call[t] \in Nat
  BY DEF TypeOK
<1>2. ASSUME NEW m, IsLast(t, c, m) PROVE m = n
  <2>1. m \in 1 .. call[t] /\ n \in 1 .. call[t] /\ Obj(t, m) = c /\ Obj(t, n) = c
    BY <1>2 DEF IsLast
  <2>2. m \notin n + 1 .. call[t] /\ n \notin m + 1 .. call[t]
    BY <1>2, <2>1 DEF IsLast
  <2> QED
    BY <1>1, <2>1, <2>2
<1>3. \A m : IsLast(t, c, m) <=> /\ m \in 1 .. call[t]
                                 /\ Program[t][m].co = c
                                 /\ \A l \in m + 1 .. call[t] : Program[t][l].co # c
  BY DEF IsLast, Obj
<1>4. LastCall(t, c) \in 1 .. call[t] /\ IsLast(t, c, LastCall(t, c))
  BY <1>3 DEF LastCall
<1>5. n \in Nat
  BY <1>1 DEF IsLast
<1> QED
  BY <1>2, <1>4, <1>5

\* Bounds and types that the cases share.
LEMMA CallBounds ==
  ASSUME TypeOK, ControlInv, NEW t \in Threads
  PROVE  /\ call[t] \in Nat
         /\ DOMAIN Program[t] = 1 .. Len(Program[t])
         /\ 1 .. call[t] \subseteq DOMAIN Program[t]
<1>1. call[t] \in Nat /\ call[t] <= Len(Program[t])
  BY DEF TypeOK, ControlInv
<1>2. Len(Program[t]) \in Nat /\ DOMAIN Program[t] = 1 .. Len(Program[t])
  BY CallTypes
<1> QED
  BY <1>1, <1>2

LEMMA SentBounds ==
  ASSUME TypeOK, ControlInv, NEW k \in Channels
  PROVE  /\ call[SenderOf(k)] \in Nat /\ SentCall(k) \in Nat
         /\ SentCall(k) <= call[SenderOf(k)]
         /\ SentCall(k) # call[SenderOf(k)]
              => /\ call[SenderOf(k)] = SentCall(k) + 1
                 /\ \E p \in todo[SenderOf(k)] : RecvChannel(p, call[SenderOf(k)]) = k
<1>1. PICK u \in Threads : u = SenderOf(k)
  BY ChannelEnds
<1>2. call[u] \in Nat
  BY DEF TypeOK
<1>3. CASE \E p \in todo[u] : RecvChannel(p, call[u]) = k
  <2>1. call[u] > 0
    BY <1>3 DEF ControlInv
  <2>2. SentCall(k) = call[u] - 1
    BY <1>1, <1>3 DEF SentCall
  <2> QED
    BY <1>1, <1>2, <1>3, <2>1, <2>2
<1>4. CASE ~\E p \in todo[u] : RecvChannel(p, call[u]) = k
  <2>1. SentCall(k) = call[u]
    BY <1>1, <1>4 DEF SentCall
  <2> QED
    BY <1>1, <1>2, <2>1
<1> QED
  BY <1>3, <1>4

LEMMA PackStep ==
  ASSUME ProgramsFit, TypeOK, ControlInv, MemoryInv, HistoryInv,
         NEW t \in Threads, NEW p \in Pairs, Pack(t, p)
  PROVE  \E n, c, k :
           /\ pc[t] = "pack" /\ p \in todo[t] /\ Uses(p, n)
           /\ n = call[t] /\ c = Obj(t, n) /\ c = current[t] /\ c \in COs
           /\ k \in Channels /\ SenderOf(k) = t /\ p \in Slot(k, n) /\ RecvChannel(p, n) = k
           /\ todo' = [todo EXCEPT ![t] = @ \ {p}]
           /\ m_send_futures' = m_send_futures \cup {<<c, p>>}
           /\ chan' = [chan EXCEPT ![k] = Append(@, [from |-> <<c, p>>, data |-> Expected(p, n)])]
           /\ UNCHANGED <<pc, call, current, m_valid, buffers, m_recv_futures, posted, halo, history>>
<1>1. PICK n, c, buffer : n = call[t] /\ c = current[t] /\ buffer = send_memory[c][p]
  OBVIOUS
<1>2. pc[t] = "pack" /\ p \in todo[t]
  BY DEF Pack
<1>3. c = Obj(t, n) /\ c \in m_valid /\ Sender(p) = t /\ Uses(p, n) /\ n > 0 /\ c \in COs
  BY <1>1, <1>2 DEF ControlInv, TypeOK
<1>4. n \in 1 .. call[t] /\ n \in DOMAIN Program[t] /\ n \in Nat
  BY <1>1, <1>3, CallBounds
<1>5. ThreadOf[c] = t
  BY <1>3, <1>4, CallTypes DEF Obj
<1>6. IsLast(t, c, n)
  <2>1. n + 1 .. call[t] = {}
    BY <1>1, <1>4
  <2> QED
    BY <2>1, <1>3, <1>4 DEF IsLast
<1>7. Holds(buffer, p, 2, Args(t, n))
  BY <1>1, <1>3, <1>4, <1>5, <1>6 DEF MemoryInv
<1>8. PICK infos : infos = RecvInfos(p, n)
  OBVIOUS
<1>9. /\ n \in DOMAIN Program[Receiver(p)] /\ infos # << >>
      /\ Infos(p, 2, Args(t, n)) = infos
      /\ Channel(p, TagIn(infos, p, Args(t, n))) = RecvChannel(p, n)
  BY <1>3, <1>8, UsedChannel, EndsAgree
<1>10. buffer.field_infos = infos /\ Channel(p, buffer.tag) = RecvChannel(p, n)
  BY <1>7, <1>9 DEF Holds
<1>11. PICK k : k = RecvChannel(p, n)
  OBVIOUS
<1>12. k \in Channels /\ SenderOf(k) = t /\ p \in Slot(k, n)
  BY <1>3, <1>11, UsedChannel
<1>13. ASSUME NEW j \in DOMAIN infos
       PROVE  Content(<<infos[j], p[2]>>, started[<<infos[j], p[2]>>])
                = Content(<<infos[j], p[2]>>, Round(<<infos[j], p[2]>>, n))
  <2>1. PICK i \in Instances : i = <<infos[j], p[2]>>
    BY <1>4, <1>9, InfosInstances
  <2>2. OwnerOf[i[2]] = t
    BY <2>1, <1>3 DEF Sender
  <2>3. started[i] = Round(i, n)
    BY <2>2, <1>1 DEF HistoryInv
  <2> QED
    BY <2>1, <2>3
<1>14. Expected(p, n) = [j \in DOMAIN buffer.field_infos |->
                           LET i == <<buffer.field_infos[j], p[2]>> IN Content(i, started[i])]
  <2>1. Expected(p, n) = [j \in DOMAIN infos |->
                            Content(<<infos[j], p[2]>>, Round(<<infos[j], p[2]>>, n))]
    BY <1>8 DEF Expected
  <2>2. Expected(p, n) = [j \in DOMAIN infos |->
                            Content(<<infos[j], p[2]>>, started[<<infos[j], p[2]>>])]
    BY <2>1, <1>13
  <2> QED
    BY <2>2, <1>10
<1>15. chan' = [chan EXCEPT ![k] = Append(@, [from |-> <<c, p>>, data |-> Expected(p, n)])]
  BY <1>1, <1>10, <1>11, <1>14 DEF Pack
<1>16. /\ todo' = [todo EXCEPT ![t] = @ \ {p}]
       /\ m_send_futures' = m_send_futures \cup {<<c, p>>}
       /\ UNCHANGED <<pc, call, current, m_valid, buffers, m_recv_futures, posted, halo, history>>
  BY <1>1 DEF Pack
<1> QED
  BY <1>1, <1>2, <1>3, <1>11, <1>12, <1>15, <1>16

\* The first receive and the first message of a channel are of the same call.
LEMMA MatchStep ==
  ASSUME ProgramsFit, TypeOK, ControlInv, CountInv, PostedInv, SentInv,
         NEW k \in Channels, posted[k] # << >>, chan[k] # << >>
  PROVE  \E n, p, c :
           /\ n \in 1 .. call[ReceiverOf(k)] /\ n \in 1 .. SentCall(k) /\ n \in Nat
           /\ p \in Slot(k, n) /\ c = Obj(ReceiverOf(k), n) /\ c \in COs
           /\ Pos(k, n) = Matched(k) + 1
           /\ Head(posted[k]) = <<c, p>>
           /\ Head(chan[k]) = [from |-> <<Obj(SenderOf(k), n), p>>, data |-> Expected(p, n)]
           /\ c \in m_valid /\ IsLast(ReceiverOf(k), c, n) /\ <<c, p>> \in m_recv_futures
<1>1. PICK t, u \in Threads : t = ReceiverOf(k) /\ u = SenderOf(k)
  BY ChannelEnds
<1>2. PICK M \in Nat : M = Matched(k)
  BY DEF CountInv
<1>3. PICK P \in Nat : P = Len(posted[k]) /\ P # 0 /\ Head(posted[k]) = posted[k][1]
  BY DEF TypeOK
<1>4. PICK Q \in Nat : Q = Len(chan[k]) /\ Q # 0 /\ Head(chan[k]) = chan[k][1]
  BY DEF TypeOK
<1>5. call[t] \in Nat /\ SentCall(k) \in Nat
  BY <1>1, CallBounds, SentBounds
<1>6. Pos(k, call[t]) = M + P
  <2>1. Pos(k, call[t]) \in Nat
    BY <1>5, CountStep DEF Pos
  <2> QED
    BY <2>1, <1>1, <1>2, <1>3 DEF Matched
<1>7. Pos(k, SentCall(k)) = M + Q
  BY <1>2, <1>4 DEF CountInv
<1>8. PICK n \in 1 .. call[t] : n \in CallsOn(k) /\ Pos(k, n) = M + 1
  <2>1. M + 1 \in 1 .. Count(CallsOn(k), call[t])
    BY <1>3, <1>6 DEF Pos
  <2> QED
    BY <2>1, <1>5, CountOnto DEF Pos
<1>9. PICK p \in Slot(k, n) : TRUE
  BY <1>8 DEF CallsOn
<1>10. n <= SentCall(k)
  <2>1. SUFFICES ASSUME SentCall(k) < n PROVE FALSE
    BY <1>5
  <2>2. n \in Nat /\ SentCall(k) \in 0 .. n
    BY <2>1, <1>5
  <2>3. Pos(k, SentCall(k)) < Pos(k, n)
    BY <2>1, <2>2, <1>8, CountMonotone DEF Pos
  <2> QED
    BY <2>3, <1>4, <1>7, <1>8
<1>11. PICK c : c = Obj(t, n)
  OBVIOUS
<1>12. c \in COs
  <2>1. n \in DOMAIN Program[t]
    BY CallBounds
  <2> QED
    BY <2>1, <1>11, CallTypes DEF Obj
<1>13. Pos(k, n) > M /\ Pos(k, n) - M = 1
  BY <1>8
<1>14. /\ posted[k][1] = <<c, p>> /\ c \in m_valid /\ IsLast(t, c, n)
       /\ <<c, p>> \in m_recv_futures
  BY <1>1, <1>2, <1>8, <1>9, <1>11, <1>13 DEF PostedInv
<1>15. n \in 1 .. SentCall(k) /\ n \in Nat
  BY <1>5, <1>10
<1>16. chan[k][1] = [from |-> <<Obj(u, n), p>>, data |-> Expected(p, n)]
  BY <1>1, <1>2, <1>9, <1>13, <1>15 DEF SentInv
<1> QED
  BY <1>1, <1>2, <1>3, <1>4, <1>8, <1>9, <1>11, <1>12, <1>14, <1>15, <1>16

\* The buffer of a receive that is open.
LEMMA OpenReceive ==
  ASSUME ProgramsFit, TypeOK, ControlInv, OpenInv, MemoryInv,
         NEW c \in COs, NEW p \in Pairs, <<c, p>> \in m_recv_futures
  PROVE  /\ c \in m_valid /\ Receiver(p) = ThreadOf[c] /\ Receiver(p) \in Threads
         /\ \E n \in Nat : IsLast(ThreadOf[c], c, n)
         /\ \A n : IsLast(ThreadOf[c], c, n) =>
              /\ n \in DOMAIN Program[ThreadOf[c]] /\ Uses(p, n) /\ c = Obj(ThreadOf[c], n)
              /\ recv_memory[c][p].field_infos = RecvInfos(p, n)
              /\ n \in 1 .. call[ThreadOf[c]] /\ n \in Nat
<1>1. c \in m_valid
  BY DEF MemoryInv
<1>2. PICK t \in Threads : t = ThreadOf[c]
  BY TypeAssumption DEF TypeAssumption
<1>3. ASSUME NEW n, IsLast(t, c, n)
      PROVE  /\ n \in DOMAIN Program[t] /\ Uses(p, n) /\ c = Obj(t, n) /\ Receiver(p) = t
             /\ recv_memory[c][p].field_infos = RecvInfos(p, n)
             /\ n \in 1 .. call[t] /\ n \in Nat
  <2>1. n \in 1 .. call[t] /\ c = Obj(t, n)
    BY <1>3 DEF IsLast
  <2>2. n \in DOMAIN Program[t] /\ n \in Nat
    BY <2>1, CallBounds
  <2>3. PICK infos : infos = Infos(p, 1, Args(t, n))
    OBVIOUS
  <2>4. recv_memory[c][p].field_infos = infos /\ infos # << >>
    BY <1>1, <1>2, <1>3, <2>2, <2>3 DEF MemoryInv, Holds
  <2>5. Receiver(p) = t
    BY <2>2, <2>3, <2>4, CallInfos DEF Receiver
  <2> QED
    BY <2>1, <2>2, <2>3, <2>4, <2>5 DEF Uses, RecvInfos
<1>4. PICK n \in Nat : IsLast(t, c, n)
  BY <1>1, <1>2 DEF OpenInv
<1> QED
  BY <1>1, <1>2, <1>3, <1>4

LEMMA UnpackStep ==
  ASSUME ProgramsFit, TypeOK, ControlInv, OpenInv, MemoryInv, PostedInv, CountInv, ReceivedInv,
         HistoryInv, NEW t \in Threads, NEW p \in Pairs, Unpack(t, p)
  PROVE  \E n, c, infos :
           /\ c = current[t] /\ c \in COs /\ c \in m_valid /\ t = ThreadOf[c]
           /\ n \in Nat /\ IsLast(t, c, n) /\ Receiver(p) = t /\ Uses(p, n)
           /\ <<c, p>> \in m_recv_futures
           /\ infos = RecvInfos(p, n) /\ infos = recv_memory[c][p].field_infos
           /\ Pos(RecvChannel(p, n), n) <= Matched(RecvChannel(p, n))
           /\ \A f \in Range(infos) :
                /\ f \in Fields /\ p \in HalosOf[PatternOf[f]]
                /\ <<f, p[1]>> \in Range(Args(t, n)) /\ <<f, p[1]>> \in Instances
                /\ started[<<f, p[1]>>] = Round(<<f, p[1]>>, n)
                /\ halo'[f] = [halo[f] EXCEPT ![p] = Content(<<f, p[2]>>, started[<<f, p[1]>>])]
           /\ \A f \in Fields : f \notin Range(infos) => halo'[f] = halo[f]
           /\ m_recv_futures' = m_recv_futures \ {<<c, p>>}
           /\ UNCHANGED <<pc, call, current, todo, m_valid, buffers, m_send_futures, mpi, history>>
<1>1. PICK c \in COs : c = current[t]
  BY DEF TypeOK
<1>2. <<c, p>> \in m_recv_futures /\ recv_memory[c][p].data # << >>
  BY <1>1 DEF Unpack
<1>3. /\ c \in m_valid /\ t = ThreadOf[c]
  BY <1>1 DEF Unpack, ControlInv
<1>4. PICK n \in Nat : IsLast(t, c, n)
  BY <1>3 DEF OpenInv
<1>5. PICK infos : infos = RecvInfos(p, n) /\ infos = recv_memory[c][p].field_infos
  BY <1>2, <1>3, <1>4, OpenReceive
<1>6. /\ Receiver(p) = t /\ n \in DOMAIN Program[t] /\ Uses(p, n) /\ c = Obj(t, n)
      /\ n \in 1 .. call[t]
  BY <1>2, <1>3, <1>4, OpenReceive
<1>7. PICK k \in Channels : k = RecvChannel(p, n) /\ p \in Slot(k, n) /\ ReceiverOf(k) = t
  BY <1>6, UsedChannel
<1>8. Pos(k, n) <= Matched(k)
  <2>1. Pos(k, n) \in Nat /\ Matched(k) \in Nat
    BY CountStep DEF Pos, CountInv
  <2>2. ~(Pos(k, n) > Matched(k))
    BY <1>2, <1>6, <1>7 DEF PostedInv
  <2> QED
    BY <2>1, <2>2
<1>9. recv_memory[c][p].data = Expected(p, n)
  BY <1>2, <1>3, <1>4, <1>7, <1>8 DEF ReceivedInv
<1>10. ASSUME NEW f \in Range(infos)
       PROVE  /\ f \in Fields /\ p \in HalosOf[PatternOf[f]]
              /\ <<f, p[1]>> \in Range(Args(t, n)) /\ <<f, p[1]>> \in Instances
              /\ started[<<f, p[1]>>] = Round(<<f, p[1]>>, n)
              /\ halo'[f] = [halo[f] EXCEPT ![p] = Content(<<f, p[2]>>, started[<<f, p[1]>>])]
  <2>1. infos = Infos(p, 1, Args(t, n))
    BY <1>5, <1>6 DEF RecvInfos
  <2>2. PICK l \in DOMAIN infos : f = infos[l]
    BY DEF Range
  <2>3. /\ f \in Fields /\ p \in HalosOf[PatternOf[f]]
        /\ <<f, p[1]>> \in Range(Args(t, n)) /\ <<f, p[1]>> \in Instances
    BY <1>6, <2>1, <2>2, InfosInstances
  <2>4. started[<<f, p[1]>>] = Round(<<f, p[1]>>, n)
    BY <1>3, <1>4, <2>3 DEF HistoryInv
  <2>5. PICK j \in DOMAIN infos : /\ infos[j] = f
                                  /\ j = CHOOSE i \in DOMAIN infos : infos[i] = f
    BY <2>2
  <2>6. Expected(p, n)[j] = Content(<<f, p[2]>>, Round(<<f, p[2]>>, n))
    BY <1>5, <2>5 DEF Expected
  <2>7. Round(<<f, p[2]>>, n) = started[<<f, p[1]>>]
    BY <2>3, <2>4, RoundsAgree
  <2>8. halo'[f] = [halo[f] EXCEPT ![p] =
                      recv_memory[c][p].data[CHOOSE i \in DOMAIN infos : infos[i] = f]]
    BY <1>1, <1>5, <2>3 DEF Unpack, Unpacked
  <2> QED
    BY <1>9, <2>3, <2>4, <2>5, <2>6, <2>7, <2>8
<1>11. \A f \in Fields : f \notin Range(infos) => halo'[f] = halo[f]
  BY <1>1, <1>5 DEF Unpack, Unpacked
<1>12. /\ m_recv_futures' = m_recv_futures \ {<<c, p>>}
       /\ UNCHANGED <<pc, call, current, todo, m_valid, buffers, m_send_futures, mpi, history>>
  BY <1>1 DEF Unpack
<1> QED
  BY <1>1, <1>2, <1>3, <1>4, <1>5, <1>6, <1>7, <1>8, <1>10, <1>11, <1>12

----------------------------------------------------------------------------
(***************************************************************************)
(* Type correctness is inductive with the other parts of the invariant.    *)
(***************************************************************************)

LEMMA TypeInit == Init => TypeOK
<1> SUFFICES ASSUME Init PROVE TypeOK
  OBVIOUS
<1>1. Empty \in Buffers
  BY TypeAssumption DEF TypeAssumption, Empty, Buffers, Tags
<1>2. recv_memory \in [COs -> [Pairs -> Buffers]] /\ send_memory \in [COs -> [Pairs -> Buffers]]
  BY <1>1 DEF Init
<1>3. current \in [Threads -> COs]
  <2>1. \A t \in Threads : (CHOOSE c \in COs : ThreadOf[c] = t) \in COs
    BY TypeAssumption DEF TypeAssumption
  <2> QED
    BY <2>1 DEF Init
<1>4. ASSUME NEW f \in Fields PROVE halo[f] \in [HalosOf[PatternOf[f]] -> Data]
  <2>1. ASSUME NEW p \in HalosOf[PatternOf[f]] PROVE Content(<<f, p[2]>>, 0) \in Data
    <3>1. p[2] \in Domains
      BY HalosArePairs, PairTypes
    <3> QED
      BY <3>1 DEF Content, Data
  <2> QED
    BY <2>1 DEF Init
<1>5. /\ pc \in [Threads -> {"program", "pack", "wait"}]
      /\ call \in [Threads -> 0 .. MaxCalls]
      /\ todo \in [Threads -> SUBSET Pairs]
  BY TypeAssumption DEF Init, TypeAssumption
<1>6. /\ posted \in [Channels -> Seq(COs \X Pairs)]
      /\ chan \in [Channels -> Seq([from : COs \X Pairs, data : Seq(Data)])]
  BY DEF Init
<1>7. started \in [Instances -> Nat] /\ completed \in [Instances -> Nat]
  BY DEF Init
<1>8. m_valid \subseteq COs /\ m_recv_futures \subseteq COs \X Pairs /\ m_send_futures \subseteq COs \X Pairs
  BY DEF Init
<1> QED
  BY <1>2, <1>3, <1>4, <1>5, <1>6, <1>7, <1>8 DEF TypeOK

----------------------------------------------------------------------------
(***************************************************************************)
(* The steps that only change the control.                                 *)
(***************************************************************************)

LEMMA SameBuffers ==
  ASSUME MemoryInv /\ OpenInv, UNCHANGED <<call, m_valid, recv_memory, send_memory, m_recv_futures>>
  PROVE  MemoryInv' /\ OpenInv'
<1>1. \A t, c, n : IsLast(t, c, n)' <=> IsLast(t, c, n)
  BY DEF IsLast
<1>2. MemoryInv'
  <2>1. \A b, p, side, args : Holds(b, p, side, args)' <=> Holds(b, p, side, args)
    BY DEF Holds
  <2> QED
    BY <2>1, <1>1 DEF MemoryInv
<1>3. OpenInv'
  BY <1>1 DEF OpenInv
<1> QED
  BY <1>2, <1>3

LEMMA SameChannels ==
  ASSUME CountInv /\ PostedInv /\ SentInv /\ ReceivedInv,
         UNCHANGED <<call, todo, m_valid, recv_memory, m_recv_futures, posted, chan>>
  PROVE  CountInv' /\ PostedInv' /\ SentInv' /\ ReceivedInv'
<1>1. \A k : Matched(k)' = Matched(k) /\ SentCall(k)' = SentCall(k)
  BY DEF Matched, SentCall
<1>2. \A t, c, n : IsLast(t, c, n)' <=> IsLast(t, c, n)
  BY DEF IsLast
<1>3. CountInv'
  BY <1>1 DEF CountInv
<1>4. PostedInv'
  BY <1>1, <1>2 DEF PostedInv
<1>5. SentInv'
  BY <1>1 DEF SentInv
<1>6. ReceivedInv'
  BY <1>1, <1>2 DEF ReceivedInv
<1> QED
  BY <1>3, <1>4, <1>5, <1>6

LEMMA SameHistory ==
  ASSUME HistoryInv, UNCHANGED <<call, m_valid, started, completed>>
  PROVE  HistoryInv'
BY DEF HistoryInv, IsLast

LEMMA SameHalos ==
  ASSUME HaloInv, UNCHANGED <<halo, started, m_recv_futures, recv_memory>>
  PROVE  HaloInv'
BY DEF HaloInv, Waits

LEMMA SameTypes ==
  ASSUME TypeOK,
         UNCHANGED <<call, todo, m_valid, recv_memory, send_memory, m_recv_futures, posted, chan,
                     halo, started, completed>>,
         pc' \in [Threads -> {"program", "pack", "wait"}],
         current' \in [Threads -> COs],
         m_send_futures' \subseteq COs \X Pairs
  PROVE  TypeOK'
BY DEF TypeOK

LEMMA QuietSteps ==
  ASSUME CommInv,
         \/ UNCHANGED vars
         \/ \E t \in Threads : ExchangeReturns(t) \/ \E c \in COs : WaitStart(t, c)
         \/ \E c \in COs, p \in Pairs : SendBuffered(c, p)
  PROVE  CommInv'
<1>1. TypeOK /\ ControlInv /\ MemoryInv /\ OpenInv /\ HistoryInv /\ HaloInv
      /\ CountInv /\ PostedInv /\ SentInv /\ ReceivedInv
  BY DEF CommInv
<1>2. UNCHANGED <<call, todo, m_valid, recv_memory, send_memory, m_recv_futures, posted, chan,
                  halo, started, completed>>
  BY DEF vars, ExchangeReturns, WaitStart, SendBuffered, buffers, futures, mpi, history
<1>3. /\ MemoryInv' /\ OpenInv' /\ CountInv' /\ PostedInv' /\ SentInv' /\ ReceivedInv'
      /\ HistoryInv' /\ HaloInv'
  BY <1>1, <1>2, SameBuffers, SameChannels, SameHistory, SameHalos
<1>4. TypeOK' /\ ControlInv'
  <2>1. CASE UNCHANGED <<pc, current, m_send_futures>>
    <3>1. TypeOK'
      BY <1>1, <1>2, <2>1 DEF TypeOK
    <3> QED
      BY <3>1, <1>1, <1>2, <2>1 DEF ControlInv
  <2>2. CASE \E t \in Threads : ExchangeReturns(t)
    <3>1. PICK t \in Threads : ExchangeReturns(t)
      BY <2>2
    <3>2. /\ pc[t] = "pack" /\ todo[t] = {} /\ pc' = [pc EXCEPT ![t] = "program"]
          /\ current' = current /\ m_send_futures' = m_send_futures
      BY <3>1 DEF ExchangeReturns, futures
    <3>3. pc' \in [Threads -> {"program", "pack", "wait"}] /\ pc'[t] = "program"
          /\ \A s \in Threads : s # t => pc'[s] = pc[s]
      BY <1>1, <3>2 DEF TypeOK
    <3>4. TypeOK'
      BY <1>1, <1>2, <3>2, <3>3, SameTypes DEF TypeOK
    <3>5. ControlInv'
      BY <1>1, <1>2, <3>2, <3>3 DEF ControlInv
    <3> QED
      BY <3>4, <3>5
  <2>3. CASE \E t \in Threads : \E c \in COs : WaitStart(t, c)
    <3>1. PICK t \in Threads, c \in COs : WaitStart(t, c)
      BY <2>3
    <3>2. /\ pc[t] = "program" /\ c \in m_valid /\ ThreadOf[c] = t
          /\ pc' = [pc EXCEPT ![t] = "wait"] /\ current' = [current EXCEPT ![t] = c]
          /\ m_send_futures' = m_send_futures
      BY <3>1 DEF WaitStart, futures
    <3>3. /\ pc' \in [Threads -> {"program", "pack", "wait"}] /\ pc'[t] = "wait"
          /\ current' \in [Threads -> COs] /\ current'[t] = c
          /\ \A s \in Threads : s # t => pc'[s] = pc[s] /\ current'[s] = current[s]
      BY <1>1, <3>2 DEF TypeOK
    <3>4. TypeOK'
      BY <1>1, <1>2, <3>2, <3>3, SameTypes DEF TypeOK
    <3>5. ControlInv'
      BY <1>1, <1>2, <3>2, <3>3 DEF ControlInv
    <3> QED
      BY <3>4, <3>5
  <2>4. CASE \E c \in COs, p \in Pairs : SendBuffered(c, p)
    <3>1. pc' = pc /\ current' = current /\ m_send_futures' \subseteq m_send_futures
      BY <2>4 DEF SendBuffered
    <3>2. TypeOK'
      BY <1>1, <1>2, <3>1, SameTypes DEF TypeOK
    <3>3. ControlInv'
      BY <1>1, <1>2, <3>1 DEF ControlInv
    <3> QED
      BY <3>2, <3>3
  <2> QED
    BY <2>1, <2>2, <2>3, <2>4 DEF vars, futures
<1> QED
  BY <1>3, <1>4 DEF CommInv

----------------------------------------------------------------------------
(***************************************************************************)
(* pack.                                                                   *)
(***************************************************************************)

LEMMA AppendFacts ==
  ASSUME NEW S, NEW s \in Seq(S), NEW x \in S, NEW a, a = Append(s, x)
  PROVE  /\ a \in Seq(S) /\ Len(s) \in Nat /\ Len(a) = Len(s) + 1 /\ a[Len(s) + 1] = x
         /\ \A j \in 1 .. Len(s) : a[j] = s[j]
OBVIOUS

LEMMA TailFacts ==
  ASSUME NEW S, NEW s \in Seq(S), s # << >>, NEW a, a = Tail(s)
  PROVE  /\ a \in Seq(S) /\ Len(s) \in Nat /\ Len(s) = Len(a) + 1 /\ Len(a) \in Nat
         /\ \A j \in 1 .. Len(a) : a[j] = s[j + 1]
OBVIOUS

Message == [from : COs \X Pairs, data : Seq(Data)]

LEMMA PackPreserves ==
  ASSUME ProgramsFit, CommInv, NEW t \in Threads, NEW p \in Pairs, Pack(t, p)
  PROVE  CommInv'
<1>1. TypeOK /\ ControlInv /\ MemoryInv /\ OpenInv /\ HistoryInv /\ HaloInv
      /\ CountInv /\ PostedInv /\ SentInv /\ ReceivedInv
  BY DEF CommInv
<1>2. PICK n, c, k :
           /\ pc[t] = "pack" /\ p \in todo[t] /\ Uses(p, n)
           /\ n = call[t] /\ c = Obj(t, n) /\ c = current[t] /\ c \in COs
           /\ k \in Channels /\ SenderOf(k) = t /\ p \in Slot(k, n) /\ RecvChannel(p, n) = k
           /\ todo' = [todo EXCEPT ![t] = @ \ {p}]
           /\ m_send_futures' = m_send_futures \cup {<<c, p>>}
           /\ chan' = [chan EXCEPT ![k] = Append(@, [from |-> <<c, p>>, data |-> Expected(p, n)])]
           /\ UNCHANGED <<pc, call, current, m_valid, buffers, m_recv_futures, posted, halo, history>>
  BY <1>1, PackStep
<1>3. UNCHANGED <<pc, call, current, m_valid, recv_memory, send_memory, m_recv_futures, posted, halo,
                  started, completed>>
  BY <1>2 DEF buffers, history
<1>4. MemoryInv' /\ OpenInv' /\ HistoryInv' /\ HaloInv'
  BY <1>1, <1>3, SameBuffers, SameHistory, SameHalos
<1>5. /\ todo \in [Threads -> SUBSET Pairs] /\ todo'[t] = todo[t] \ {p}
      /\ \A s \in Threads : s # t => todo'[s] = todo[s]
      /\ todo' \in [Threads -> SUBSET Pairs]
  BY <1>1, <1>2 DEF TypeOK
<1>6. PICK message : message = [from |-> <<c, p>>, data |-> Expected(p, n)]
  OBVIOUS
<1>7. message \in Message
  BY <1>2, <1>6, ExpectedTypes DEF Message
<1>8. chan \in [Channels -> Seq(Message)]
  BY <1>1 DEF TypeOK, Message
<1>9. /\ chan' \in [Channels -> Seq(Message)]
      /\ chan'[k] \in Seq(Message)
      /\ Len(chan[k]) \in Nat /\ Len(chan'[k]) = Len(chan[k]) + 1
      /\ chan'[k][Len(chan[k]) + 1] = message
      /\ \A j \in 1 .. Len(chan[k]) : chan'[k][j] = chan[k][j]
      /\ \A l \in Channels : l # k => chan'[l] = chan[l]
  <2>1. PICK s \in Seq(Message) : s = chan[k]
    BY <1>2, <1>8
  <2>2. PICK a : a = Append(s, message)
    OBVIOUS
  <2>3. /\ a \in Seq(Message) /\ Len(s) \in Nat /\ Len(a) = Len(s) + 1 /\ a[Len(s) + 1] = message
        /\ \A j \in 1 .. Len(s) : a[j] = s[j]
    BY <1>7, <2>2, AppendFacts
  <2>4. chan' = [chan EXCEPT ![k] = a]
    BY <1>2, <1>6, <2>1, <2>2
  <2>5. chan'[k] = a /\ \A l \in Channels : l # k => chan'[l] = chan[l]
    BY <1>2, <1>8, <2>4
  <2>6. chan' \in [Channels -> Seq(Message)]
    BY <1>8, <2>3, <2>4
  <2> QED
    BY <2>1, <2>3, <2>5, <2>6
<1>10. TypeOK'
  <2>1. m_send_futures' \subseteq COs \X Pairs
    BY <1>1, <1>2 DEF TypeOK
  <2>2. chan' \in [Channels -> Seq([from : COs \X Pairs, data : Seq(Data)])]
    BY <1>9 DEF Message
  <2> QED
    BY <2>1, <2>2, <1>1, <1>3, <1>5 DEF TypeOK
<1>11. ControlInv'
  BY <1>1, <1>2, <1>3, <1>5 DEF ControlInv
<1>12. n \in Nat /\ n > 0 /\ n - 1 \in Nat /\ n = (n - 1) + 1
  BY <1>2, UsedChannel
<1>13. SentCall(k) = n - 1 /\ SentCall(k)' = n
  <2>1. SentCall(k) = n - 1
    BY <1>2 DEF SentCall
  <2>2. ASSUME NEW r \in todo'[t], RecvChannel(r, n) = k PROVE FALSE
    <3>1. r \in todo[t] /\ r # p /\ r \in Pairs
      BY <1>5
    <3>2. Uses(r, n)
      BY <1>1, <1>2, <3>1 DEF ControlInv
    <3>3. r \in Slot(k, n)
      BY <2>2, <3>1, <3>2 DEF Slot
    <3> QED
      BY <1>2, <3>1, <3>3, SlotFacts
  <2>3. SentCall(k)' = n
    BY <1>2, <1>3, <2>2 DEF SentCall
  <2> QED
    BY <2>1, <2>3
<1>14. ASSUME NEW l \in Channels, l # k PROVE SentCall(l)' = SentCall(l)
  <2>1. PICK u \in Threads : u = SenderOf(l)
    BY ChannelEnds
  <2>2. CASE u # t
    BY <2>1, <2>2, <1>3, <1>5 DEF SentCall
  <2>3. CASE u = t
    <3>1. (\E r \in todo'[t] : RecvChannel(r, n) = l) <=> \E r \in todo[t] : RecvChannel(r, n) = l
      BY <1>2, <1>5, <1>14
    <3> QED
      BY <2>1, <2>3, <3>1, <1>2, <1>3 DEF SentCall
  <2> QED
    BY <2>2, <2>3
<1>15. \A l : Matched(l)' = Matched(l)
  BY <1>3 DEF Matched
<1>16. \A s, d, m : IsLast(s, d, m)' <=> IsLast(s, d, m)
  BY <1>3 DEF IsLast
<1>17. PostedInv' /\ ReceivedInv'
  <2>1. PostedInv'
    BY <1>1, <1>3, <1>15, <1>16 DEF PostedInv
  <2>2. ReceivedInv'
    BY <1>1, <1>3, <1>15, <1>16 DEF ReceivedInv
  <2> QED
    BY <2>1, <2>2
<1>18. /\ Matched(k) \in Nat /\ Pos(k, n - 1) = Matched(k) + Len(chan[k])
       /\ Pos(k, n) = Matched(k) + Len(chan[k]) + 1
  <2>1. Matched(k) \in Nat /\ Pos(k, n - 1) = Matched(k) + Len(chan[k])
    BY <1>1, <1>2, <1>13 DEF CountInv
  <2>2. n \in CallsOn(k)
    BY <1>2, SlotFacts
  <2>3. Pos(k, n) = Pos(k, n - 1) + 1
    BY <2>2, <1>12, CountStep DEF Pos
  <2> QED
    BY <2>1, <2>3, <1>9
<1>19. CountInv'
  <2>1. ASSUME NEW l \in Channels
        PROVE  Matched(l)' \in Nat /\ Pos(l, SentCall(l)') = Matched(l)' + Len(chan'[l])
    <3>1. CASE l = k
      BY <3>1, <1>9, <1>13, <1>15, <1>18
    <3>2. CASE l # k
      BY <3>2, <1>1, <1>9, <1>14, <1>15 DEF CountInv
    <3> QED
      BY <3>1, <3>2
  <2> QED
    BY <2>1 DEF CountInv
<1>20. SentInv'
  <2>1. ASSUME NEW l \in Channels, NEW m \in 1 .. SentCall(l)', NEW r \in Slot(l, m), Pos(l, m) > Matched(l)
        PROVE  chan'[l][Pos(l, m) - Matched(l)]
                 = [from |-> <<Obj(SenderOf(l), m), r>>, data |-> Expected(r, m)]
    <3>1. CASE l # k
      BY <3>1, <2>1, <1>1, <1>9, <1>14 DEF SentInv
    <3>2. CASE l = k /\ m = n
      <4>1. r = p
        BY <3>2, <1>2, SlotFacts
      <4>2. Pos(k, n) - Matched(k) = Len(chan[k]) + 1
        BY <1>9, <1>18
      <4> QED
        BY <3>2, <4>1, <4>2, <1>2, <1>6, <1>9
    <3>3. CASE l = k /\ m # n
      <4>1. m \in 1 .. n - 1 /\ m \in Nat
        BY <3>3, <1>12, <1>13
      <4>2. Pos(k, m) \in Nat /\ Pos(k, m) <= Pos(k, n - 1)
        BY <4>1, <1>12, CountMonotone DEF Pos
      <4>3. Pos(k, m) - Matched(k) \in 1 .. Len(chan[k])
        BY <4>2, <3>3, <2>1, <1>9, <1>18
      <4>4. chan[k][Pos(k, m) - Matched(k)]
              = [from |-> <<Obj(SenderOf(k), m), r>>, data |-> Expected(r, m)]
        BY <3>3, <4>1, <2>1, <1>1, <1>2, <1>13 DEF SentInv
      <4> QED
        BY <3>3, <4>3, <4>4, <1>9
    <3> QED
      BY <3>1, <3>2, <3>3
  <2> QED
    BY <2>1, <1>15 DEF SentInv
<1> QED
  BY <1>4, <1>10, <1>11, <1>17, <1>19, <1>20 DEF CommInv

----------------------------------------------------------------------------
(***************************************************************************)
(* A match.                                                                *)
(***************************************************************************)

LEMMA PosFacts ==
  ASSUME NEW k, NEW m \in Nat, NEW n \in Nat
  PROVE  /\ Pos(k, m) \in Nat
         /\ m <= n => Pos(k, m) <= Pos(k, n)
         /\ m < n /\ n \in CallsOn(k) => Pos(k, m) < Pos(k, n)
         /\ m \in CallsOn(k) /\ n \in CallsOn(k) /\ Pos(k, m) = Pos(k, n) => m = n
<1>1. \A i, j \in Nat : /\ Pos(k, i) \in Nat
                        /\ i <= j => Pos(k, i) <= Pos(k, j)
                        /\ i < j /\ j \in CallsOn(k) => Pos(k, i) < Pos(k, j)
  <2>1. TAKE i, j \in Nat
  <2>2. Pos(k, i) \in Nat
    BY CountStep DEF Pos
  <2>3. i <= j => i \in 0 .. j
    OBVIOUS
  <2>4. i \in 0 .. j => /\ Pos(k, i) <= Pos(k, j)
                        /\ i < j /\ j \in CallsOn(k) => Pos(k, i) < Pos(k, j)
    BY CountMonotone DEF Pos
  <2> QED
    BY <2>2, <2>3, <2>4
<1>2. m < n \/ n < m \/ m = n
  OBVIOUS
<1> QED
  BY <1>1, <1>2

\* A call whose receive is still open is the only one with its object and pair.
LEMMA OpenIsUnique ==
  ASSUME ProgramsFit, TypeOK, ControlInv, OpenInv, MemoryInv,
         NEW c \in COs, NEW p \in Pairs, <<c, p>> \in m_recv_futures,
         NEW k, NEW m, p \in Slot(k, m), IsLast(ReceiverOf(k), c, m),
         NEW l, NEW n, p \in Slot(l, n), IsLast(ReceiverOf(l), c, n)
  PROVE  m = n /\ k = l
<1>1. ReceiverOf(k) = Receiver(p) /\ ReceiverOf(l) = Receiver(p)
  BY SlotFacts
<1>2. Receiver(p) \in Threads
  BY PairTypes
<1>3. m = n
  BY <1>1, <1>2, LastIsUnique
<1> QED
  BY <1>3 DEF Slot

FillsData(memory, c, p, data) == [memory EXCEPT ![c][p].data = data]

LEMMA FilledBuffer ==
  ASSUME NEW memory \in [COs -> [Pairs -> Buffers]], NEW c \in COs, NEW p \in Pairs,
         NEW data \in Seq(Data), NEW filled, filled = FillsData(memory, c, p, data)
  PROVE  /\ filled \in [COs -> [Pairs -> Buffers]]
         /\ filled[c][p].data = data
         /\ \A d \in COs : \A r \in Pairs :
              /\ filled[d][r].field_infos = memory[d][r].field_infos
              /\ filled[d][r].tag = memory[d][r].tag
              /\ <<d, r>> # <<c, p>> => filled[d][r].data = memory[d][r].data
<1>1. memory[c] \in [Pairs -> Buffers] /\ memory[c][p] \in Buffers
  OBVIOUS
<1>2. PICK b : b = [memory[c][p] EXCEPT !.data = data]
  OBVIOUS
<1>3. b \in Buffers /\ b.data = data /\ b.field_infos = memory[c][p].field_infos /\ b.tag = memory[c][p].tag
  BY <1>1, <1>2 DEF Buffers
<1>4. PICK row : row = [memory[c] EXCEPT ![p] = b]
  OBVIOUS
<1>5. row \in [Pairs -> Buffers] /\ row[p] = b /\ \A r \in Pairs : r # p => row[r] = memory[c][r]
  BY <1>1, <1>3, <1>4
<1>6. filled = [memory EXCEPT ![c] = row]
  BY <1>2, <1>4 DEF FillsData
<1>7. /\ filled \in [COs -> [Pairs -> Buffers]] /\ filled[c] = row
      /\ \A d \in COs : d # c => filled[d] = memory[d]
  BY <1>5, <1>6
<1> QED
  BY <1>3, <1>5, <1>7

LEMMA MatchPreserves ==
  ASSUME ProgramsFit, CommInv, NEW k \in Channels, Match(k)
  PROVE  CommInv'
<1>1. TypeOK /\ ControlInv /\ MemoryInv /\ OpenInv /\ HistoryInv /\ HaloInv
      /\ CountInv /\ PostedInv /\ SentInv /\ ReceivedInv
  BY DEF CommInv
<1>2. posted[k] # << >> /\ chan[k] # << >>
  BY DEF Match
<1>3. PICK t \in Threads : t = ReceiverOf(k)
  BY ChannelEnds
<1>4. PICK n, p, c :
           /\ n \in 1 .. call[t] /\ n \in 1 .. SentCall(k) /\ n \in Nat
           /\ p \in Slot(k, n) /\ c = Obj(t, n) /\ c \in COs
           /\ Pos(k, n) = Matched(k) + 1
           /\ Head(posted[k]) = <<c, p>>
           /\ Head(chan[k]) = [from |-> <<Obj(SenderOf(k), n), p>>, data |-> Expected(p, n)]
           /\ c \in m_valid /\ IsLast(t, c, n) /\ <<c, p>> \in m_recv_futures
  BY <1>1, <1>2, <1>3, MatchStep
<1>5. p \in Pairs /\ Uses(p, n) /\ RecvChannel(p, n) = k /\ Receiver(p) = t /\ n \in CallsOn(k)
  BY <1>3, <1>4, SlotFacts
<1>6. ThreadOf[c] = t
  <2>1. n \in DOMAIN Program[t]
    BY <1>1, <1>4, CallBounds
  <2> QED
    BY <2>1, <1>4, CallTypes DEF Obj
<1>7. UNCHANGED <<pc, call, current, todo, m_valid, send_memory, m_recv_futures, halo, started, completed>>
  BY DEF Match, history
<1>8. PICK E : E = Expected(p, n) /\ E \in Seq(Data) /\ E # << >>
  BY <1>5, ExpectedTypes
<1>9. recv_memory' = FillsData(recv_memory, c, p, E)
  <2>1. recv_memory' = FillsData(recv_memory, Head(posted[k])[1], Head(posted[k])[2], Head(chan[k]).data)
    BY DEF Match, FillsData
  <2>2. Head(posted[k])[1] = c /\ Head(posted[k])[2] = p
    BY <1>4
  <2>3. Head(chan[k]).data = E
    BY <1>4, <1>8
  <2> QED
    BY <2>1, <2>2, <2>3
<1>10. /\ recv_memory \in [COs -> [Pairs -> Buffers]]
       /\ recv_memory' \in [COs -> [Pairs -> Buffers]]
       /\ recv_memory'[c][p].data = E
       /\ \A d \in COs : \A r \in Pairs :
            /\ recv_memory'[d][r].field_infos = recv_memory[d][r].field_infos
            /\ recv_memory'[d][r].tag = recv_memory[d][r].tag
            /\ <<d, r>> # <<c, p>> => recv_memory'[d][r].data = recv_memory[d][r].data
  <2>1. recv_memory \in [COs -> [Pairs -> Buffers]]
    BY <1>1 DEF TypeOK
  <2> QED
    BY <2>1, <1>4, <1>5, <1>8, <1>9, FilledBuffer
<1>11. PICK M \in Nat : M = Matched(k)
  BY <1>1 DEF CountInv
<1>12. /\ posted \in [Channels -> Seq(COs \X Pairs)] /\ posted' \in [Channels -> Seq(COs \X Pairs)]
       /\ Len(posted'[k]) \in Nat /\ Len(posted[k]) = Len(posted'[k]) + 1
       /\ \A j \in 1 .. Len(posted'[k]) : posted'[k][j] = posted[k][j + 1]
       /\ \A l \in Channels : l # k => posted'[l] = posted[l]
  <2>1. posted \in [Channels -> Seq(COs \X Pairs)]
    BY <1>1 DEF TypeOK
  <2>2. PICK s : s = Tail(posted[k])
    OBVIOUS
  <2>3. /\ s \in Seq(COs \X Pairs) /\ Len(posted[k]) = Len(s) + 1 /\ Len(s) \in Nat
        /\ \A j \in 1 .. Len(s) : s[j] = posted[k][j + 1]
    <3>1. PICK P : P = COs \X Pairs
      OBVIOUS
    <3>2. posted[k] \in Seq(P)
      BY <2>1, <3>1
    <3>3. /\ s \in Seq(P) /\ Len(posted[k]) = Len(s) + 1 /\ Len(s) \in Nat
          /\ \A j \in 1 .. Len(s) : s[j] = posted[k][j + 1]
      BY <1>2, <2>2, <3>2, TailFacts
    <3> QED
      BY <3>1, <3>3
  <2>4. posted' = [posted EXCEPT ![k] = s]
    BY <2>2 DEF Match
  <2>5. posted'[k] = s /\ \A l \in Channels : l # k => posted'[l] = posted[l]
    BY <2>1, <2>4
  <2>6. posted' \in [Channels -> Seq(COs \X Pairs)]
    BY <2>1, <2>3, <2>4
  <2> QED
    BY <2>1, <2>3, <2>5, <2>6
<1>13. /\ chan \in [Channels -> Seq(Message)] /\ chan' \in [Channels -> Seq(Message)]
       /\ Len(chan'[k]) \in Nat /\ Len(chan[k]) = Len(chan'[k]) + 1
       /\ \A j \in 1 .. Len(chan'[k]) : chan'[k][j] = chan[k][j + 1]
       /\ \A l \in Channels : l # k => chan'[l] = chan[l]
  <2>1. chan \in [Channels -> Seq(Message)]
    BY <1>1 DEF TypeOK, Message
  <2>2. PICK s : s = Tail(chan[k])
    OBVIOUS
  <2>3. /\ s \in Seq(Message) /\ Len(chan[k]) = Len(s) + 1 /\ Len(s) \in Nat
        /\ \A j \in 1 .. Len(s) : s[j] = chan[k][j + 1]
    <3>1. chan[k] \in Seq(Message)
      BY <2>1
    <3> QED
      BY <1>2, <2>2, <3>1, TailFacts
  <2>4. chan' = [chan EXCEPT ![k] = s]
    BY <2>2 DEF Match
  <2>5. chan'[k] = s /\ \A l \in Channels : l # k => chan'[l] = chan[l]
    BY <2>1, <2>4
  <2>6. chan' \in [Channels -> Seq(Message)]
    BY <2>1, <2>3, <2>4
  <2> QED
    BY <2>1, <2>3, <2>5, <2>6
<1>14. TypeOK'
  <2>1. m_send_futures' \subseteq m_send_futures
    BY DEF Match
  <2>2. chan' \in [Channels -> Seq([from : COs \X Pairs, data : Seq(Data)])]
    BY <1>13 DEF Message
  <2> QED
    BY <2>1, <2>2, <1>1, <1>7, <1>10, <1>12 DEF TypeOK
<1>15. ControlInv' /\ OpenInv' /\ HistoryInv'
  <2>1. ControlInv'
    BY <1>1, <1>7 DEF ControlInv
  <2>2. OpenInv'
    BY <1>1, <1>7 DEF OpenInv, IsLast
  <2> QED
    BY <2>1, <2>2, <1>1, <1>7, SameHistory
<1>16. \A s, d, m : IsLast(s, d, m)' <=> IsLast(s, d, m)
  BY <1>7 DEF IsLast
<1>17. MemoryInv'
  <2>1. ASSUME NEW d \in COs, NEW r \in Pairs
        PROVE  /\ d \notin m_valid' => /\ recv_memory'[d][r].field_infos = << >>
                                       /\ recv_memory'[d][r].data = << >>
                                       /\ send_memory'[d][r].field_infos = << >>
                                       /\ <<d, r>> \notin m_recv_futures'
               /\ \A m \in Nat : d \in m_valid' /\ IsLast(ThreadOf[d], d, m)' =>
                    /\ Holds(recv_memory'[d][r], r, 1, Args(ThreadOf[d], m))
                    /\ Holds(send_memory'[d][r], r, 2, Args(ThreadOf[d], m))
                    /\ <<d, r>> \in m_recv_futures' => recv_memory'[d][r].field_infos # << >>
    <3>1. d \notin m_valid => <<d, r>> # <<c, p>>
      BY <1>4
    <3> QED
      BY <3>1, <1>1, <1>7, <1>10, <1>16 DEF MemoryInv, Holds
  <2> QED
    BY <2>1 DEF MemoryInv
<1>18. HaloInv'
  <2>1. \A f, r : r \in Pairs => (Waits(f, r)' <=> Waits(f, r))
    BY <1>7, <1>10 DEF Waits
  <2> QED
    BY <2>1, <1>1, <1>7, HalosArePairs DEF HaloInv
<1>19. Matched(k)' = M + 1 /\ \A l \in Channels : l # k => Matched(l)' = Matched(l)
  <2>1. Pos(k, call[t]) \in Nat
    <3>1. call[t] \in Nat
      BY <1>1, CallBounds
    <3> QED
      BY <3>1, PosFacts
  <2>2. M = Pos(k, call[t]) - Len(posted[k])
    BY <1>3, <1>11 DEF Matched
  <2>3. Matched(k)' = Pos(k, call[t]) - Len(posted'[k])
    BY <1>3, <1>7 DEF Matched
  <2>4. Matched(k)' = M + 1
    BY <2>1, <2>2, <2>3, <1>12
  <2>5. \A l \in Channels : l # k => Matched(l)' = Matched(l)
    BY <1>7, <1>12 DEF Matched
  <2> QED
    BY <2>4, <2>5
<1>20. \A l : SentCall(l)' = SentCall(l)
  BY <1>7 DEF SentCall
<1>21. CountInv'
  <2>1. ASSUME NEW l \in Channels
        PROVE  Matched(l)' \in Nat /\ Pos(l, SentCall(l)') = Matched(l)' + Len(chan'[l])
    <3>1. CASE l = k
      <4>1. Pos(k, SentCall(k)) = M + Len(chan[k])
        BY <1>1, <1>11 DEF CountInv
      <4> QED
        BY <3>1, <4>1, <1>11, <1>13, <1>19, <1>20
    <3>2. CASE l # k
      BY <3>2, <1>1, <1>13, <1>19, <1>20 DEF CountInv
    <3> QED
      BY <3>1, <3>2
  <2> QED
    BY <2>1 DEF CountInv
<1>22. PostedInv'
  <2>1. ASSUME NEW l \in Channels, NEW m \in 1 .. call[ReceiverOf(l)], NEW r \in Slot(l, m),
               Pos(l, m) > Matched(l)', NEW d, d = Obj(ReceiverOf(l), m)
        PROVE  /\ posted'[l][Pos(l, m) - Matched(l)'] = <<d, r>>
               /\ d \in m_valid /\ IsLast(ReceiverOf(l), d, m)
               /\ <<d, r>> \in m_recv_futures
               /\ recv_memory'[d][r].data = << >>
    <3>1. r \in Pairs /\ m \in CallsOn(l) /\ m \in Nat
      BY SlotFacts DEF CallsOn
    <3>2. Pos(l, m) > Matched(l)
      <4>1. Pos(l, m) \in Nat
        BY <3>1, PosFacts
      <4> QED
        BY <4>1, <2>1, <1>11, <1>19
    <3>3. /\ posted[l][Pos(l, m) - Matched(l)] = <<d, r>>
          /\ d \in m_valid /\ IsLast(ReceiverOf(l), d, m)
          /\ <<d, r>> \in m_recv_futures
          /\ recv_memory[d][r].data = << >>
      BY <3>2, <2>1, <1>1 DEF PostedInv
    <3>4. d \in COs
      BY <3>3, <1>1 DEF TypeOK
    <3>5. <<d, r>> # <<c, p>>
      <4>1. SUFFICES ASSUME d = c, r = p PROVE FALSE
        BY Zenon
      <4>2. m = n /\ l = k
        BY <4>1, <3>3, <1>1, <1>3, <1>4, <1>5, OpenIsUnique
      <4> QED
        BY <4>2, <2>1, <1>4, <1>11, <1>19
    <3>6. recv_memory'[d][r].data = << >>
      BY <3>1, <3>3, <3>4, <3>5, <1>10
    <3>7. posted'[l][Pos(l, m) - Matched(l)'] = <<d, r>>
      <4>1. CASE l # k
        BY <4>1, <3>3, <1>12, <1>19
      <4>2. CASE l = k
        <5>1. call[t] \in Nat /\ m <= call[t]
          BY <4>2, <2>1, <1>1, <1>3, CallBounds
        <5>2. Pos(k, m) \in Nat /\ Pos(k, call[t]) \in Nat /\ Pos(k, m) <= Pos(k, call[t])
          BY <5>1, <3>1, PosFacts
        <5>3. Pos(k, call[t]) = M + Len(posted[k])
          BY <5>2, <1>3, <1>11, <1>12 DEF Matched
        <5>4. PICK j \in 1 .. Len(posted'[k]) : j = Pos(k, m) - (M + 1)
          <6>1. Pos(k, m) > M + 1
            BY <4>2, <2>1, <1>19
          <6>2. Pos(k, m) - (M + 1) \in 1 .. Len(posted'[k])
            BY <6>1, <5>2, <5>3, <1>11, <1>12
          <6> QED
            BY <6>2
        <5>5. j + 1 = Pos(k, m) - M
          BY <5>2, <5>4, <1>11
        <5>6. posted'[k][j] = posted[k][j + 1]
          BY <5>4, <1>12
        <5>7. posted[k][Pos(k, m) - M] = <<d, r>>
          BY <4>2, <3>3, <1>11
        <5>8. posted'[l][Pos(l, m) - Matched(l)'] = posted'[k][j]
          BY <5>4, <4>2, <1>19
        <5> QED
          BY <5>5, <5>6, <5>7, <5>8
      <4> QED
        BY <4>1, <4>2
    <3> QED
      BY <3>3, <3>6, <3>7
  <2> QED
    BY <2>1, <1>7, <1>16 DEF PostedInv
<1>23. SentInv'
  <2>1. ASSUME NEW l \in Channels, NEW m \in 1 .. SentCall(l), NEW r \in Slot(l, m), Pos(l, m) > Matched(l)'
        PROVE  chan'[l][Pos(l, m) - Matched(l)']
                 = [from |-> <<Obj(SenderOf(l), m), r>>, data |-> Expected(r, m)]
    <3>1. m \in Nat /\ Pos(l, m) \in Nat
      <4>1. m \in Nat
        BY SlotFacts DEF CallsOn
      <4> QED
        BY <4>1, PosFacts
    <3>2. Pos(l, m) > Matched(l)
      BY <3>1, <2>1, <1>11, <1>19
    <3>3. chan[l][Pos(l, m) - Matched(l)]
            = [from |-> <<Obj(SenderOf(l), m), r>>, data |-> Expected(r, m)]
      BY <3>2, <2>1, <1>1 DEF SentInv
    <3>4. CASE l # k
      BY <3>4, <3>3, <1>13, <1>19
    <3>5. CASE l = k
      <4>1. SentCall(k) \in Nat /\ m <= SentCall(k)
        BY <3>5, <1>1, SentBounds
      <4>2. Pos(k, m) \in Nat /\ Pos(k, SentCall(k)) \in Nat /\ Pos(k, m) <= Pos(k, SentCall(k))
        BY <4>1, <3>1, PosFacts
      <4>3. Pos(k, SentCall(k)) = M + Len(chan[k])
        BY <1>1, <1>11 DEF CountInv
      <4>4. PICK j \in 1 .. Len(chan'[k]) : j = Pos(k, m) - (M + 1)
        BY <4>2, <4>3, <3>5, <2>1, <1>11, <1>13, <1>19
      <4>5. j + 1 = Pos(k, m) - M
        BY <4>2, <4>4, <1>11
      <4> QED
        BY <4>4, <4>5, <3>5, <3>3, <1>11, <1>13, <1>19
    <3> QED
      BY <3>4, <3>5
  <2> QED
    BY <2>1, <1>20 DEF SentInv
<1>24. ReceivedInv'
  <2>1. ASSUME NEW d \in COs, NEW r \in Pairs, NEW m \in Nat, <<d, r>> \in m_recv_futures,
               IsLast(ThreadOf[d], d, m), NEW l, l = RecvChannel(r, m), Pos(l, m) <= Matched(l)'
        PROVE  recv_memory'[d][r].data = Expected(r, m)
    <3>1. CASE <<d, r>> = <<c, p>>
      <4>1. d = c /\ r = p
        BY <3>1
      <4>2. m = n
        BY <4>1, <2>1, <1>1, <1>4, <1>6, LastIsUnique
      <4> QED
        BY <4>1, <4>2, <1>8, <1>10
    <3>2. CASE <<d, r>> # <<c, p>>
      <4>1. Receiver(r) = ThreadOf[d] /\ Uses(r, m) /\ d = Obj(ThreadOf[d], m)
        BY <2>1, <1>1, OpenReceive
      <4>2. l \in Channels /\ r \in Slot(l, m) /\ ReceiverOf(l) = ThreadOf[d]
        BY <4>1, <2>1, UsedChannel
      <4>3. Pos(l, m) <= Matched(l)
        <5>1. CASE l # k
          BY <5>1, <4>2, <2>1, <1>19
        <5>2. CASE l = k
          <6>0. Pos(k, m) <= M \/ Pos(k, m) = M + 1
            <7>1. Pos(k, m) \in Nat
              BY PosFacts
            <7>2. Pos(k, m) <= M + 1
              BY <5>2, <2>1, <1>19
            <7> QED
              BY <7>1, <7>2, <1>11
          <6>1. SUFFICES ASSUME Pos(k, m) = M + 1 PROVE FALSE
            BY <6>0, <5>2, <1>11
          <6>2. m \in CallsOn(k)
            BY <4>2, <5>2, SlotFacts
          <6>3. m = n
            BY <6>1, <6>2, <1>4, <1>5, <1>11, PosFacts
          <6>4. r = p
            BY <6>3, <4>2, <5>2, <1>4, SlotFacts
          <6>5. d = c
            BY <6>3, <4>1, <4>2, <5>2, <1>3, <1>4
          <6> QED
            BY <6>4, <6>5, <3>2
        <5> QED
          BY <5>1, <5>2
      <4>4. recv_memory[d][r].data = Expected(r, m)
        BY <4>3, <2>1, <1>1 DEF ReceivedInv
      <4> QED
        BY <4>4, <3>2, <1>10
    <3> QED
      BY <3>1, <3>2
  <2> QED
    BY <2>1, <1>7, <1>16 DEF ReceivedInv
<1> QED
  BY <1>14, <1>15, <1>17, <1>18, <1>21, <1>22, <1>23, <1>24 DEF CommInv

----------------------------------------------------------------------------
(***************************************************************************)
(* Unpacking.                                                              *)
(***************************************************************************)

LEMMA SameObject ==
  ASSUME ProgramsFit, NEW t \in Threads, NEW m \in DOMAIN Program[t], NEW n \in DOMAIN Program[t],
         NEW i, i \in Range(Args(t, m)), i \in Range(Args(t, n))
  PROVE  Obj(t, m) = Obj(t, n)
<1>1. Range(Program[t][m].args) \cap Range(Program[t][n].args) # {}
  BY DEF Args
<1> QED
  BY <1>1 DEF ProgramsFit, Obj

\* The fields of an open receive are those of the last call.
LEMMA OpenInstances ==
  ASSUME ProgramsFit, TypeOK, ControlInv, OpenInv, MemoryInv,
         NEW c \in COs, NEW p \in Pairs, <<c, p>> \in m_recv_futures,
         NEW f \in Range(recv_memory[c][p].field_infos)
  PROVE  \E n \in DOMAIN Program[Receiver(p)] :
           /\ IsLast(Receiver(p), c, n) /\ c = Obj(Receiver(p), n)
           /\ <<f, p[1]>> \in Range(Args(Receiver(p), n))
           /\ ThreadOf[c] = Receiver(p) /\ c \in m_valid /\ Receiver(p) \in Threads
<1>1. PICK t \in Threads : t = Receiver(p) /\ t = ThreadOf[c] /\ c \in m_valid
  BY OpenReceive
<1>2. PICK n \in Nat : IsLast(t, c, n)
  BY <1>1, OpenReceive
<1>3. /\ n \in DOMAIN Program[t] /\ c = Obj(t, n)
      /\ recv_memory[c][p].field_infos = RecvInfos(p, n)
  BY <1>1, <1>2, OpenReceive
<1>4. Args(t, n) \in Seq(Instances)
  BY <1>3, CallTypes DEF Args
<1>5. f \in Range(Infos(p, 1, Args(t, n)))
  BY <1>1, <1>3 DEF RecvInfos
<1>6. <<f, p[1]>> \in Range(Args(t, n))
  BY <1>4, <1>5, InfosFields
<1> QED
  BY <1>1, <1>2, <1>3, <1>6

LEMMA UnpackPreserves ==
  ASSUME ProgramsFit, CommInv, NEW t \in Threads, NEW p \in Pairs, Unpack(t, p)
  PROVE  CommInv'
<1>1. TypeOK /\ ControlInv /\ MemoryInv /\ OpenInv /\ HistoryInv /\ HaloInv
      /\ CountInv /\ PostedInv /\ SentInv /\ ReceivedInv
  BY DEF CommInv
<1>2. PICK n, c, infos :
           /\ c = current[t] /\ c \in COs /\ c \in m_valid /\ t = ThreadOf[c]
           /\ n \in Nat /\ IsLast(t, c, n) /\ Receiver(p) = t /\ Uses(p, n)
           /\ <<c, p>> \in m_recv_futures
           /\ infos = RecvInfos(p, n) /\ infos = recv_memory[c][p].field_infos
           /\ Pos(RecvChannel(p, n), n) <= Matched(RecvChannel(p, n))
           /\ \A f \in Range(infos) :
                /\ f \in Fields /\ p \in HalosOf[PatternOf[f]]
                /\ <<f, p[1]>> \in Range(Args(t, n)) /\ <<f, p[1]>> \in Instances
                /\ started[<<f, p[1]>>] = Round(<<f, p[1]>>, n)
                /\ halo'[f] = [halo[f] EXCEPT ![p] = Content(<<f, p[2]>>, started[<<f, p[1]>>])]
           /\ \A f \in Fields : f \notin Range(infos) => halo'[f] = halo[f]
           /\ m_recv_futures' = m_recv_futures \ {<<c, p>>}
           /\ UNCHANGED <<pc, call, current, todo, m_valid, buffers, m_send_futures, mpi, history>>
  BY <1>1, UnpackStep
<1>3. UNCHANGED <<pc, call, current, todo, m_valid, recv_memory, send_memory, m_send_futures, posted, chan,
                  started, completed>>
  BY <1>2 DEF buffers, mpi, history
<1>4. /\ m_recv_futures' \subseteq m_recv_futures /\ <<c, p>> \notin m_recv_futures'
      /\ \A d, r : <<d, r>> \in m_recv_futures /\ <<d, r>> # <<c, p>> => <<d, r>> \in m_recv_futures'
  BY <1>2
<1>5. \A s, d, m : IsLast(s, d, m)' <=> IsLast(s, d, m)
  BY <1>3 DEF IsLast
<1>6. \A k : Matched(k)' = Matched(k) /\ SentCall(k)' = SentCall(k)
  BY <1>3 DEF Matched, SentCall
<1>7. ASSUME NEW f \in Fields
      PROVE  /\ halo[f] \in [HalosOf[PatternOf[f]] -> Data]
             /\ halo'[f] \in [HalosOf[PatternOf[f]] -> Data]
             /\ \A r \in HalosOf[PatternOf[f]] : f \notin Range(infos) \/ r # p => halo'[f][r] = halo[f][r]
             /\ f \in Range(infos) => halo'[f][p] = Content(<<f, p[2]>>, started[<<f, p[1]>>])
  <2>1. halo[f] \in [HalosOf[PatternOf[f]] -> Data]
    BY <1>1 DEF TypeOK
  <2>2. CASE f \in Range(infos)
    <3>1. PICK x : x = Content(<<f, p[2]>>, started[<<f, p[1]>>])
      OBVIOUS
    <3>2. started[<<f, p[1]>>] \in Nat /\ p[2] \in Domains
      BY <2>2, <1>1, <1>2, PairTypes DEF TypeOK
    <3>3. x \in Data
      BY <3>1, <3>2 DEF Content, Data
    <3>4. halo'[f] = [halo[f] EXCEPT ![p] = x] /\ p \in HalosOf[PatternOf[f]]
      BY <2>2, <3>1, <1>2
    <3> QED
      BY <2>1, <2>2, <3>1, <3>3, <3>4
  <2>3. CASE f \notin Range(infos)
    BY <2>1, <2>3, <1>2
  <2> QED
    BY <2>2, <2>3
<1>8. TypeOK'
  <2>1. m_recv_futures' \subseteq COs \X Pairs
    BY <1>1, <1>4 DEF TypeOK
  <2>2. \A f \in Fields : halo'[f] \in [HalosOf[PatternOf[f]] -> Data]
    BY <1>7
  <2> QED
    BY <2>1, <2>2, <1>1, <1>3 DEF TypeOK
<1>9. ControlInv' /\ OpenInv' /\ HistoryInv'
  <2>1. ControlInv'
    BY <1>1, <1>3 DEF ControlInv
  <2>2. OpenInv'
    BY <1>1, <1>3, <1>5 DEF OpenInv
  <2> QED
    BY <2>1, <2>2, <1>1, <1>3, SameHistory
<1>10. MemoryInv'
  <2>1. \A b, r, side, args : Holds(b, r, side, args)' <=> Holds(b, r, side, args)
    BY DEF Holds
  <2> QED
    BY <2>1, <1>1, <1>3, <1>4, <1>5 DEF MemoryInv
<1>11. CountInv' /\ SentInv'
  <2>1. CountInv'
    BY <1>1, <1>3, <1>6 DEF CountInv
  <2>2. SentInv'
    BY <1>1, <1>3, <1>6 DEF SentInv
  <2> QED
    BY <2>1, <2>2
<1>12. PostedInv'
  <2>1. ASSUME NEW l \in Channels, NEW m \in 1 .. call[ReceiverOf(l)], NEW r \in Slot(l, m),
               Pos(l, m) > Matched(l), NEW d, d = Obj(ReceiverOf(l), m)
        PROVE  /\ posted[l][Pos(l, m) - Matched(l)] = <<d, r>>
               /\ d \in m_valid /\ IsLast(ReceiverOf(l), d, m)
               /\ <<d, r>> \in m_recv_futures'
               /\ recv_memory[d][r].data = << >>
    <3>1. /\ posted[l][Pos(l, m) - Matched(l)] = <<d, r>>
          /\ d \in m_valid /\ IsLast(ReceiverOf(l), d, m)
          /\ <<d, r>> \in m_recv_futures
          /\ recv_memory[d][r].data = << >>
      BY <2>1, <1>1 DEF PostedInv
    <3>2. <<d, r>> # <<c, p>>
      <4>1. SUFFICES ASSUME d = c, r = p PROVE FALSE
        BY Zenon
      <4>2. PICK k : k = RecvChannel(p, n) /\ p \in Slot(k, n) /\ ReceiverOf(k) = t
        BY <1>2, UsedChannel
      <4>3. m = n /\ l = k
        BY <4>1, <4>2, <3>1, <1>1, <1>2, OpenIsUnique
      <4>4. m \in CallsOn(l) /\ m \in Nat
        BY SlotFacts DEF CallsOn
      <4>5. Pos(l, m) \in Nat /\ Matched(l) \in Nat
        BY <4>4, <1>1, PosFacts DEF CountInv
      <4>6. Pos(l, m) <= Matched(l)
        BY <4>2, <4>3, <1>2
      <4> QED
        BY <4>5, <4>6, <2>1
    <3> QED
      BY <3>1, <3>2, <1>4
  <2> QED
    BY <2>1, <1>3, <1>5, <1>6 DEF PostedInv
<1>13. ReceivedInv'
  BY <1>1, <1>3, <1>4, <1>5, <1>6 DEF ReceivedInv
<1>14. HaloInv'
  <2>1. ASSUME NEW f \in Fields, NEW r \in HalosOf[PatternOf[f]]
        PROVE  /\ ~Waits(f, r)' => halo'[f][r] = Content(<<f, r[2]>>, started[<<f, r[1]>>])
               /\ Waits(f, r)' => halo'[f][r].round + 1 = started[<<f, r[1]>>]
    <3>1. CASE r = p /\ f \in Range(infos)
      <4>1. ASSUME NEW d \in COs, <<d, p>> \in m_recv_futures', f \in Range(recv_memory[d][p].field_infos)
            PROVE  FALSE
        <5>1. <<d, p>> \in m_recv_futures /\ d # c
          BY <4>1, <1>4
        <5>2. PICK m \in DOMAIN Program[t] : d = Obj(t, m) /\ <<f, p[1]>> \in Range(Args(t, m))
          BY <4>1, <5>1, <1>1, <1>2, OpenInstances
        <5>3. PICK m1 \in DOMAIN Program[t] : c = Obj(t, m1) /\ <<f, p[1]>> \in Range(Args(t, m1))
          BY <3>1, <1>1, <1>2, OpenInstances
        <5> QED
          BY <5>1, <5>2, <5>3, SameObject
      <4>2. ~Waits(f, r)'
        BY <4>1, <3>1, <1>3 DEF Waits
      <4> QED
        BY <4>2, <3>1, <1>7
    <3>2. CASE r # p \/ f \notin Range(infos)
      <4>1. Waits(f, r)' <=> Waits(f, r)
        <5>1. ASSUME NEW d \in COs, f \in Range(recv_memory[d][r].field_infos)
              PROVE  <<d, r>> \in m_recv_futures' <=> <<d, r>> \in m_recv_futures
          <6>1. <<d, r>> # <<c, p>>
            BY <3>2, <5>1, <1>2
          <6> QED
            BY <6>1, <1>4
        <5> QED
          BY <5>1, <1>3 DEF Waits
      <4>2. halo'[f][r] = halo[f][r]
        BY <3>2, <1>7
      <4> QED
        BY <4>1, <4>2, <1>1 DEF HaloInv
    <3> QED
      BY <3>1, <3>2
  <2> QED
    BY <2>1, <1>3 DEF HaloInv
<1> QED
  BY <1>8, <1>9, <1>10, <1>11, <1>12, <1>13, <1>14 DEF CommInv

----------------------------------------------------------------------------
(***************************************************************************)
(* The end of wait.                                                        *)
(***************************************************************************)

LEMMA ArgsAreOwned ==
  ASSUME NEW t \in Threads, NEW n \in DOMAIN Program[t], NEW i \in Range(Args(t, n))
  PROVE  i \in Instances /\ OwnerOf[i[2]] = t
<1>1. PICK j \in DOMAIN Program[t][n].args : i = Program[t][n].args[j]
  BY DEF Range, Args
<1> QED
  BY <1>1, CallTypes

\* The thread of a valid object and its last call.
LEMMA ValidObject ==
  ASSUME TypeOK, ControlInv, NEW c \in COs, NEW n, IsLast(ThreadOf[c], c, n)
  PROVE  /\ ThreadOf[c] \in Threads /\ n \in DOMAIN Program[ThreadOf[c]] /\ n \in Nat
         /\ n \in 1 .. call[ThreadOf[c]] /\ c = Obj(ThreadOf[c], n)
<1>1. PICK t \in Threads : t = ThreadOf[c]
  BY TypeAssumption DEF TypeAssumption
<1>2. n \in 1 .. call[t] /\ c = Obj(t, n)
  BY <1>1 DEF IsLast
<1> QED
  BY <1>1, <1>2, CallBounds

ClearsRow(memory, c) == [memory EXCEPT ![c] = [p \in Pairs |-> Cleared(@[p])]]

LEMMA ClearedBuffers ==
  ASSUME NEW memory \in [COs -> [Pairs -> Buffers]], NEW c \in COs,
         NEW cleared, cleared = ClearsRow(memory, c)
  PROVE  /\ cleared \in [COs -> [Pairs -> Buffers]]
         /\ \A p \in Pairs : cleared[c][p].field_infos = << >> /\ cleared[c][p].data = << >>
         /\ \A d \in COs : d # c => cleared[d] = memory[d]
<1>1. PICK row : row = [p \in Pairs |-> Cleared(memory[c][p])]
  OBVIOUS
<1>2. cleared = [memory EXCEPT ![c] = row]
  BY <1>1 DEF ClearsRow
<1>3. ASSUME NEW b \in Buffers
      PROVE  Cleared(b) \in Buffers /\ Cleared(b).field_infos = << >> /\ Cleared(b).data = << >>
  <2>1. << >> \in Seq(Fields) /\ << >> \in Seq(Data)
    OBVIOUS
  <2> QED
    BY <2>1 DEF Cleared, Buffers
<1>4. \A p \in Pairs : memory[c][p] \in Buffers
  OBVIOUS
<1>5. row \in [Pairs -> Buffers] /\ \A p \in Pairs : row[p].field_infos = << >> /\ row[p].data = << >>
  BY <1>1, <1>3, <1>4
<1> QED
  BY <1>2, <1>5

LEMMA WaitReturnsPreserves ==
  ASSUME ProgramsFit, CommInv, NEW t \in Threads, WaitReturns(t)
  PROVE  CommInv'
<1>1. TypeOK /\ ControlInv /\ MemoryInv /\ OpenInv /\ HistoryInv /\ HaloInv
      /\ CountInv /\ PostedInv /\ SentInv /\ ReceivedInv
  BY DEF CommInv
<1>2. PICK c \in COs : c = current[t]
  BY <1>1 DEF TypeOK
<1>3. pc[t] = "wait" /\ c \in m_valid /\ ThreadOf[c] = t
  BY <1>1, <1>2 DEF WaitReturns, ControlInv
<1>4. PICK n \in Nat : IsLast(t, c, n)
  BY <1>1, <1>3 DEF OpenInv
<1>5. n \in DOMAIN Program[t] /\ c = Obj(t, n)
  BY <1>1, <1>3, <1>4, ValidObject
<1>6. LastCall(t, c) = n
  BY <1>1, <1>4, LastIsUnique
<1>7. \A p \in Pairs : <<c, p>> \notin m_recv_futures
  BY <1>2 DEF WaitReturns
<1>8. /\ m_valid' = m_valid \ {c}
      /\ recv_memory' = ClearsRow(recv_memory, c) /\ send_memory' = ClearsRow(send_memory, c)
      /\ completed' = [i \in Instances |-> IF i \in Range(Args(t, n)) THEN started[i] ELSE completed[i]]
      /\ pc' = [pc EXCEPT ![t] = "program"]
      /\ UNCHANGED <<call, current, todo, m_recv_futures, m_send_futures, posted, chan, halo, started>>
  BY <1>2, <1>6 DEF WaitReturns, ClearsRow, Args, futures, mpi
<1>9. /\ recv_memory' \in [COs -> [Pairs -> Buffers]] /\ send_memory' \in [COs -> [Pairs -> Buffers]]
      /\ \A p \in Pairs : /\ recv_memory'[c][p].field_infos = << >> /\ recv_memory'[c][p].data = << >>
                          /\ send_memory'[c][p].field_infos = << >>
      /\ \A d \in COs : d # c => recv_memory'[d] = recv_memory[d] /\ send_memory'[d] = send_memory[d]
  <2>1. recv_memory \in [COs -> [Pairs -> Buffers]] /\ send_memory \in [COs -> [Pairs -> Buffers]]
    BY <1>1 DEF TypeOK
  <2>2. /\ recv_memory' \in [COs -> [Pairs -> Buffers]]
        /\ \A p \in Pairs : recv_memory'[c][p].field_infos = << >> /\ recv_memory'[c][p].data = << >>
        /\ \A d \in COs : d # c => recv_memory'[d] = recv_memory[d]
    BY <2>1, <1>2, <1>8, ClearedBuffers
  <2>3. /\ send_memory' \in [COs -> [Pairs -> Buffers]]
        /\ \A p \in Pairs : send_memory'[c][p].field_infos = << >>
        /\ \A d \in COs : d # c => send_memory'[d] = send_memory[d]
    BY <2>1, <1>2, <1>8, ClearedBuffers
  <2> QED
    BY <2>2, <2>3
<1>10. \A s, d, m : IsLast(s, d, m)' <=> IsLast(s, d, m)
  BY <1>8 DEF IsLast
<1>11. \A k : Matched(k)' = Matched(k) /\ SentCall(k)' = SentCall(k)
  BY <1>8 DEF Matched, SentCall
<1>12. /\ pc' \in [Threads -> {"program", "pack", "wait"}] /\ pc'[t] = "program"
       /\ \A s \in Threads : s # t => pc'[s] = pc[s]
  BY <1>1, <1>8 DEF TypeOK
<1>13. TypeOK'
  <2>1. completed' \in [Instances -> Nat]
    BY <1>1, <1>8 DEF TypeOK
  <2>2. m_valid' \subseteq COs
    BY <1>1, <1>8 DEF TypeOK
  <2> QED
    BY <2>1, <2>2, <1>1, <1>8, <1>9, <1>12 DEF TypeOK
<1>14. ControlInv'
  <2>1. ASSUME NEW s \in Threads, s # t, pc[s] \in {"pack", "wait"} PROVE current[s] \in m_valid'
    <3>1. current[s] \in m_valid
      BY <2>1, <1>1 DEF ControlInv
    <3>2. ThreadOf[current[s]] = s
      <4>1. CASE pc[s] = "pack"
        <5>1. current[s] = Obj(s, call[s]) /\ call[s] > 0
          BY <4>1, <1>1 DEF ControlInv
        <5>2. call[s] \in DOMAIN Program[s]
          BY <5>1, <1>1, CallBounds
        <5> QED
          BY <5>1, <5>2, CallTypes DEF Obj
      <4>2. CASE pc[s] = "wait"
        BY <4>2, <1>1 DEF ControlInv
      <4> QED
        BY <4>1, <4>2, <2>1
    <3> QED
      BY <3>1, <3>2, <2>1, <1>3, <1>8
  <2>2. ASSUME NEW s \in Threads
        PROVE  /\ call[s] <= Len(Program[s])
               /\ pc'[s] = "pack" => /\ call[s] > 0
                                     /\ current[s] = Obj(s, call[s])
                                     /\ current[s] \in m_valid'
                                     /\ \A p \in todo[s] : Sender(p) = s /\ Uses(p, call[s])
               /\ pc'[s] # "pack" => todo[s] = {}
               /\ pc'[s] = "wait" => current[s] \in m_valid' /\ ThreadOf[current[s]] = s
    <3>1. CASE s = t
      BY <3>1, <1>1, <1>3, <1>12 DEF ControlInv
    <3>2. CASE s # t
      BY <3>2, <2>1, <1>1, <1>12 DEF ControlInv
    <3> QED
      BY <3>1, <3>2
  <2> QED
    BY <2>2, <1>8 DEF ControlInv
<1>15. OpenInv'
  BY <1>1, <1>8, <1>10 DEF OpenInv
<1>16. MemoryInv'
  <2>1. \A b, r, side, args : Holds(b, r, side, args)' <=> Holds(b, r, side, args)
    BY DEF Holds
  <2>2. ASSUME NEW d \in COs, NEW r \in Pairs
        PROVE  /\ d \notin m_valid' => /\ recv_memory'[d][r].field_infos = << >>
                                       /\ recv_memory'[d][r].data = << >>
                                       /\ send_memory'[d][r].field_infos = << >>
                                       /\ <<d, r>> \notin m_recv_futures
               /\ \A m \in Nat : d \in m_valid' /\ IsLast(ThreadOf[d], d, m) =>
                    /\ Holds(recv_memory'[d][r], r, 1, Args(ThreadOf[d], m))
                    /\ Holds(send_memory'[d][r], r, 2, Args(ThreadOf[d], m))
                    /\ <<d, r>> \in m_recv_futures => recv_memory'[d][r].field_infos # << >>
    <3>1. CASE d = c
      BY <3>1, <1>7, <1>8, <1>9
    <3>2. CASE d # c
      <4>1. d \in m_valid' <=> d \in m_valid
        BY <3>2, <1>8
      <4> QED
        BY <4>1, <3>2, <1>1, <1>9 DEF MemoryInv
    <3> QED
      BY <3>1, <3>2
  <2> QED
    BY <2>1, <2>2, <1>8, <1>10 DEF MemoryInv
<1>17. CountInv' /\ SentInv'
  <2>1. CountInv'
    BY <1>1, <1>8, <1>11 DEF CountInv
  <2>2. SentInv'
    BY <1>1, <1>8, <1>11 DEF SentInv
  <2> QED
    BY <2>1, <2>2
<1>18. \A d \in COs : \A r \in Pairs :
         <<d, r>> \in m_recv_futures => d # c /\ recv_memory'[d] = recv_memory[d]
  BY <1>7, <1>9
<1>19. PostedInv'
  <2>1. ASSUME NEW l \in Channels, NEW m \in 1 .. call[ReceiverOf(l)], NEW r \in Slot(l, m),
               Pos(l, m) > Matched(l), NEW d, d = Obj(ReceiverOf(l), m)
        PROVE  /\ posted[l][Pos(l, m) - Matched(l)] = <<d, r>>
               /\ d \in m_valid' /\ IsLast(ReceiverOf(l), d, m)
               /\ <<d, r>> \in m_recv_futures
               /\ recv_memory'[d][r].data = << >>
    <3>1. /\ posted[l][Pos(l, m) - Matched(l)] = <<d, r>>
          /\ d \in m_valid /\ IsLast(ReceiverOf(l), d, m)
          /\ <<d, r>> \in m_recv_futures
          /\ recv_memory[d][r].data = << >>
      BY <2>1, <1>1 DEF PostedInv
    <3>2. d \in COs /\ r \in Pairs
      BY <3>1, <1>1, SlotFacts DEF TypeOK
    <3> QED
      BY <3>1, <3>2, <1>8, <1>18
  <2> QED
    BY <2>1, <1>8, <1>10, <1>11 DEF PostedInv
<1>20. ReceivedInv'
  BY <1>1, <1>8, <1>10, <1>11, <1>18 DEF ReceivedInv
<1>21. HistoryInv'
  <2>1. ASSUME NEW i \in Instances
        PROVE  /\ started[i] = Round(i, call[OwnerOf[i[2]]])
               /\ completed'[i] <= started[i]
               /\ \A d \in m_valid' : \A m \in Nat :
                    IsLast(ThreadOf[d], d, m) /\ i \in Range(Args(ThreadOf[d], m))
                      => completed'[i] < started[i] /\ Round(i, m) = started[i]
               /\ completed'[i] = started[i] \/ \E d \in m_valid' : \E m \in Nat :
                    IsLast(ThreadOf[d], d, m) /\ i \in Range(Args(ThreadOf[d], m))
    <3>1. started[i] \in Nat /\ completed[i] \in Nat
      BY <1>1 DEF TypeOK
    <3>2. started[i] = Round(i, call[OwnerOf[i[2]]]) /\ completed'[i] <= started[i]
      <4>1. started[i] = Round(i, call[OwnerOf[i[2]]]) /\ completed[i] <= started[i]
        BY <1>1 DEF HistoryInv
      <4>2. completed'[i] \in {started[i], completed[i]}
        BY <1>8
      <4> QED
        BY <3>1, <4>1, <4>2
    <3>3. ASSUME NEW d \in m_valid', NEW m \in Nat, IsLast(ThreadOf[d], d, m),
                 i \in Range(Args(ThreadOf[d], m))
          PROVE  completed'[i] < started[i] /\ Round(i, m) = started[i]
      <4>1. d \in m_valid /\ d \in COs /\ d # c
        BY <1>1, <1>8 DEF TypeOK
      <4>2. completed[i] < started[i] /\ Round(i, m) = started[i]
        BY <3>3, <4>1, <1>1 DEF HistoryInv
      <4>3. i \notin Range(Args(t, n))
        <5>1. SUFFICES ASSUME i \in Range(Args(t, n)) PROVE FALSE
          OBVIOUS
        <5>2. /\ ThreadOf[d] \in Threads /\ m \in DOMAIN Program[ThreadOf[d]]
              /\ d = Obj(ThreadOf[d], m)
          BY <3>3, <4>1, <1>1, ValidObject
        <5>3. ThreadOf[d] = t
          BY <3>3, <5>1, <5>2, <1>5, ArgsAreOwned
        <5> QED
          BY <3>3, <4>1, <5>1, <5>2, <5>3, <1>5, SameObject
      <4> QED
        BY <4>2, <4>3, <1>8
    <3>4. CASE i \in Range(Args(t, n))
      <4>1. completed'[i] = started[i]
        BY <3>4, <1>8
      <4> QED
        BY <3>2, <3>3, <4>1
    <3>5. CASE i \notin Range(Args(t, n))
      <4>1. completed'[i] = completed[i]
        BY <3>5, <1>8
      <4>2. CASE completed[i] = started[i]
        BY <3>2, <3>3, <4>1, <4>2
      <4>3. CASE completed[i] # started[i]
        <5>1. PICK d \in m_valid, m \in Nat : IsLast(ThreadOf[d], d, m) /\ i \in Range(Args(ThreadOf[d], m))
          BY <4>3, <1>1 DEF HistoryInv
        <5>2. d # c
          <6>1. SUFFICES ASSUME d = c PROVE FALSE
            OBVIOUS
          <6>2. m = n
            BY <5>1, <6>1, <1>1, <1>3, <1>4, LastIsUnique
          <6> QED
            BY <5>1, <6>1, <6>2, <3>5, <1>3
        <5>3. d \in m_valid'
          BY <5>2, <1>8
        <5> QED
          BY <3>2, <3>3, <5>1, <5>3
      <4> QED
        BY <4>2, <4>3
    <3> QED
      BY <3>4, <3>5
  <2> QED
    BY <2>1, <1>8, <1>10 DEF HistoryInv
<1>22. HaloInv'
  <2>1. \A f, r : r \in Pairs => (Waits(f, r)' <=> Waits(f, r))
    BY <1>8, <1>18 DEF Waits
  <2>2. \A f \in Fields : \A r \in HalosOf[PatternOf[f]] : r \in Pairs
    BY HalosArePairs
  <2> QED
    BY <2>1, <2>2, <1>1, <1>8 DEF HaloInv
<1> QED
  BY <1>13, <1>14, <1>15, <1>16, <1>17, <1>19, <1>20, <1>21, <1>22 DEF CommInv

----------------------------------------------------------------------------
(***************************************************************************)
(* exchange.                                                               *)
(***************************************************************************)

\* The buffers that a call allocates and the receives it posts.
LEMMA ExchangeBuffers ==
  ASSUME ProgramsFit, TypeOK, MemoryInv, NEW t \in Threads,
         NEW n, NEW c, NEW args, NEW recvs, NEW sends, Exchanges(t, n, c, args, recvs, sends)
  PROVE  /\ \A p \in Pairs :
              /\ Holds(recvs[p], p, 1, args) /\ Holds(sends[p], p, 2, args)
              /\ recvs[p].data = << >>
              /\ recvs[p].field_infos = Infos(p, 1, args)
              /\ p \in InUse(recvs) <=> Receiver(p) = t /\ Uses(p, n)
              /\ p \in InUse(sends) <=> Sender(p) = t /\ Uses(p, n)
              /\ p \in InUse(recvs) => Channel(p, recvs[p].tag) = RecvChannel(p, n)
         /\ \A k :
              /\ \A p \in Slot(k, n) : ReceiverOf(k) = t => On(c, recvs, k) = {<<c, p>>}
              /\ ReceiverOf(k) # t \/ Slot(k, n) = {} => On(c, recvs, k) = {}
<1>1. /\ n \in DOMAIN Program[t] /\ c \in COs /\ c \notin m_valid /\ args = Args(t, n)
      /\ recvs = [p \in Pairs |-> Allocated(recv_memory[c][p], p, 1, args)]
      /\ sends = [p \in Pairs |-> Allocated(send_memory[c][p], p, 2, args)]
  BY ExchangesTypes DEF Exchanges
<1>2. ASSUME NEW p \in Pairs
      PROVE  /\ Holds(recvs[p], p, 1, args) /\ Holds(sends[p], p, 2, args)
             /\ recvs[p].data = << >>
             /\ recvs[p].field_infos = Infos(p, 1, args)
             /\ p \in InUse(recvs) <=> Receiver(p) = t /\ Uses(p, n)
             /\ p \in InUse(sends) <=> Sender(p) = t /\ Uses(p, n)
             /\ p \in InUse(recvs) => Channel(p, recvs[p].tag) = RecvChannel(p, n)
  <2>1. recv_memory[c][p] \in Buffers /\ send_memory[c][p] \in Buffers
    BY <1>1 DEF TypeOK
  <2>2. /\ recv_memory[c][p].field_infos = << >> /\ recv_memory[c][p].data = << >>
        /\ send_memory[c][p].field_infos = << >>
    BY <1>1 DEF MemoryInv
  <2>3. Holds(recvs[p], p, 1, args) /\ recvs[p].data = << >>
    <3>1. recvs[p] = Allocated(recv_memory[c][p], p, 1, Args(t, n))
      BY <1>1
    <3> QED
      BY <3>1, <2>1, <2>2, <1>1, AllocatedTypes
  <2>4. Holds(sends[p], p, 2, args)
    <3>1. sends[p] = Allocated(send_memory[c][p], p, 2, Args(t, n))
      BY <1>1
    <3> QED
      BY <3>1, <2>1, <2>2, <1>1, AllocatedTypes
  <2>5. /\ recvs[p].field_infos = Infos(p, 1, args) /\ sends[p].field_infos = Infos(p, 2, args)
        /\ Infos(p, 1, args) # << >> => recvs[p].tag = TagIn(Infos(p, 1, args), p, args)
    BY <2>3, <2>4 DEF Holds
  <2>6. p \in InUse(recvs) <=> Infos(p, 1, args) # << >>
    BY <2>5 DEF InUse
  <2>7. p \in InUse(sends) <=> Infos(p, 2, args) # << >>
    BY <2>5 DEF InUse
  <2>8. Infos(p, 1, args) # << >> <=> Receiver(p) = t /\ Uses(p, n)
    <3>1. Infos(p, 1, args) # << >> => Receiver(p) = t
      BY <1>1, CallInfos DEF Receiver
    <3> QED
      BY <3>1, <1>1 DEF Uses, RecvInfos
  <2>9. Infos(p, 2, args) # << >> <=> Sender(p) = t /\ Uses(p, n)
    <3>1. Infos(p, 2, args) # << >> => Sender(p) = t
      BY <1>1, CallInfos DEF Sender
    <3>2. Sender(p) = t => n \in DOMAIN Program[Receiver(p)]
      <4>1. Receiver(p) \in Threads
        BY PairTypes
      <4>2. Len(Program[Receiver(p)]) = Len(Program[t])
        BY <4>1 DEF ProgramsFit
      <4> QED
        BY <4>1, <4>2, <1>1, CallTypes
    <3>3. Sender(p) = t => Infos(p, 2, args) = RecvInfos(p, n)
      BY <3>2, <1>1, EndsAgree
    <3> QED
      BY <3>1, <3>2, <3>3 DEF Uses
  <2>10. p \in InUse(recvs) => Channel(p, recvs[p].tag) = RecvChannel(p, n)
    BY <2>5, <2>6, <2>8, <1>1 DEF RecvChannel, RecvInfos
  <2> QED
    BY <2>3, <2>4, <2>5, <2>6, <2>7, <2>8, <2>9, <2>10
<1>3. ASSUME NEW k
      PROVE  On(c, recvs, k) = {<<c, p>> : p \in {p \in Slot(k, n) : ReceiverOf(k) = t}}
  <2>1. ASSUME NEW p \in Pairs
        PROVE  p \in InUse(recvs) /\ Channel(p, recvs[p].tag) = k <=> p \in Slot(k, n) /\ ReceiverOf(k) = t
    <3>1. CASE p \in InUse(recvs) /\ Channel(p, recvs[p].tag) = k
      <4>1. Uses(p, n) /\ Receiver(p) = t /\ RecvChannel(p, n) = k
        BY <3>1, <1>2
      <4> QED
        BY <3>1, <4>1, UsedChannel
    <3>2. CASE p \in Slot(k, n) /\ ReceiverOf(k) = t
      <4>1. Uses(p, n) /\ Receiver(p) = t /\ RecvChannel(p, n) = k
        BY <3>2, SlotFacts
      <4> QED
        BY <3>2, <4>1, <1>2
    <3> QED
      BY <3>1, <3>2
  <2>2. {p \in InUse(recvs) : Channel(p, recvs[p].tag) = k} = {p \in Slot(k, n) : ReceiverOf(k) = t}
    BY <2>1 DEF InUse, Slot
  <2> QED
    BY <2>2 DEF On
<1>4. ASSUME NEW k, NEW p \in Slot(k, n), ReceiverOf(k) = t PROVE On(c, recvs, k) = {<<c, p>>}
  <2>1. {r \in Slot(k, n) : ReceiverOf(k) = t} = {p}
    BY <1>4, SlotFacts
  <2> QED
    BY <2>1, <1>3
<1>5. ASSUME NEW k, ReceiverOf(k) # t \/ Slot(k, n) = {} PROVE On(c, recvs, k) = {}
  <2>1. {r \in Slot(k, n) : ReceiverOf(k) = t} = {}
    BY <1>5
  <2> QED
    BY <2>1, <1>3
<1> QED
  BY <1>2, <1>4, <1>5

\* The receives and messages of a channel, counted, after a call.
LEMMA ExchangeCounts ==
  ASSUME ProgramsFit, TypeOK, ControlInv, MemoryInv, CountInv, NEW t \in Threads,
         NEW n, NEW c, NEW args, NEW recvs, NEW sends, Exchanges(t, n, c, args, recvs, sends),
         posted' = [k \in Channels |-> posted[k] \o SetToSeq(On(c, recvs, k))],
         todo' = [todo EXCEPT ![t] = InUse(sends)],
         call' = [call EXCEPT ![t] = n]
  PROVE  /\ posted' \in [Channels -> Seq(COs \X Pairs)]
         /\ \A k \in Channels :
              /\ Len(posted[k]) \in Nat
              /\ \A j \in 1 .. Len(posted[k]) : posted'[k][j] = posted[k][j]
              /\ \A p \in Slot(k, n) : ReceiverOf(k) = t => posted'[k][Len(posted[k]) + 1] = <<c, p>>
              /\ Pos(k, call[ReceiverOf(k)]) = Matched(k) + Len(posted[k])
              /\ Matched(k)' = Matched(k)
              /\ n \in CallsOn(k) /\ SenderOf(k) = t => SentCall(k)' = n - 1
              /\ SenderOf(k) = t => SentCall(k)' \in {n, n - 1} /\ SentCall(k) = n - 1
              /\ SenderOf(k) # t => SentCall(k)' = SentCall(k)
              /\ Pos(k, SentCall(k)') = Pos(k, SentCall(k))
<1>1. /\ n \in DOMAIN Program[t] /\ c \in COs /\ call[t] \in Nat /\ n = call[t] + 1
      /\ pc[t] = "program" /\ n \in Nat
  BY ExchangesTypes DEF Exchanges
<1>2. posted \in [Channels -> Seq(COs \X Pairs)] /\ call \in [Threads -> 0 .. MaxCalls]
      /\ todo \in [Threads -> SUBSET Pairs]
  BY DEF TypeOK
<1>3. call'[t] = n /\ todo'[t] = InUse(sends)
      /\ \A s \in Threads : s # t => call'[s] = call[s] /\ todo'[s] = todo[s]
  BY <1>2
<1>4. posted' \in [Channels -> Seq(COs \X Pairs)]
  <2>1. PICK S : S = COs \X Pairs
    OBVIOUS
  <2>2. \A k \in Channels : posted[k] \in Seq(S) /\ SetToSeq(On(c, recvs, k)) \in Seq(S)
    BY <2>1, <1>1, <1>2, OnTypes
  <2>3. \A a, b \in Seq(S) : a \o b \in Seq(S)
    OBVIOUS
  <2>4. \A k \in Channels : posted[k] \o SetToSeq(On(c, recvs, k)) \in Seq(S)
    BY <2>2, <2>3, Zenon
  <2>5. posted' \in [Channels -> Seq(S)]
    <3>1. PICK T : T = Seq(S)
      OBVIOUS
    <3>2. \A k \in Channels : posted[k] \o SetToSeq(On(c, recvs, k)) \in T
      BY <3>1, <2>4
    <3>3. posted' \in [Channels -> T]
      BY <3>2
    <3> QED
      BY <3>1, <3>3
  <2> QED
    BY <2>1, <2>5
<1>5. ASSUME NEW k \in Channels
      PROVE  /\ Len(posted[k]) \in Nat /\ Matched(k) \in Nat
             /\ Pos(k, call[ReceiverOf(k)]) = Matched(k) + Len(posted[k])
             /\ SentCall(k) \in Nat
  <2>1. Len(posted[k]) \in Nat /\ Matched(k) \in Nat
    BY <1>2 DEF CountInv
  <2>2. call[ReceiverOf(k)] \in Nat
    BY <1>2, ChannelEnds
  <2>3. Pos(k, call[ReceiverOf(k)]) \in Nat
    BY <2>2, PosFacts
  <2> QED
    BY <2>1, <2>3, SentBounds DEF Matched
<1>6. ASSUME NEW k \in Channels, NEW p \in Slot(k, n), ReceiverOf(k) = t
      PROVE  /\ \A j \in 1 .. Len(posted[k]) : posted'[k][j] = posted[k][j]
             /\ posted'[k][Len(posted[k]) + 1] = <<c, p>>
             /\ Len(posted'[k]) = Len(posted[k]) + 1
  <2>1. SetToSeq(On(c, recvs, k)) = << <<c, p>> >>
    <3>1. On(c, recvs, k) = {<<c, p>>}
      BY <1>6, ExchangeBuffers
    <3> QED
      BY <3>1, SetToSeqSmall
  <2>2. PICK x \in COs \X Pairs : x = <<c, p>>
    BY <1>1, SlotFacts
  <2>3. PICK s \in Seq(COs \X Pairs) : s = posted[k]
    BY <1>2
  <2>4. posted'[k] = s \o <<x>>
    BY <2>1, <2>2, <2>3
  <2>5. PICK S : S = COs \X Pairs
    OBVIOUS
  <2>6. /\ Len(s \o <<x>>) = Len(s) + 1 /\ (s \o <<x>>)[Len(s) + 1] = x
        /\ \A j \in 1 .. Len(s) : (s \o <<x>>)[j] = s[j]
    <3>1. s \in Seq(S)
      BY <2>5
    <3> QED
      BY <3>1
  <2> QED
    BY <2>2, <2>3, <2>4, <2>6
<1>7. ASSUME NEW k \in Channels, ReceiverOf(k) # t \/ Slot(k, n) = {} PROVE posted'[k] = posted[k]
  <2>1. SetToSeq(On(c, recvs, k)) = << >>
    BY <1>7, ExchangeBuffers, SetToSeqSmall
  <2>2. PICK S : S = COs \X Pairs
    OBVIOUS
  <2>3. PICK s \in Seq(S) : s = posted[k]
    BY <2>2, <1>2
  <2>4. s \o << >> = s
    OBVIOUS
  <2> QED
    BY <2>1, <2>3, <2>4
<1>8. ASSUME NEW k \in Channels
      PROVE  /\ Pos(k, n - 1) \in Nat
             /\ Slot(k, n) # {} => Pos(k, n) = Pos(k, n - 1) + 1
             /\ Slot(k, n) = {} => Pos(k, n) = Pos(k, n - 1)
             /\ n \in CallsOn(k) <=> Slot(k, n) # {}
  <2>1. n - 1 \in Nat /\ n = (n - 1) + 1
    BY <1>1
  <2>2. n \in CallsOn(k) <=> Slot(k, n) # {}
    BY <1>1 DEF CallsOn
  <2> QED
    BY <2>1, <2>2, CountStep DEF Pos
<1>9. ASSUME NEW k \in Channels PROVE Matched(k)' = Matched(k)
  <2>1. CASE ReceiverOf(k) # t
    <3>1. posted'[k] = posted[k] /\ call'[ReceiverOf(k)] = call[ReceiverOf(k)]
      BY <2>1, <1>3, <1>7, ChannelEnds
    <3> QED
      BY <3>1 DEF Matched
  <2>2. CASE ReceiverOf(k) = t
    <3>1. Matched(k) = Pos(k, n - 1) - Len(posted[k])
      BY <2>2, <1>1 DEF Matched
    <3>2. Matched(k)' = Pos(k, n) - Len(posted'[k])
      BY <2>2, <1>3 DEF Matched
    <3>3. CASE Slot(k, n) = {}
      BY <3>1, <3>2, <3>3, <1>7, <1>8
    <3>4. CASE Slot(k, n) # {}
      <4>1. Len(posted'[k]) = Len(posted[k]) + 1
        BY <2>2, <3>4, <1>6
      <4> QED
        BY <4>1, <3>1, <3>2, <3>4, <1>5, <1>8
    <3> QED
      BY <3>3, <3>4
  <2> QED
    BY <2>1, <2>2
<1>10. ASSUME NEW k \in Channels, SenderOf(k) # t PROVE SentCall(k)' = SentCall(k)
  <2>1. PICK u \in Threads : u = SenderOf(k) /\ u # t
    BY <1>10, ChannelEnds
  <2>2. call'[u] = call[u] /\ todo'[u] = todo[u]
    BY <2>1, <1>3
  <2> QED
    BY <2>1, <2>2 DEF SentCall
<1>11. ASSUME NEW k \in Channels, SenderOf(k) = t
       PROVE  /\ n \in CallsOn(k) => SentCall(k)' = n - 1
              /\ SentCall(k)' \in {n, n - 1}
              /\ SentCall(k) = n - 1
  <2>1. SentCall(k) = n - 1
    <3>1. todo[t] = {}
      BY <1>1 DEF ControlInv
    <3>2. SentCall(k) = call[t]
      BY <3>1, <1>11 DEF SentCall
    <3> QED
      BY <3>2, <1>1
  <2>2. SentCall(k)' = IF \E p \in InUse(sends) : RecvChannel(p, n) = k THEN n - 1 ELSE n
    BY <1>3, <1>11 DEF SentCall
  <2>3. ASSUME NEW p \in Slot(k, n) PROVE p \in InUse(sends) /\ RecvChannel(p, n) = k
    <3>1. p \in Pairs /\ Uses(p, n) /\ RecvChannel(p, n) = k
      BY SlotFacts
    <3>2. Sender(p) = t
      BY <3>1, <1>11, UsedChannel
    <3> QED
      BY <3>1, <3>2, ExchangeBuffers
  <2> QED
    BY <2>1, <2>2, <2>3, <1>8
<1>12. ASSUME NEW k \in Channels PROVE Pos(k, SentCall(k)') = Pos(k, SentCall(k))
  <2>1. CASE SenderOf(k) # t
    BY <2>1, <1>10
  <2>2. CASE SenderOf(k) = t
    <3>1. CASE SentCall(k)' = n - 1
      BY <3>1, <2>2, <1>11
    <3>2. CASE SentCall(k)' = n /\ n \notin CallsOn(k)
      BY <3>2, <2>2, <1>8, <1>11
    <3> QED
      BY <3>1, <3>2, <2>2, <1>11
  <2> QED
    BY <2>1, <2>2
<1>13. ASSUME NEW k \in Channels, NEW j \in 1 .. Len(posted[k]) PROVE posted'[k][j] = posted[k][j]
  BY <1>6, <1>7
<1> QED
  BY <1>4, <1>5, <1>6, <1>9, <1>10, <1>11, <1>12, <1>13

LEMMA ExchangePreserves ==
  ASSUME ProgramsFit, CommInv, NEW t \in Threads, Exchange(t)
  PROVE  CommInv'
<1>1. TypeOK /\ ControlInv /\ MemoryInv /\ OpenInv /\ HistoryInv /\ HaloInv
      /\ CountInv /\ PostedInv /\ SentInv /\ ReceivedInv
  BY DEF CommInv
<1>2. PICK n, c, args, recvs, sends :
           /\ Exchanges(t, n, c, args, recvs, sends)
           /\ m_valid' = m_valid \cup {c}
           /\ current' = [current EXCEPT ![t] = c]
           /\ recv_memory' = [recv_memory EXCEPT ![c] = recvs]
           /\ send_memory' = [send_memory EXCEPT ![c] = sends]
           /\ m_recv_futures' = m_recv_futures \cup ({c} \X InUse(recvs))
           /\ posted' = [k \in Channels |-> posted[k] \o SetToSeq(On(c, recvs, k))]
           /\ todo' = [todo EXCEPT ![t] = InUse(sends)]
           /\ started' = [i \in Instances |-> IF i \in Range(args) THEN started[i] + 1
                                                                   ELSE started[i]]
           /\ call' = [call EXCEPT ![t] = n]
           /\ pc' = [pc EXCEPT ![t] = "pack"]
           /\ UNCHANGED <<m_send_futures, chan, halo, completed>>
  BY ExchangeStep
<1>3. /\ n \in DOMAIN Program[t] /\ n \in 1 .. MaxCalls /\ call[t] \in Nat /\ n = call[t] + 1
      /\ c \in COs /\ ThreadOf[c] = t /\ c \notin m_valid /\ c = Obj(t, n)
      /\ args \in Seq(Instances) /\ args = Args(t, n)
      /\ recvs \in [Pairs -> Buffers] /\ sends \in [Pairs -> Buffers]
      /\ InUse(recvs) \subseteq Pairs /\ InUse(sends) \subseteq Pairs
  <2>1. c = Obj(t, n)
    BY <1>2 DEF Exchanges
  <2> QED
    BY <2>1, <1>1, <1>2, ExchangesTypes
<1>4. /\ \A p \in Pairs :
              /\ Holds(recvs[p], p, 1, args) /\ Holds(sends[p], p, 2, args)
              /\ recvs[p].data = << >>
              /\ recvs[p].field_infos = Infos(p, 1, args)
              /\ p \in InUse(recvs) <=> Receiver(p) = t /\ Uses(p, n)
              /\ p \in InUse(sends) <=> Sender(p) = t /\ Uses(p, n)
  BY <1>1, <1>2, ExchangeBuffers
<1>5. /\ posted' \in [Channels -> Seq(COs \X Pairs)]
      /\ \A k \in Channels :
              /\ Len(posted[k]) \in Nat
              /\ \A j \in 1 .. Len(posted[k]) : posted'[k][j] = posted[k][j]
              /\ \A p \in Slot(k, n) : ReceiverOf(k) = t => posted'[k][Len(posted[k]) + 1] = <<c, p>>
              /\ Pos(k, call[ReceiverOf(k)]) = Matched(k) + Len(posted[k])
              /\ Matched(k)' = Matched(k)
              /\ n \in CallsOn(k) /\ SenderOf(k) = t => SentCall(k)' = n - 1
              /\ SenderOf(k) = t => SentCall(k)' \in {n, n - 1} /\ SentCall(k) = n - 1
              /\ SenderOf(k) # t => SentCall(k)' = SentCall(k)
              /\ Pos(k, SentCall(k)') = Pos(k, SentCall(k))
  BY <1>1, <1>2, ExchangeCounts
<1>6. /\ call' \in [Threads -> 0 .. MaxCalls] /\ call'[t] = n
      /\ current' \in [Threads -> COs] /\ current'[t] = c
      /\ pc' \in [Threads -> {"program", "pack", "wait"}] /\ pc'[t] = "pack"
      /\ todo' \in [Threads -> SUBSET Pairs] /\ todo'[t] = InUse(sends)
      /\ \A s \in Threads : s # t => /\ call'[s] = call[s] /\ current'[s] = current[s]
                                     /\ pc'[s] = pc[s] /\ todo'[s] = todo[s]
  BY <1>1, <1>2, <1>3 DEF TypeOK
<1>7. /\ recv_memory' \in [COs -> [Pairs -> Buffers]] /\ recv_memory'[c] = recvs
      /\ \A d \in COs : d # c => recv_memory'[d] = recv_memory[d]
  <2>1. recv_memory \in [COs -> [Pairs -> Buffers]]
    BY <1>1 DEF TypeOK
  <2> QED
    BY <2>1, <1>2, <1>3
<1>8. /\ send_memory' \in [COs -> [Pairs -> Buffers]] /\ send_memory'[c] = sends
      /\ \A d \in COs : d # c => send_memory'[d] = send_memory[d]
  <2>1. send_memory \in [COs -> [Pairs -> Buffers]]
    BY <1>1 DEF TypeOK
  <2> QED
    BY <2>1, <1>2, <1>3
<1>9. ASSUME NEW d, NEW p
      PROVE  /\ d # c => (<<d, p>> \in m_recv_futures' <=> <<d, p>> \in m_recv_futures)
             /\ d = c /\ p \in Pairs => (<<d, p>> \in m_recv_futures' <=> p \in InUse(recvs))
  <2>1. <<d, p>> \in m_recv_futures' <=> <<d, p>> \in m_recv_futures \/ (d = c /\ p \in InUse(recvs))
    BY <1>2
  <2>2. p \in Pairs => <<c, p>> \notin m_recv_futures
    BY <1>1, <1>3 DEF MemoryInv
  <2> QED
    BY <2>1, <2>2
<1>10. ASSUME NEW s \in Threads, NEW d, s # t \/ d # c
       PROVE  \A m : IsLast(s, d, m)' <=> IsLast(s, d, m)
  <2>1. TAKE m
  <2>2. CASE s # t
    BY <2>2, <1>6 DEF IsLast
  <2>3. CASE s = t /\ d # c
    <3>1. IsLast(t, d, m)' => IsLast(t, d, m)
      <4>1. SUFFICES ASSUME m \in 1 .. n, Obj(t, m) = d, \A l \in m + 1 .. n : Obj(t, l) # d
                     PROVE  IsLast(t, d, m)
        BY <1>6 DEF IsLast
      <4>2. m # n
        BY <4>1, <2>3, <1>3
      <4> QED
        BY <4>1, <4>2, <1>3 DEF IsLast
    <3>2. IsLast(t, d, m) => IsLast(t, d, m)'
      <4>1. SUFFICES ASSUME m \in 1 .. call[t], Obj(t, m) = d, \A l \in m + 1 .. call[t] : Obj(t, l) # d
                     PROVE  IsLast(t, d, m)'
        BY DEF IsLast
      <4>2. \A l \in m + 1 .. n : Obj(t, l) # d
        <5>1. TAKE l \in m + 1 .. n
        <5>2. l = n \/ l \in m + 1 .. call[t]
          BY <4>1, <1>3
        <5> QED
          BY <4>1, <5>2, <2>3, <1>3
      <4>3. m \in 1 .. n
        BY <4>1, <1>3
      <4> QED
        BY <4>1, <4>2, <4>3, <1>6 DEF IsLast
    <3> QED
      BY <3>1, <3>2, <2>3
  <2> QED
    BY <2>2, <2>3, <1>10
<1>11. \A m : IsLast(t, c, m)' <=> m = n
  <2>1. TAKE m
  <2>2. IsLast(t, c, m)' <=> m \in 1 .. n /\ Obj(t, m) = c /\ \A l \in m + 1 .. n : Obj(t, l) # c
    BY <1>6 DEF IsLast
  <2>3. m = n => m \in 1 .. n /\ m + 1 .. n = {}
    BY <1>3
  <2>4. m \in 1 .. n /\ m # n => n \in m + 1 .. n
    BY <1>3
  <2> QED
    BY <2>2, <2>3, <2>4, <1>3
<1>12. ASSUME NEW d \in m_valid, NEW m
       PROVE  /\ d \in COs /\ d # c /\ ThreadOf[d] \in Threads
              /\ IsLast(ThreadOf[d], d, m)' <=> IsLast(ThreadOf[d], d, m)
  <2>1. d \in COs /\ d # c
    BY <1>1, <1>3 DEF TypeOK
  <2>2. ThreadOf[d] \in Threads
    BY <2>1, TypeAssumption DEF TypeAssumption
  <2> QED
    BY <2>1, <2>2, <1>10
<1>13. TypeOK'
  <2>1. m_valid' \subseteq COs /\ m_recv_futures' \subseteq COs \X Pairs
    BY <1>1, <1>2, <1>3 DEF TypeOK
  <2>2. started' \in [Instances -> Nat]
    BY <1>1, <1>2 DEF TypeOK
  <2> QED
    BY <2>1, <2>2, <1>1, <1>2, <1>5, <1>6, <1>7, <1>8 DEF TypeOK
<1>14. ControlInv'
  <2>1. ASSUME NEW s \in Threads
        PROVE  /\ call'[s] <= Len(Program[s])
               /\ pc'[s] = "pack" => /\ call'[s] > 0
                                     /\ current'[s] = Obj(s, call'[s])
                                     /\ current'[s] \in m_valid'
                                     /\ \A p \in todo'[s] : Sender(p) = s /\ Uses(p, call'[s])
               /\ pc'[s] # "pack" => todo'[s] = {}
               /\ pc'[s] = "wait" => current'[s] \in m_valid' /\ ThreadOf[current'[s]] = s
    <3>1. CASE s = t
      <4>1. n <= Len(Program[t]) /\ n > 0
        BY <1>3, CallTypes
      <4>2. \A p \in InUse(sends) : Sender(p) = t /\ Uses(p, n)
        BY <1>3, <1>4
      <4> QED
        BY <3>1, <4>1, <4>2, <1>2, <1>3, <1>6
    <3>2. CASE s # t
      BY <3>2, <1>1, <1>2, <1>6 DEF ControlInv
    <3> QED
      BY <3>1, <3>2
  <2> QED
    BY <2>1 DEF ControlInv
<1>15. OpenInv'
  <2>1. ASSUME NEW d \in m_valid' PROVE \E m \in Nat : IsLast(ThreadOf[d], d, m)'
    <3>1. CASE d = c
      BY <3>1, <1>3, <1>11
    <3>2. CASE d # c
      <4>1. d \in m_valid
        BY <3>2, <1>2
      <4>2. PICK m \in Nat : IsLast(ThreadOf[d], d, m)
        BY <4>1, <1>1 DEF OpenInv
      <4> QED
        BY <4>1, <4>2, <1>12
    <3> QED
      BY <3>1, <3>2
  <2> QED
    BY <2>1 DEF OpenInv
<1>16. MemoryInv'
  <2>1. \A b, r, side, a : Holds(b, r, side, a)' <=> Holds(b, r, side, a)
    BY DEF Holds
  <2>2. ASSUME NEW d \in COs, NEW r \in Pairs
        PROVE  /\ d \notin m_valid' => /\ recv_memory'[d][r].field_infos = << >>
                                       /\ recv_memory'[d][r].data = << >>
                                       /\ send_memory'[d][r].field_infos = << >>
                                       /\ <<d, r>> \notin m_recv_futures'
               /\ \A m \in Nat : d \in m_valid' /\ IsLast(ThreadOf[d], d, m)' =>
                    /\ Holds(recv_memory'[d][r], r, 1, Args(ThreadOf[d], m))
                    /\ Holds(send_memory'[d][r], r, 2, Args(ThreadOf[d], m))
                    /\ <<d, r>> \in m_recv_futures' => recv_memory'[d][r].field_infos # << >>
    <3>1. CASE d = c
      <4>1. d \in m_valid'
        BY <3>1, <1>2
      <4>2. ASSUME NEW m, IsLast(ThreadOf[d], d, m)' PROVE m = n
        BY <3>1, <4>2, <1>3, <1>11
      <4>3. Holds(recvs[r], r, 1, Args(t, n)) /\ Holds(sends[r], r, 2, Args(t, n))
        BY <1>3, <1>4
      <4>4. <<d, r>> \in m_recv_futures' => recvs[r].field_infos # << >>
        BY <3>1, <1>9 DEF InUse
      <4> QED
        BY <3>1, <4>1, <4>2, <4>3, <4>4, <1>3, <1>7, <1>8
    <3>2. CASE d # c
      <4>1. d \in m_valid' <=> d \in m_valid
        BY <3>2, <1>2
      <4>2. /\ recv_memory'[d] = recv_memory[d] /\ send_memory'[d] = send_memory[d]
            /\ <<d, r>> \in m_recv_futures' <=> <<d, r>> \in m_recv_futures
        BY <3>2, <1>7, <1>8, <1>9
      <4>3. CASE d \notin m_valid
        BY <4>1, <4>2, <4>3, <1>1 DEF MemoryInv
      <4>4. CASE d \in m_valid
        <5>1. ASSUME NEW m \in Nat, IsLast(ThreadOf[d], d, m)'
              PROVE  /\ Holds(recv_memory[d][r], r, 1, Args(ThreadOf[d], m))
                     /\ Holds(send_memory[d][r], r, 2, Args(ThreadOf[d], m))
                     /\ <<d, r>> \in m_recv_futures => recv_memory[d][r].field_infos # << >>
          <6>1. IsLast(ThreadOf[d], d, m)
            BY <4>4, <5>1, <1>12
          <6> QED
            BY <4>4, <6>1, <1>1 DEF MemoryInv
        <5> QED
          BY <4>1, <4>2, <4>4, <5>1
      <4> QED
        BY <4>3, <4>4
    <3> QED
      BY <3>1, <3>2
  <2> QED
    BY <2>1, <2>2 DEF MemoryInv
<1>17. CountInv'
  <2>1. ASSUME NEW k \in Channels
        PROVE  Matched(k)' \in Nat /\ Pos(k, SentCall(k)') = Matched(k)' + Len(chan[k])
    BY <1>1, <1>5 DEF CountInv
  <2> QED
    BY <2>1, <1>2 DEF CountInv
<1>18. PostedInv'
  <2>1. ASSUME NEW l \in Channels, NEW m \in 1 .. call'[ReceiverOf(l)], NEW r \in Slot(l, m),
               Pos(l, m) > Matched(l), NEW d, d = Obj(ReceiverOf(l), m)
        PROVE  /\ posted'[l][Pos(l, m) - Matched(l)] = <<d, r>>
               /\ d \in m_valid' /\ IsLast(ReceiverOf(l), d, m)'
               /\ <<d, r>> \in m_recv_futures'
               /\ recv_memory'[d][r].data = << >>
    <3>1. PICK s \in Threads : s = ReceiverOf(l)
      BY ChannelEnds
    <3>2. r \in Pairs /\ Uses(r, m) /\ Receiver(r) = s /\ m \in CallsOn(l) /\ m \in Nat
      BY <3>1, SlotFacts DEF CallsOn
    <3>3. call[s] \in Nat /\ Matched(l) \in Nat /\ Pos(l, m) \in Nat /\ Len(posted[l]) \in Nat
      BY <3>2, <1>1, <1>5, PosFacts DEF TypeOK, CountInv
    <3>4. Pos(l, call[s]) = Matched(l) + Len(posted[l])
      BY <3>1, <1>5
    <3>5. CASE s = t /\ m = n
      <4>1. d = c
        BY <3>1, <3>5, <2>1, <1>3
      <4>2. Pos(l, m) = Pos(l, call[s]) + 1
        BY <3>2, <3>5, <1>3, CountStep DEF Pos
      <4>3. Pos(l, m) - Matched(l) = Len(posted[l]) + 1
        BY <3>3, <3>4, <4>2
      <4>4. posted'[l][Len(posted[l]) + 1] = <<c, r>>
        BY <3>1, <3>5, <1>5
      <4>5. r \in InUse(recvs)
        BY <3>2, <3>5, <1>4
      <4>6. <<c, r>> \in m_recv_futures' /\ recv_memory'[c][r].data = << >>
        BY <3>2, <4>5, <1>4, <1>7, <1>9
      <4>7. c \in m_valid' /\ IsLast(t, c, n)'
        BY <1>2, <1>11
      <4> QED
        BY <3>1, <3>5, <4>1, <4>3, <4>4, <4>6, <4>7
    <3>6. CASE s # t \/ m # n
      <4>1. m \in 1 .. call[s]
        BY <3>1, <3>6, <1>3, <1>6
      <4>2. /\ posted[l][Pos(l, m) - Matched(l)] = <<d, r>>
            /\ d \in m_valid /\ IsLast(s, d, m)
            /\ <<d, r>> \in m_recv_futures
            /\ recv_memory[d][r].data = << >>
        BY <3>1, <4>1, <2>1, <1>1 DEF PostedInv
      <4>3. d \in COs /\ d # c
        BY <4>2, <1>12
      <4>4. Pos(l, m) <= Pos(l, call[s])
        BY <4>1, <3>2, <3>3, PosFacts
      <4>5. Pos(l, m) - Matched(l) \in 1 .. Len(posted[l])
        BY <4>4, <3>3, <3>4, <2>1
      <4>6. posted'[l][Pos(l, m) - Matched(l)] = <<d, r>>
        BY <4>2, <4>5, <1>5
      <4>7. d \in m_valid' /\ IsLast(s, d, m)'
        BY <4>2, <4>3, <1>2, <1>10
      <4>8. <<d, r>> \in m_recv_futures' /\ recv_memory'[d][r].data = << >>
        BY <4>2, <4>3, <1>7, <1>9
      <4> QED
        BY <3>1, <4>6, <4>7, <4>8
    <3> QED
      BY <3>5, <3>6
  <2>2. \A l \in Channels : Matched(l)' = Matched(l)
    BY <1>5
  <2> QED
    BY <2>1, <2>2 DEF PostedInv
<1>19. SentInv'
  <2>1. ASSUME NEW l \in Channels, NEW m \in 1 .. SentCall(l)', NEW r \in Slot(l, m), Pos(l, m) > Matched(l)
        PROVE  chan[l][Pos(l, m) - Matched(l)]
                 = [from |-> <<Obj(SenderOf(l), m), r>>, data |-> Expected(r, m)]
    <3>1. m \in CallsOn(l) /\ m \in Nat
      BY SlotFacts DEF CallsOn
    <3>2. m \in 1 .. SentCall(l)
      <4>1. CASE SenderOf(l) # t
        BY <4>1, <1>5
      <4>2. CASE SenderOf(l) = t
        <5>1. /\ SentCall(l) = n - 1 /\ SentCall(l)' \in {n, n - 1}
              /\ n \in CallsOn(l) => SentCall(l)' = n - 1
          BY <4>2, <1>5
        <5> QED
          BY <5>1, <3>1, <2>1, <1>3
      <4> QED
        BY <4>1, <4>2
    <3> QED
      BY <3>2, <2>1, <1>1 DEF SentInv
  <2>2. \A l \in Channels : Matched(l)' = Matched(l)
    BY <1>5
  <2> QED
    BY <2>1, <2>2, <1>2 DEF SentInv
<1>20. ReceivedInv'
  <2>1. ASSUME NEW d \in COs, NEW r \in Pairs, NEW m \in Nat, <<d, r>> \in m_recv_futures',
               IsLast(ThreadOf[d], d, m)', NEW l, l = RecvChannel(r, m), Pos(l, m) <= Matched(l)'
        PROVE  recv_memory'[d][r].data = Expected(r, m)
    <3>1. CASE d = c
      <4>1. m = n /\ r \in InUse(recvs)
        BY <3>1, <2>1, <1>3, <1>9, <1>11
      <4>2. Receiver(r) = t /\ Uses(r, n)
        BY <4>1, <1>4
      <4>3. l \in Channels /\ r \in Slot(l, n) /\ ReceiverOf(l) = t
        BY <4>1, <4>2, <2>1, UsedChannel
      <4>4. n \in CallsOn(l)
        BY <4>3, SlotFacts
      <4>5. Pos(l, n) = Pos(l, call[t]) + 1
        BY <4>4, <1>3, CountStep DEF Pos
      <4>6. Pos(l, call[t]) = Matched(l) + Len(posted[l]) /\ Matched(l)' = Matched(l)
            /\ Len(posted[l]) \in Nat
        BY <4>3, <1>5
      <4>7. Matched(l) \in Nat
        BY <4>3, <1>1 DEF CountInv
      <4>8. Pos(l, n) <= Matched(l)
        BY <4>1, <4>6, <2>1
      <4> QED
        BY <4>5, <4>6, <4>7, <4>8
    <3>2. CASE d # c
      <4>1. <<d, r>> \in m_recv_futures /\ recv_memory'[d] = recv_memory[d]
        BY <3>2, <2>1, <1>7, <1>9
      <4>2. d \in m_valid /\ ThreadOf[d] = Receiver(r)
        BY <4>1, <2>1, <1>1, OpenReceive
      <4>3. IsLast(ThreadOf[d], d, m)
        BY <4>2, <2>1, <1>12
      <4>4. Uses(r, m)
        BY <4>1, <4>3, <2>1, <1>1, OpenReceive
      <4>5. l \in Channels
        BY <4>4, <2>1, UsedChannel
      <4>6. Pos(l, m) <= Matched(l)
        BY <4>5, <2>1, <1>5
      <4> QED
        BY <4>1, <4>3, <4>6, <2>1, <1>1 DEF ReceivedInv
    <3> QED
      BY <3>1, <3>2
  <2> QED
    BY <2>1 DEF ReceivedInv
<1>21. \A i \in Instances : /\ started[i] \in Nat /\ completed[i] \in Nat
                            /\ i \in Range(args) => started'[i] = started[i] + 1
                            /\ i \notin Range(args) => started'[i] = started[i]
  BY <1>1, <1>2 DEF TypeOK
<1>22. ASSUME NEW d \in m_valid, NEW m, IsLast(ThreadOf[d], d, m), NEW i, i \in Range(Args(ThreadOf[d], m))
       PROVE  i \notin Range(args)
  <2>1. SUFFICES ASSUME i \in Range(args) PROVE FALSE
    OBVIOUS
  <2>2. d \in COs /\ d # c
    BY <1>12
  <2>3. /\ ThreadOf[d] \in Threads /\ m \in DOMAIN Program[ThreadOf[d]]
        /\ d = Obj(ThreadOf[d], m)
    BY <2>2, <1>1, <1>22, ValidObject
  <2>4. ThreadOf[d] = t
    BY <2>1, <2>3, <1>3, <1>22, ArgsAreOwned
  <2> QED
    BY <2>1, <2>2, <2>3, <2>4, <1>3, <1>22, SameObject
<1>23. HistoryInv'
  <2>1. ASSUME NEW i \in Instances
        PROVE  /\ started'[i] = Round(i, call'[OwnerOf[i[2]]])
               /\ completed[i] <= started'[i]
               /\ \A d \in m_valid' : \A m \in Nat :
                    IsLast(ThreadOf[d], d, m)' /\ i \in Range(Args(ThreadOf[d], m))
                      => completed[i] < started'[i] /\ Round(i, m) = started'[i]
               /\ completed[i] = started'[i] \/ \E d \in m_valid' : \E m \in Nat :
                    IsLast(ThreadOf[d], d, m)' /\ i \in Range(Args(ThreadOf[d], m))
    <3>1. PICK s \in Threads : s = OwnerOf[i[2]]
      BY InstanceTypes
    <3>2. started[i] = Round(i, call[s]) /\ completed[i] <= started[i]
      BY <3>1, <1>1 DEF HistoryInv
    <3>3. started[i] \in Nat /\ completed[i] \in Nat
      BY <1>21
    <3>4. started'[i] = Round(i, call'[s])
      <4>1. CASE s # t
        <5>1. i \notin Range(args)
          BY <3>1, <4>1, <1>3, ArgsAreOwned
        <5> QED
          BY <4>1, <5>1, <3>2, <1>6, <1>21
      <4>2. CASE s = t
        <5>1. n \in CallsOf(i) <=> i \in Range(args)
          BY <3>1, <4>2, <1>3 DEF CallsOf
        <5>2. call[t] \in Nat /\ n = call[t] + 1
          BY <1>3
        <5>3. CASE i \in Range(args)
          <6>1. Round(i, n) = Round(i, call[t]) + 1
            BY <5>1, <5>2, <5>3, CountStep DEF Round
          <6> QED
            BY <4>2, <5>3, <6>1, <3>2, <1>6, <1>21
        <5>4. CASE i \notin Range(args)
          <6>1. Round(i, n) = Round(i, call[t])
            BY <5>1, <5>2, <5>4, CountStep DEF Round
          <6> QED
            BY <4>2, <5>4, <6>1, <3>2, <1>6, <1>21
        <5> QED
          BY <5>3, <5>4
      <4> QED
        BY <4>1, <4>2
    <3>5. completed[i] <= started'[i]
      BY <3>2, <3>3, <1>21
    <3>6. ASSUME NEW d \in m_valid', NEW m \in Nat, IsLast(ThreadOf[d], d, m)',
                 i \in Range(Args(ThreadOf[d], m))
          PROVE  completed[i] < started'[i] /\ Round(i, m) = started'[i]
      <4>1. CASE d = c
        <5>1. m = n /\ i \in Range(args)
          BY <3>6, <4>1, <1>3, <1>11
        <5>2. s = t
          BY <3>1, <5>1, <1>3, ArgsAreOwned
        <5>3. Round(i, m) = started'[i]
          BY <5>1, <5>2, <3>4, <1>6
        <5>4. started'[i] = started[i] + 1
          BY <5>1, <1>21
        <5> QED
          BY <5>3, <5>4, <3>2, <3>3
      <4>2. CASE d # c
        <5>1. d \in m_valid
          BY <4>2, <1>2
        <5>2. IsLast(ThreadOf[d], d, m)
          BY <5>1, <3>6, <1>12
        <5>3. completed[i] < started[i] /\ Round(i, m) = started[i]
          BY <5>1, <5>2, <3>6, <1>1 DEF HistoryInv
        <5>4. i \notin Range(args)
          BY <5>1, <5>2, <3>6, <1>22
        <5> QED
          BY <5>3, <5>4, <1>21
      <4> QED
        BY <4>1, <4>2
    <3>7. completed[i] = started'[i] \/ \E d \in m_valid' : \E m \in Nat :
            IsLast(ThreadOf[d], d, m)' /\ i \in Range(Args(ThreadOf[d], m))
      <4>1. CASE i \in Range(args)
        <5>1. c \in m_valid' /\ n \in Nat /\ IsLast(ThreadOf[c], c, n)' /\ i \in Range(Args(ThreadOf[c], n))
          BY <4>1, <1>2, <1>3, <1>11
        <5> QED
          BY <5>1
      <4>2. CASE i \notin Range(args)
        <5>1. started'[i] = started[i]
          BY <4>2, <1>21
        <5>2. CASE completed[i] # started[i]
          <6>1. PICK d \in m_valid, m \in Nat : IsLast(ThreadOf[d], d, m) /\ i \in Range(Args(ThreadOf[d], m))
            BY <5>2, <1>1 DEF HistoryInv
          <6>2. d \in m_valid' /\ IsLast(ThreadOf[d], d, m)'
            BY <6>1, <1>2, <1>12
          <6> QED
            BY <6>1, <6>2
        <5> QED
          BY <5>1, <5>2
      <4> QED
        BY <4>1, <4>2
    <3> QED
      BY <3>1, <3>4, <3>5, <3>6, <3>7
  <2> QED
    BY <2>1, <1>2 DEF HistoryInv
<1>24. HaloInv'
  <2>1. ASSUME NEW f \in Fields, NEW r \in HalosOf[PatternOf[f]]
        PROVE  /\ ~Waits(f, r)' => halo[f][r] = Content(<<f, r[2]>>, started'[<<f, r[1]>>])
               /\ Waits(f, r)' => halo[f][r].round + 1 = started'[<<f, r[1]>>]
    <3>1. PICK i \in Instances : i = <<f, r[1]>>
      BY HalosArePairs
    <3>2. r \in Pairs
      BY HalosArePairs
    <3>3. \A d \in COs : d # c => recv_memory'[d][r] = recv_memory[d][r]
      BY <1>7
    <3>4. f \in Range(recvs[r].field_infos) <=> i \in Range(args)
      <4>1. f \in Range(Infos(r, 1, args)) <=> i \in Range(args)
        BY <3>1, <1>3, InfosFields
      <4> QED
        BY <4>1, <3>2, <1>4
    <3>5. CASE i \in Range(args)
      <4>1. ~Waits(f, r)
        <5>1. SUFFICES ASSUME NEW d \in COs, <<d, r>> \in m_recv_futures,
                              f \in Range(recv_memory[d][r].field_infos)
                       PROVE  FALSE
          BY DEF Waits
        <5>2. PICK m \in DOMAIN Program[Receiver(r)] :
                /\ IsLast(Receiver(r), d, m) /\ <<f, r[1]>> \in Range(Args(Receiver(r), m))
                /\ ThreadOf[d] = Receiver(r) /\ d \in m_valid
          BY <5>1, <3>2, <1>1, OpenInstances
        <5> QED
          BY <5>2, <3>1, <3>5, <1>22
      <4>2. halo[f][r] = Content(<<f, r[2]>>, started[i])
        BY <4>1, <3>1, <1>1 DEF HaloInv
      <4>3. halo[f][r].round + 1 = started'[i]
        BY <4>2, <3>5, <1>21 DEF Content
      <4>4. Waits(f, r)'
        <5>1. f \in Range(recv_memory'[c][r].field_infos)
          BY <3>4, <3>5, <1>7
        <5>2. r \in InUse(recvs)
          <6>1. recvs[r].field_infos # << >>
            BY <3>4, <3>5 DEF Range
          <6> QED
            BY <6>1, <3>2 DEF InUse
        <5>3. <<c, r>> \in m_recv_futures'
          BY <5>2, <3>2, <1>9
        <5> QED
          BY <5>1, <5>3, <1>3 DEF Waits
      <4> QED
        BY <4>3, <4>4, <3>1
    <3>6. CASE i \notin Range(args)
      <4>1. Waits(f, r)' <=> Waits(f, r)
        <5>1. ASSUME NEW d \in COs
              PROVE  <<d, r>> \in m_recv_futures' /\ f \in Range(recv_memory'[d][r].field_infos)
                       <=> <<d, r>> \in m_recv_futures /\ f \in Range(recv_memory[d][r].field_infos)
          <6>1. CASE d = c
            <7>1. f \notin Range(recv_memory'[c][r].field_infos)
              BY <3>4, <3>6, <1>7
            <7>2. <<c, r>> \notin m_recv_futures
              BY <3>2, <1>1, <1>3 DEF MemoryInv
            <7> QED
              BY <6>1, <7>1, <7>2
          <6>2. CASE d # c
            BY <6>2, <3>3, <1>9
          <6> QED
            BY <6>1, <6>2
        <5> QED
          BY <5>1 DEF Waits
      <4>2. started'[i] = started[i]
        BY <3>6, <1>21
      <4> QED
        BY <4>1, <4>2, <3>1, <1>1 DEF HaloInv
    <3> QED
      BY <3>5, <3>6
  <2> QED
    BY <2>1, <1>2 DEF HaloInv
<1> QED
  BY <1>13, <1>14, <1>15, <1>16, <1>17, <1>18, <1>19, <1>20, <1>23, <1>24 DEF CommInv

----------------------------------------------------------------------------
(***************************************************************************)
(* The invariant and what follows from it.                                 *)
(***************************************************************************)

LEMMA InitLemma == Init => CommInv
<1> SUFFICES ASSUME Init PROVE CommInv
  OBVIOUS
<1>1. TypeOK
  BY TypeInit
<1>2. /\ \A t \in Threads : call[t] = 0 /\ todo[t] = {} /\ pc[t] = "program"
      /\ m_valid = {} /\ m_recv_futures = {}
  BY DEF Init
<1>3. \A t \in Threads : Len(Program[t]) \in Nat
  BY CallTypes
<1>4. ControlInv
  BY <1>2, <1>3 DEF ControlInv
<1>5. OpenInv
  BY <1>2 DEF OpenInv
<1>6. MemoryInv
  <2>1. \A c \in COs : \A p \in Pairs : recv_memory[c][p] = Empty /\ send_memory[c][p] = Empty
    BY DEF Init
  <2> QED
    BY <2>1, <1>2 DEF MemoryInv, Empty
<1>7. ASSUME NEW k \in Channels PROVE Matched(k) = 0 /\ SentCall(k) = 0 /\ Pos(k, 0) = 0
  <2>1. posted[k] = << >>
    BY DEF Init
  <2>2. ReceiverOf(k) \in Threads /\ SenderOf(k) \in Threads
    BY ChannelEnds
  <2>3. Pos(k, 0) = 0
    BY CountStep DEF Pos
  <2> QED
    BY <2>1, <2>2, <2>3, <1>2 DEF Matched, SentCall
<1>8. CountInv
  <2>1. \A k \in Channels : chan[k] = << >>
    BY DEF Init
  <2> QED
    BY <2>1, <1>7 DEF CountInv
<1>9. PostedInv
  BY <1>2, ChannelEnds DEF PostedInv
<1>10. SentInv
  BY <1>7 DEF SentInv
<1>11. ReceivedInv
  BY <1>2 DEF ReceivedInv
<1>12. HistoryInv
  <2>1. ASSUME NEW i \in Instances
        PROVE  started[i] = 0 /\ completed[i] = 0 /\ Round(i, call[OwnerOf[i[2]]]) = 0
    <3>1. call[OwnerOf[i[2]]] = 0
      BY <1>2, InstanceTypes
    <3>2. Round(i, 0) = 0
      BY CountStep DEF Round
    <3> QED
      BY <3>1, <3>2 DEF Init
  <2> QED
    BY <2>1, <1>2 DEF HistoryInv
<1>13. HaloInv
  <2>1. ASSUME NEW f \in Fields, NEW p \in HalosOf[PatternOf[f]]
        PROVE  ~Waits(f, p) /\ halo[f][p] = Content(<<f, p[2]>>, started[<<f, p[1]>>])
    <3>1. started[<<f, p[1]>>] = 0
      BY HalosArePairs DEF Init
    <3>2. halo[f][p] = Content(<<f, p[2]>>, 0)
      BY DEF Init
    <3> QED
      BY <3>1, <3>2, <1>2 DEF Waits
  <2> QED
    BY <2>1 DEF HaloInv
<1> QED
  BY <1>1, <1>4, <1>5, <1>6, <1>8, <1>9, <1>10, <1>11, <1>12, <1>13 DEF CommInv

\* The invariant is inductive.
THEOREM CommInvariant ==
  ASSUME ProgramsFit
  PROVE  Spec => []CommInv
<1>1. CommInv /\ [Next]_vars => CommInv'
  <2> SUFFICES ASSUME CommInv, [Next]_vars PROVE CommInv'
    OBVIOUS
  <2>1. CASE UNCHANGED vars
    BY <2>1, QuietSteps
  <2>2. ASSUME NEW t \in Threads, Step(t) PROVE CommInv'
    <3>1. CASE ExchangeReturns(t) \/ \E c \in COs : WaitStart(t, c)
      BY <3>1, QuietSteps
    <3>2. CASE WaitReturns(t)
      BY <3>2, WaitReturnsPreserves
    <3>3. ASSUME NEW p \in Pairs, Pack(t, p) PROVE CommInv'
      BY <3>3, PackPreserves
    <3>4. ASSUME NEW p \in Pairs, Unpack(t, p) PROVE CommInv'
      BY <3>4, UnpackPreserves
    <3>5. CASE Exchange(t)
      BY <3>5, ExchangePreserves
    <3> QED
      BY <2>2, <3>1, <3>2, <3>3, <3>4, <3>5 DEF Step
  <2>3. ASSUME NEW k \in Channels, Match(k) PROVE CommInv'
    BY <2>3, MatchPreserves
  <2>4. CASE \E c \in COs, p \in Pairs : SendBuffered(c, p)
    BY <2>4, QuietSteps
  <2>5. CASE Finished
    BY <2>5, QuietSteps DEF Finished
  <2> QED
    BY <2>1, <2>2, <2>3, <2>4, <2>5 DEF Next
<1> QED
  BY <1>1, InitLemma, PTL DEF Spec

\* Whatever the calls of exchange and wait do, and in whatever order MPI
\* matches and completes, the state stays what its declaration says.
THEOREM TypeCorrect ==
  ASSUME ProgramsFit
  PROVE  Spec => []TypeOK
<1>1. CommInv => TypeOK
  BY DEF CommInv
<1> QED
  BY <1>1, CommInvariant, PTL

\* A receive gets the message for its pair of domains, packed with its fields
\* in its order: tags, the tag map and the order of the calls keep patterns,
\* objects and domains apart (communication_object_2.hpp:436-447).
THEOREM MessagesStayMatched ==
  ASSUME ProgramsFit
  PROVE  Spec => []MessagesMatch
<1>1. CommInv => MessagesMatch
  <2> SUFFICES ASSUME CommInv, NEW k \in Channels, NEW j \in DOMAIN posted[k] \cap DOMAIN chan[k],
                      NEW to, to = posted[k][j], NEW message, message = chan[k][j]
               PROVE  /\ to[2] = message.from[2]
                      /\ [l \in DOMAIN message.data |-> message.data[l].of[1]]
                           = recv_memory[to[1]][to[2]].field_infos
    BY DEF MessagesMatch
  <2>1. TypeOK /\ ControlInv /\ OpenInv /\ MemoryInv /\ CountInv /\ PostedInv /\ SentInv
    BY DEF CommInv
  <2>2. PICK t, u \in Threads : t = ReceiverOf(k) /\ u = SenderOf(k)
    BY ChannelEnds
  <2>3. PICK M \in Nat : M = Matched(k)
    BY <2>1 DEF CountInv
  <2>4. PICK P \in Nat : P = Len(posted[k]) /\ DOMAIN posted[k] = 1 .. P
    BY <2>1 DEF TypeOK
  <2>5. PICK Q \in Nat : Q = Len(chan[k]) /\ DOMAIN chan[k] = 1 .. Q
    BY <2>1 DEF TypeOK
  <2>6. call[t] \in Nat /\ SentCall(k) \in Nat
    BY <2>1, CallBounds, SentBounds
  <2>7. Pos(k, call[t]) = M + P
    <3>1. Pos(k, call[t]) \in Nat
      BY <2>6, PosFacts
    <3> QED
      BY <3>1, <2>2, <2>3, <2>4 DEF Matched
  <2>8. Pos(k, SentCall(k)) = M + Q
    BY <2>1, <2>3, <2>5 DEF CountInv
  <2>9. j \in 1 .. P /\ j \in 1 .. Q
    BY <2>4, <2>5
  <2>10. PICK n \in 1 .. call[t] : n \in CallsOn(k) /\ Pos(k, n) = M + j
    <3>1. M + j \in 1 .. Count(CallsOn(k), call[t])
      BY <2>7, <2>9 DEF Pos
    <3> QED
      BY <3>1, <2>6, CountOnto DEF Pos
  <2>11. n \in 1 .. SentCall(k) /\ n \in Nat
    <3>1. SUFFICES ASSUME SentCall(k) < n PROVE FALSE
      BY <2>6
    <3>2. n \in Nat
      OBVIOUS
    <3>3. Pos(k, SentCall(k)) < Pos(k, n)
      BY <3>1, <3>2, <2>6, <2>10, PosFacts
    <3> QED
      BY <3>3, <2>8, <2>9, <2>10
  <2>12. PICK p \in Slot(k, n) : TRUE
    BY <2>10 DEF CallsOn
  <2>13. PICK c : c = Obj(t, n)
    OBVIOUS
  <2>14. Pos(k, n) > M /\ Pos(k, n) - M = j
    BY <2>9, <2>10
  <2>15. to = <<c, p>> /\ c \in m_valid /\ IsLast(t, c, n) /\ <<c, p>> \in m_recv_futures
    BY <2>1, <2>2, <2>3, <2>10, <2>12, <2>13, <2>14 DEF PostedInv
  <2>16. message = [from |-> <<Obj(u, n), p>>, data |-> Expected(p, n)]
    BY <2>1, <2>2, <2>3, <2>11, <2>12, <2>14 DEF SentInv
  <2>17. p \in Pairs /\ Uses(p, n)
    BY SlotFacts
  <2>18. c \in COs /\ ThreadOf[c] = t
    <3>1. n \in DOMAIN Program[t]
      BY <2>1, <2>10, CallBounds
    <3> QED
      BY <3>1, <2>13, CallTypes DEF Obj
  <2>19. recv_memory[c][p].field_infos = RecvInfos(p, n)
    BY <2>1, <2>15, <2>17, <2>18, OpenReceive
  <2>20. [l \in DOMAIN Expected(p, n) |-> Expected(p, n)[l].of[1]] = RecvInfos(p, n)
    <3>1. PICK infos \in Seq(Fields) : infos = RecvInfos(p, n) /\ DOMAIN Expected(p, n) = DOMAIN infos
      BY <2>17, ExpectedTypes
    <3>2. \A l \in DOMAIN infos : Expected(p, n)[l].of[1] = infos[l]
      BY <3>1 DEF Expected, Content
    <3>3. infos = [l \in DOMAIN infos |-> infos[l]]
      BY <3>1
    <3> QED
      BY <3>1, <3>2, <3>3
  <2>21. to[1] = c /\ to[2] = p /\ message.from[2] = p /\ message.data = Expected(p, n)
    BY <2>15, <2>16
  <2> QED
    BY <2>19, <2>20, <2>21
<1> QED
  BY <1>1, CommInvariant, PTL

\* An instance whose exchange is over has in each of its halos what the
\* neighbour packed in its exchange of the same number
\* (communication_object_2.hpp:526-551).
THEOREM HaloStaysFresh ==
  ASSUME ProgramsFit
  PROVE  Spec => []HaloFresh
<1>1. CommInv => HaloFresh
  <2> SUFFICES ASSUME CommInv, NEW i \in Instances, completed[i] = started[i],
                      NEW p \in HalosOf[PatternOf[i[1]]], p[1] = i[2]
               PROVE  halo[i[1]][p] = Content(<<i[1], p[2]>>, completed[i])
    BY DEF HaloFresh
  <2>1. TypeOK /\ ControlInv /\ OpenInv /\ MemoryInv /\ HistoryInv /\ HaloInv
    BY DEF CommInv
  <2>2. PICK f \in Fields : f = i[1] /\ i = <<f, p[1]>>
    BY InstanceTypes
  <2>3. p \in Pairs /\ Receiver(p) \in Threads
    BY <2>2, HalosArePairs, PairTypes
  <2>4. ~Waits(f, p)
    <3>1. SUFFICES ASSUME NEW c \in COs, <<c, p>> \in m_recv_futures,
                          f \in Range(recv_memory[c][p].field_infos)
                   PROVE  FALSE
      BY DEF Waits
    <3>2. PICK n \in DOMAIN Program[Receiver(p)] :
            /\ IsLast(Receiver(p), c, n) /\ i \in Range(Args(Receiver(p), n))
            /\ ThreadOf[c] = Receiver(p) /\ c \in m_valid
      BY <2>1, <2>2, <2>3, <3>1, OpenInstances
    <3>3. n \in Nat
      BY <2>1, <2>3, <3>2, LastIsUnique
    <3>4. completed[i] < started[i]
      BY <3>2, <3>3, <2>1 DEF HistoryInv
    <3>5. started[i] \in Nat
      BY <2>1 DEF TypeOK
    <3> QED
      BY <3>4, <3>5
  <2> QED
    BY <2>1, <2>2, <2>4 DEF HaloInv
<1> QED
  BY <1>1, CommInvariant, PTL

----------------------------------------------------------------------------
(***************************************************************************)
(* The steps as steps of HaloExchange.                                     *)
(***************************************************************************)

AllLinks == {l \in Fields \X Pairs : l[2] \in HalosOf[PatternOf[l[1]]]}
Filled == [l \in AllLinks |-> halo[l[1]][l[2]].round]
Source == [l \in Fields \X Pairs |-> <<l[1], l[2][2]>>]
Target == [l \in Fields \X Pairs |-> <<l[1], l[2][1]>>]

LEMMA LinkTypes ==
  ASSUME NEW l \in AllLinks
  PROVE  \E f \in Fields : \E p \in HalosOf[PatternOf[f]] :
           /\ l = <<f, p>> /\ l[1] = f /\ l[2] = p /\ p \in Pairs
           /\ Source[l] = <<f, p[2]>> /\ Target[l] = <<f, p[1]>>
           /\ Filled[l] = halo[f][p].round
<1>1. PICK f \in Fields, p \in Pairs : l = <<f, p>>
  BY DEF AllLinks
<1>2. l[1] = f /\ l[2] = p /\ p \in HalosOf[PatternOf[f]]
  BY <1>1 DEF AllLinks
<1>3. Source[l] = <<f, p[2]>> /\ Target[l] = <<f, p[1]>> /\ Filled[l] = halo[f][p].round
  BY <1>1, <1>2 DEF Source, Target, Filled
<1> QED
  BY <1>1, <1>2, <1>3

\* A count does not exceed the calls.
LEMMA CountBounded ==
  ASSUME NEW S, NEW n \in Nat
  PROVE  Count(S, n) <= n
<1>1. IsFiniteSet(1 .. n) /\ Cardinality(1 .. n) = n
  BY FS_Interval
<1>2. S \cap (1 .. n) \subseteq 1 .. n
  OBVIOUS
<1> QED
  BY <1>1, <1>2, FS_Subset DEF Count

LEMMA ExchangeStarts ==
  ASSUME ProgramsFit, CommInv, NEW t \in Threads, Exchange(t)
  PROVE  H!Next
<1>1. TypeOK /\ ControlInv /\ MemoryInv /\ OpenInv /\ HistoryInv
  BY DEF CommInv
<1>2. PICK n, c, args :
           /\ n = call[t] + 1 /\ call[t] < Len(Program[t])
           /\ c = Obj(t, n) /\ args = Args(t, n) /\ c \notin m_valid
           /\ started' = [i \in Instances |-> IF i \in Range(args) THEN started[i] + 1
                                                                   ELSE started[i]]
           /\ UNCHANGED <<halo, completed>>
  BY DEF Exchange, Obj, Args
<1>3. call[t] \in Nat /\ n \in DOMAIN Program[t] /\ Len(Program[t]) \in Nat
      /\ Len(Program[t]) <= MaxCalls /\ MaxCalls \in Nat
  BY <1>1, <1>2, CallBounds, CallTypes, TypeAssumption DEF TypeAssumption
<1>4. PICK C : C = Range(args)
  OBVIOUS
<1>5. ASSUME NEW i \in C
      PROVE  i \in Instances /\ completed[i] = started[i] /\ started[i] < MaxCalls
  <2>1. i \in Instances /\ OwnerOf[i[2]] = t
    BY <1>2, <1>3, <1>4, ArgsAreOwned
  <2>2. completed[i] = started[i]
    <3>1. SUFFICES ASSUME completed[i] # started[i] PROVE FALSE
      OBVIOUS
    <3>2. PICK d \in m_valid, m \in Nat : IsLast(ThreadOf[d], d, m) /\ i \in Range(Args(ThreadOf[d], m))
      BY <2>1, <3>1, <1>1 DEF HistoryInv
    <3>3. d \in COs /\ d # c
      BY <1>1, <1>2 DEF TypeOK
    <3>4. /\ ThreadOf[d] \in Threads /\ m \in DOMAIN Program[ThreadOf[d]]
          /\ d = Obj(ThreadOf[d], m)
      BY <3>2, <3>3, <1>1, ValidObject
    <3>5. ThreadOf[d] = t
      BY <2>1, <3>2, <3>4, ArgsAreOwned
    <3> QED
      BY <3>2, <3>3, <3>4, <3>5, <1>2, <1>3, <1>4, SameObject
  <2>3. started[i] <= call[t]
    <3>1. started[i] = Round(i, call[t])
      BY <2>1, <1>1 DEF HistoryInv
    <3>2. Round(i, call[t]) <= call[t]
      BY <1>3, CountBounded DEF Round
    <3> QED
      BY <3>1, <3>2
  <2>4. started[i] \in Nat
    BY <2>1, <1>1 DEF TypeOK
  <2> QED
    BY <2>1, <2>2, <2>3, <2>4, <1>2, <1>3
<1>6. started' = [i \in Instances |-> IF i \in C THEN started[i] + 1 ELSE started[i]]
  BY <1>2, <1>4
<1>7. H!Start(C)
  BY <1>2, <1>5, <1>6 DEF H!Start
<1>8. C \in SUBSET Instances
  BY <1>5
<1> QED
  BY <1>7, <1>8 DEF H!Next

LEMMA UnpackDelivers ==
  ASSUME ProgramsFit, CommInv, NEW t \in Threads, NEW p \in Pairs, Unpack(t, p)
  PROVE  H!Next
<1>1. TypeOK /\ ControlInv /\ MemoryInv /\ OpenInv /\ HistoryInv /\ HaloInv
      /\ CountInv /\ PostedInv /\ SentInv /\ ReceivedInv
  BY DEF CommInv
<1>2. PICK n, c, infos :
           /\ c = current[t] /\ c \in COs /\ c \in m_valid /\ t = ThreadOf[c]
           /\ n \in Nat /\ IsLast(t, c, n) /\ Receiver(p) = t /\ Uses(p, n)
           /\ <<c, p>> \in m_recv_futures
           /\ infos = RecvInfos(p, n) /\ infos = recv_memory[c][p].field_infos
           /\ Pos(RecvChannel(p, n), n) <= Matched(RecvChannel(p, n))
           /\ \A f \in Range(infos) :
                /\ f \in Fields /\ p \in HalosOf[PatternOf[f]]
                /\ <<f, p[1]>> \in Range(Args(t, n)) /\ <<f, p[1]>> \in Instances
                /\ started[<<f, p[1]>>] = Round(<<f, p[1]>>, n)
                /\ halo'[f] = [halo[f] EXCEPT ![p] = Content(<<f, p[2]>>, started[<<f, p[1]>>])]
           /\ \A f \in Fields : f \notin Range(infos) => halo'[f] = halo[f]
           /\ m_recv_futures' = m_recv_futures \ {<<c, p>>}
           /\ UNCHANGED <<pc, call, current, todo, m_valid, buffers, m_send_futures, mpi, history>>
  BY <1>1, UnpackStep
<1>3. started' = started /\ completed' = completed
  BY <1>2 DEF history
<1>4. PICK L : L = {<<f, p>> : f \in Range(infos)}
  OBVIOUS
<1>5. PICK k \in Channels : k = RecvChannel(p, n) /\ p \in Slot(k, n) /\ SenderOf(k) = Sender(p)
                             /\ Sender(p) \in Threads
  BY <1>2, UsedChannel
<1>6. n \in 0 .. call[Sender(p)] /\ call[Sender(p)] \in Nat
  <2>1. SentCall(k) \in Nat /\ call[Sender(p)] \in Nat /\ SentCall(k) <= call[Sender(p)]
    BY <1>1, <1>5, SentBounds
  <2>2. n <= SentCall(k)
    <3>1. SUFFICES ASSUME SentCall(k) < n PROVE FALSE
      BY <2>1, <1>2
    <3>2. n \in CallsOn(k)
      BY <1>5, SlotFacts
    <3>3. Pos(k, SentCall(k)) < Pos(k, n) /\ Pos(k, n) \in Nat /\ Pos(k, SentCall(k)) \in Nat
      BY <3>1, <3>2, <2>1, <1>2, PosFacts
    <3>4. Matched(k) \in Nat /\ Pos(k, SentCall(k)) = Matched(k) + Len(chan[k]) /\ Len(chan[k]) \in Nat
      BY <1>1 DEF CountInv, TypeOK
    <3>5. Pos(k, n) <= Matched(k)
      BY <1>2, <1>5
    <3> QED
      BY <3>3, <3>4, <3>5
  <2> QED
    BY <2>1, <2>2, <1>2
<1>7. ASSUME NEW f \in Range(infos)
      PROVE  /\ f \in Fields /\ p \in HalosOf[PatternOf[f]]
             /\ halo[f][p].round < started[<<f, p[1]>>]
             /\ halo[f][p].round < started[<<f, p[2]>>]
             /\ halo'[f][p].round = halo[f][p].round + 1
  <2>1. f \in Fields /\ p \in HalosOf[PatternOf[f]]
    BY <1>2
  <2>2. PICK r : r = halo[f][p].round
    OBVIOUS
  <2>3. halo[f] \in [HalosOf[PatternOf[f]] -> Data] /\ r \in Nat
    BY <2>1, <2>2, <1>1 DEF TypeOK, Data
  <2>4. r + 1 = started[<<f, p[1]>>]
    <3>1. Waits(f, p)
      BY <1>2 DEF Waits
    <3> QED
      BY <3>1, <2>1, <2>2, <1>1 DEF HaloInv
  <2>5. r + 1 <= started[<<f, p[2]>>]
    <3>1. started[<<f, p[1]>>] = Round(<<f, p[2]>>, n)
      BY <2>1, <1>2, RoundsAgree
    <3>2. PICK i \in Instances : i = <<f, p[2]>>
      BY <2>1, HalosArePairs
    <3>3. started[i] = Round(i, call[Sender(p)])
      BY <3>2, <1>1 DEF HistoryInv, Sender
    <3>4. Round(i, n) <= Round(i, call[Sender(p)])
      BY <1>6, CountMonotone DEF Round
    <3> QED
      BY <2>4, <3>1, <3>2, <3>3, <3>4
  <2>6. halo'[f][p].round = started[<<f, p[1]>>]
    <3>1. halo'[f] = [halo[f] EXCEPT ![p] = Content(<<f, p[2]>>, started[<<f, p[1]>>])]
      BY <1>2
    <3>2. halo'[f][p] = Content(<<f, p[2]>>, started[<<f, p[1]>>])
      BY <3>1, <2>1, <2>3
    <3> QED
      BY <3>2 DEF Content
  <2>7. started[<<f, p[1]>>] \in Nat /\ started[<<f, p[2]>>] \in Nat
    BY <2>1, <1>1, HalosArePairs DEF TypeOK
  <2> QED
    BY <2>1, <2>2, <2>3, <2>4, <2>5, <2>6, <2>7
<1>8. ASSUME NEW l \in L
      PROVE  l \in AllLinks /\ Filled[l] < started[Source[l]] /\ Filled[l] < started[Target[l]]
  <2>1. PICK f \in Range(infos) : l = <<f, p>>
    BY <1>4
  <2>2. l \in AllLinks
    BY <2>1, <1>7 DEF AllLinks
  <2>3. Source[l] = <<f, p[2]>> /\ Target[l] = <<f, p[1]>> /\ Filled[l] = halo[f][p].round
    BY <2>1, <2>2, LinkTypes
  <2> QED
    BY <2>2, <2>3, <1>7
<1>9. Filled' = [l \in AllLinks |-> IF l \in L THEN Filled[l] + 1 ELSE Filled[l]]
  <2>1. ASSUME NEW l \in AllLinks
        PROVE  halo'[l[1]][l[2]].round = IF l \in L THEN Filled[l] + 1 ELSE Filled[l]
    <3>1. PICK f \in Fields, r \in Pairs : /\ l = <<f, r>> /\ l[1] = f /\ l[2] = r
                                           /\ r \in HalosOf[PatternOf[f]]
                                           /\ Filled[l] = halo[f][r].round
      BY LinkTypes
    <3>2. l \in L <=> r = p /\ f \in Range(infos)
      BY <3>1, <1>4
    <3>3. CASE r = p /\ f \in Range(infos)
      BY <3>1, <3>2, <3>3, <1>7
    <3>4. CASE ~(r = p /\ f \in Range(infos))
      <4>1. halo'[f][r] = halo[f][r]
        <5>1. halo[f] \in [HalosOf[PatternOf[f]] -> Data]
          BY <1>1 DEF TypeOK
        <5>2. CASE f \notin Range(infos)
          BY <5>2, <1>2
        <5>3. CASE f \in Range(infos) /\ r # p
          <6>1. halo'[f] = [halo[f] EXCEPT ![p] = Content(<<f, p[2]>>, started[<<f, p[1]>>])]
            BY <5>3, <1>2
          <6> QED
            BY <5>1, <5>3, <6>1, <3>1
        <5> QED
          BY <5>2, <5>3, <3>4
      <4> QED
        BY <4>1, <3>1, <3>2, <3>4
    <3> QED
      BY <3>3, <3>4
  <2> QED
    BY <2>1 DEF Filled
<1>10. H!Deliver(L)
  BY <1>3, <1>8, <1>9 DEF H!Deliver, Filled, Source, Target, AllLinks
<1>11. L \in SUBSET AllLinks
  BY <1>8
<1> QED
  BY <1>10, <1>11 DEF H!Next, AllLinks

LEMMA WaitCompletes ==
  ASSUME ProgramsFit, CommInv, NEW t \in Threads, WaitReturns(t)
  PROVE  H!Next
<1>1. TypeOK /\ ControlInv /\ MemoryInv /\ OpenInv /\ HistoryInv /\ HaloInv
  BY DEF CommInv
<1>2. PICK c \in COs : c = current[t]
  BY <1>1 DEF TypeOK
<1>3. c \in m_valid /\ ThreadOf[c] = t
  BY <1>1, <1>2 DEF WaitReturns, ControlInv
<1>4. PICK n \in Nat : IsLast(t, c, n)
  BY <1>1, <1>3 DEF OpenInv
<1>5. n \in DOMAIN Program[t] /\ c = Obj(t, n) /\ LastCall(t, c) = n
  BY <1>1, <1>3, <1>4, ValidObject, LastIsUnique
<1>6. PICK C : C = Range(Args(t, n))
  OBVIOUS
<1>7. /\ completed' = [i \in Instances |-> IF i \in C THEN started[i] ELSE completed[i]]
      /\ started' = started /\ halo' = halo
      /\ \A p \in Pairs : <<c, p>> \notin m_recv_futures
  BY <1>2, <1>5, <1>6 DEF WaitReturns, Args
<1>8. ASSUME NEW i \in C PROVE i \in Instances /\ OwnerOf[i[2]] = t /\ completed[i] < started[i]
  <2>1. i \in Instances /\ OwnerOf[i[2]] = t
    BY <1>5, <1>6, ArgsAreOwned
  <2> QED
    BY <2>1, <1>1, <1>3, <1>4, <1>6 DEF HistoryInv
<1>9. ASSUME NEW l \in AllLinks, Target[l] \in C PROVE Filled[l] = started[Target[l]]
  <2>1. PICK f \in Fields, p \in Pairs : /\ Target[l] = <<f, p[1]>>
                                         /\ p \in HalosOf[PatternOf[f]]
                                         /\ Filled[l] = halo[f][p].round
    BY LinkTypes
  <2>2. Receiver(p) = t
    BY <2>1, <1>8, <1>9 DEF Receiver
  <2>3. ~Waits(f, p)
    <3>1. SUFFICES ASSUME NEW d \in COs, <<d, p>> \in m_recv_futures,
                          f \in Range(recv_memory[d][p].field_infos)
                   PROVE  FALSE
      BY DEF Waits
    <3>2. PICK m \in DOMAIN Program[t] : d = Obj(t, m) /\ <<f, p[1]>> \in Range(Args(t, m))
      BY <2>2, <3>1, <1>1, OpenInstances
    <3>3. d = c
      BY <2>1, <3>2, <1>5, <1>6, <1>9, SameObject
    <3> QED
      BY <3>1, <3>3, <1>7
  <2>4. halo[f][p] = Content(<<f, p[2]>>, started[<<f, p[1]>>])
    BY <2>1, <2>3, <1>1 DEF HaloInv
  <2> QED
    BY <2>1, <2>4 DEF Content
<1>10. Filled' = Filled
  BY <1>7 DEF Filled
<1>11. H!Complete(C)
  BY <1>7, <1>8, <1>9, <1>10 DEF H!Complete, Filled, Target, AllLinks
<1>12. C \in SUBSET Instances
  BY <1>8
<1> QED
  BY <1>11, <1>12 DEF H!Next

LEMMA OthersStutter ==
  ASSUME UNCHANGED <<started, completed, halo>>
  PROVE  UNCHANGED H!vars
BY DEF H!vars

\* A call of exchange starts a round of its instances, unpacking a buffer
\* fills the halos of its fields, the end of wait completes the round, and
\* nothing else is seen of the objects, their buffers and their messages:
\* they implement HaloExchange with instances as the parties
\* (communication_object_2.hpp:388-551).
THEOREM CommRefines ==
  ASSUME ProgramsFit
  PROVE  Spec => ImplementsHaloRounds
<1>1. Init => H!Init
  <2> SUFFICES ASSUME Init PROVE H!Init
    OBVIOUS
  <2>1. Filled = [l \in AllLinks |-> 0]
    <3>1. ASSUME NEW l \in AllLinks PROVE halo[l[1]][l[2]].round = 0
      <4>1. PICK f \in Fields, p \in Pairs : l[1] = f /\ l[2] = p /\ p \in HalosOf[PatternOf[f]]
        BY LinkTypes
      <4>2. halo[f][p] = Content(<<f, p[2]>>, 0)
        BY <4>1 DEF Init
      <4> QED
        BY <4>1, <4>2 DEF Content
    <3> QED
      BY <3>1 DEF Filled
  <2>2. started = [i \in Instances |-> 0] /\ completed = [i \in Instances |-> 0]
    BY DEF Init
  <2> QED
    BY <2>1, <2>2 DEF H!Init, Filled, AllLinks
<1>2. CommInv /\ [Next]_vars => [H!Next]_(H!vars)
  <2> SUFFICES ASSUME CommInv, [Next]_vars PROVE [H!Next]_(H!vars)
    OBVIOUS
  <2>1. ASSUME NEW t \in Threads, Step(t) PROVE [H!Next]_(H!vars)
    <3>1. CASE ExchangeReturns(t) \/ (\E c \in COs : WaitStart(t, c)) \/ \E p \in Pairs : Pack(t, p)
      <4>1. UNCHANGED <<started, completed, halo>>
        BY <3>1 DEF ExchangeReturns, WaitStart, Pack, history
      <4> QED
        BY <4>1, OthersStutter
    <3>2. CASE WaitReturns(t)
      BY <3>2, WaitCompletes
    <3>3. ASSUME NEW p \in Pairs, Unpack(t, p) PROVE [H!Next]_(H!vars)
      BY <3>3, UnpackDelivers
    <3>4. CASE Exchange(t)
      BY <3>4, ExchangeStarts
    <3> QED
      BY <2>1, <3>1, <3>2, <3>3, <3>4 DEF Step
  <2>2. CASE UNCHANGED vars \/ Finished \/ (\E k \in Channels : Match(k))
               \/ \E c \in COs, p \in Pairs : SendBuffered(c, p)
    <3>1. UNCHANGED <<started, completed, halo>>
      BY <2>2 DEF vars, Finished, Match, SendBuffered, history
    <3> QED
      BY <3>1, OthersStutter
  <2> QED
    BY <2>1, <2>2 DEF Next
<1> QED
  BY <1>1, <1>2, CommInvariant, PTL DEF Spec, ImplementsHaloRounds
=============================================================================
