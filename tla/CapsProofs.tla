----------------------------- MODULE CapsProofs -----------------------------
(***************************************************************************)
(* The Cap behind its two doors, for any number of clients, messages and   *)
(* requests, any budget and any weights.  First what a sum over a finite   *)
(* set of calls is, by induction on the size of the set; then the accounts,*)
(* which the steps that acquire and release keep; then what a refusal      *)
(* tells; last the status of an MCP call.                                  *)
(***************************************************************************)
EXTENDS Caps, FiniteSetTheorems, WellFoundedInduction, TLAPS

-----------------------------------------------------------------------------
(* Sums over finite sets.                                                  *)

\* The tool of the inductions below: a set of naturals has a least element.
LEMMA LeastNat ==
    ASSUME NEW T \in SUBSET Nat, T # {}
    PROVE  \E n \in T : \A m \in T : n <= m
<1> DEFINE R == OpToRel(<, Nat)
<1>1. \E x \in T : \A y \in T : ~(<<y, x>> \in R)
  BY WFMin, NatLessThanWellFounded
<1>2. \A x, y \in Nat : y < x => <<y, x>> \in R
  BY DEF OpToRel
<1> HIDE DEF R
<1>3. \A x, y \in T : <<y, x>> \notin R => x <= y
  BY <1>2
<1> QED BY <1>1, <1>3

First(s) == CHOOSE x \in s : TRUE
Round(f, g, s) == IF s = {} THEN 0 ELSE f[First(s)].weight + g[s \ {First(s)}]
Solution(f, C, g) == g = [s \in SUBSET C |-> Round(f, g, s)]

LEMMA SolutionRounds ==
    ASSUME NEW f, NEW C, NEW g, Solution(f, C, g), NEW s \in SUBSET C
    PROVE  g[s] = Round(f, g, s)
BY DEF Solution

\* Induction on the size of a set: if every set whose smaller subsets are in the
\* family is in it, so is the whole.
LEMMA SetInduction ==
    ASSUME NEW C, IsFiniteSet(C), NEW F \in SUBSET SUBSET C,
           \A s \in SUBSET C : (\A t \in SUBSET s : t # s => t \in F) => s \in F
    PROVE  F = SUBSET C
<1> SUFFICES ASSUME (SUBSET C) \ F # {} PROVE FALSE
  OBVIOUS
<1> DEFINE T == {Cardinality(s) : s \in (SUBSET C) \ F}
<1>1. \A s \in SUBSET C : IsFiniteSet(s) /\ Cardinality(s) \in Nat
  BY FS_Subset, FS_CardinalityType
<1>2. T \in SUBSET Nat /\ T # {}
  BY <1>1
<1>3. PICK s \in (SUBSET C) \ F : \A m \in T : Cardinality(s) <= m
  <2> HIDE DEF T
  <2>1. PICK n \in T : \A m \in T : n <= m
    BY <1>2, LeastNat
  <2> QED BY <2>1 DEF T
<1>4. PICK t \in SUBSET s : t # s /\ t \notin F
  <2> HIDE DEF T
  <2>1. s \in SUBSET C /\ s \notin F
    OBVIOUS
  <2> QED BY <2>1
<1>5. Cardinality(t) < Cardinality(s)
  BY <1>1, <1>4, FS_Subset
<1> QED BY <1>1, <1>3, <1>4, <1>5

Weighed(f, C) == \A c \in C : f[c].weight \in Nat

\* What the fold computes: the recursion has a solution, and the sum is its value.
LEMMA FoldExists ==
    ASSUME NEW f, NEW C, IsFiniteSet(C)
    PROVE  \E g : Solution(f, C, g)
<1> DEFINE Solves(g, n) == g = [s \in SUBSET C |-> g[s]]
                           /\ \A s \in SUBSET C : Cardinality(s) < n => g[s] = Round(f, g, s)
           T == {n \in Nat : ~\E g : Solves(g, n)}
<1>1. \A s \in SUBSET C : IsFiniteSet(s) /\ Cardinality(s) \in Nat
  BY FS_Subset, FS_CardinalityType
<1>2. \E g : Solves(g, 0)
  <2>1. Solves([s \in SUBSET C |-> 0], 0)
    BY <1>1
  <2> QED BY <2>1
<1>3. ASSUME NEW n \in Nat, NEW g, Solves(g, n) PROVE \E h : Solves(h, n + 1)
  <2> DEFINE h == [s \in SUBSET C |-> Round(f, g, s)]
  <2>1. \A s \in SUBSET C : Cardinality(s) < n => h[s] = g[s]
    BY <1>3
  <2>2. ASSUME NEW s \in SUBSET C, Cardinality(s) < n + 1 PROVE h[s] = Round(f, h, s)
    <3>1. CASE s = {}
      BY <3>1 DEF Round
    <3>2. CASE s # {}
      <4>1. First(s) \in s
        BY <3>2 DEF First
      <4>2. s \ {First(s)} \in SUBSET C /\ Cardinality(s \ {First(s)}) < n
        BY <1>1, <2>2, <4>1, FS_RemoveElement
      <4>3. h[s \ {First(s)}] = g[s \ {First(s)}]
        BY <2>1, <4>2
      <4> QED BY <3>2, <4>3 DEF Round
    <3> QED BY <3>1, <3>2
  <2>3. Solves(h, n + 1)
    BY <2>2
  <2> QED BY <2>3
<1>4. T = {}
  <2> SUFFICES ASSUME T # {} PROVE FALSE
    OBVIOUS
  <2> HIDE DEF Solves
  <2>1. PICK n \in T : \A m \in T : n <= m
    BY LeastNat
  <2>2. n # 0 /\ n - 1 \in Nat /\ n - 1 \notin T
    BY <1>2, <2>1
  <2>3. \E g : Solves(g, n - 1)
    BY <2>2
  <2>4. \E h : Solves(h, n - 1 + 1)
    BY <1>3, <2>2, <2>3
  <2>5. n - 1 + 1 = n
    BY <2>1
  <2> QED BY <2>1, <2>4, <2>5
<1>5. PICK g : Solves(g, Cardinality(C) + 1)
  <2> HIDE DEF Solves
  <2>1. Cardinality(C) + 1 \in Nat
    BY <1>1
  <2> QED BY <1>4, <2>1
<1>6. \A s \in SUBSET C : Cardinality(s) < Cardinality(C) + 1
  BY <1>1, FS_Subset
<1>7. \A s \in SUBSET C : g[s] = Round(f, g, s)
  BY <1>5, <1>6
<1>8. Solution(f, C, g)
  BY <1>5, <1>7 DEF Solution
<1> QED BY <1>8

LEMMA Unfolded ==
    ASSUME NEW f, NEW C, IsFiniteSet(C)
    PROVE  \E g : Solution(f, C, g) /\ Web!WeightOf(f, C) = g[C]
<1>1. Web!WeightOf(f, C) = (CHOOSE g : Solution(f, C, g))[C]
  BY DEF Web!WeightOf, Web!MapThenSumSet, Web!MapThenFoldSet, Solution, Round, First
<1>2. \E g : Solution(f, C, g)
  BY FoldExists
<1> QED BY <1>1, <1>2

\* Whatever solves the recursion is a sum of naturals, which may be taken in any order.
LEMMA SolutionAdds ==
    ASSUME NEW f, NEW C, IsFiniteSet(C), Weighed(f, C),
           NEW g, Solution(f, C, g)
    PROVE  \A s \in SUBSET C : g[s] \in Nat /\ \A x \in s : g[s] = f[x].weight + g[s \ {x}]
<1> DEFINE F == {s \in SUBSET C : g[s] \in Nat /\ \A x \in s : g[s] = f[x].weight + g[s \ {x}]}
<1>1. ASSUME NEW s \in SUBSET C, \A t \in SUBSET s : t # s => t \in F PROVE s \in F
  <2>1. CASE s = {}
    <3>1. g[s] = 0
      BY <2>1, SolutionRounds DEF Round
    <3> QED BY <2>1, <3>1
  <2>2. CASE s # {}
    <3> DEFINE c == First(s)
    <3>1. c \in s
      BY <2>2 DEF First
    <3>2. g[s] = f[c].weight + g[s \ {c}]
      BY <2>2, SolutionRounds DEF Round
    <3> HIDE DEF c
    <3>3. s \ {c} \in F
      BY <1>1, <3>1
    <3>4. g[s] \in Nat
      BY <3>1, <3>2, <3>3 DEF Weighed
    <3>5. ASSUME NEW x \in s, x # c PROVE g[s] = f[x].weight + g[s \ {x}]
      <4>1. s \ {x} \in F /\ c \in s \ {x} /\ x \in s \ {c}
        BY <1>1, <3>1, <3>5
      <4>2. g[s \ {x}] = f[c].weight + g[(s \ {x}) \ {c}] /\ g[s \ {c}] = f[x].weight + g[(s \ {c}) \ {x}]
        BY <3>3, <4>1
      <4>3. (s \ {x}) \ {c} = (s \ {c}) \ {x}
        OBVIOUS
      <4>4. (s \ {c}) \ {x} \in F
        BY <1>1, <3>1
      <4>5. f[x].weight \in Nat /\ f[c].weight \in Nat /\ g[(s \ {c}) \ {x}] \in Nat
        BY <3>1, <4>4 DEF Weighed
      <4> DEFINE rest == g[(s \ {c}) \ {x}]
                 fx == f[x].weight
                 fc == f[c].weight
      <4>6. g[s \ {x}] = fc + rest /\ g[s] = fc + (fx + rest) /\ fx \in Nat /\ fc \in Nat /\ rest \in Nat
        BY <3>2, <4>2, <4>3, <4>5
      <4> HIDE DEF rest, fx, fc
      <4>7. g[s] = fx + g[s \ {x}]
        BY <4>6
      <4> QED BY <4>7 DEF fx
    <3> QED BY <3>2, <3>4, <3>5
  <2> QED BY <2>1, <2>2
<1>2. F = SUBSET C
  <2> HIDE DEF F
  <2>1. F \in SUBSET SUBSET C
    BY DEF F
  <2> QED BY <1>1, <2>1, SetInduction
<1> QED BY <1>2

\* Two solutions agree where the weights do.
LEMMA SolutionsAgree ==
    ASSUME NEW f, NEW h, NEW C, NEW D, D \subseteq C, IsFiniteSet(C),
           \A c \in D : f[c].weight = h[c].weight,
           NEW g, Solution(f, C, g),
           NEW k, Solution(h, D, k)
    PROVE  g[D] = k[D]
<1> DEFINE F == {s \in SUBSET D : g[s] = k[s]}
<1>0. \A s \in SUBSET D : g[s] = Round(f, g, s) /\ k[s] = Round(h, k, s)
  BY SolutionRounds
<1>1. ASSUME NEW s \in SUBSET D, \A t \in SUBSET s : t # s => t \in F PROVE s \in F
  <2>1. CASE s = {}
    BY <1>0, <2>1 DEF Round
  <2>2. CASE s # {}
    <3>1. First(s) \in s
      BY <2>2 DEF First
    <3>2. g[s \ {First(s)}] = k[s \ {First(s)}] /\ f[First(s)].weight = h[First(s)].weight
      BY <1>1, <3>1
    <3>3. g[s] = k[s]
      BY <1>0, <2>2, <3>2 DEF Round
    <3> QED BY <3>3
  <2> QED BY <2>1, <2>2
<1>2. F = SUBSET D
  <2> HIDE DEF F
  <2>1. F \in SUBSET SUBSET D /\ IsFiniteSet(D)
    BY FS_Subset DEF F
  <2> QED BY <1>1, <2>1, SetInduction
<1> QED BY <1>2

-----------------------------------------------------------------------------
LEMMA NoWeight ==
    ASSUME NEW f
    PROVE  Web!WeightOf(f, {}) = 0
<1>1. IsFiniteSet({})
  BY FS_EmptySet
<1>2. PICK g : Solution(f, {}, g) /\ Web!WeightOf(f, {}) = g[{}]
  BY <1>1, Unfolded
<1> QED BY <1>2, SolutionRounds DEF Round

LEMMA WeightIsNat ==
    ASSUME NEW f, NEW C, IsFiniteSet(C), Weighed(f, C)
    PROVE  Web!WeightOf(f, C) \in Nat
<1>1. PICK g : Solution(f, C, g) /\ Web!WeightOf(f, C) = g[C]
  BY Unfolded
<1> QED BY <1>1, SolutionAdds

LEMMA SameWeights ==
    ASSUME NEW f, NEW h, NEW C, IsFiniteSet(C), \A c \in C : f[c].weight = h[c].weight
    PROVE  Web!WeightOf(f, C) = Web!WeightOf(h, C)
<1>1. PICK g : Solution(f, C, g) /\ Web!WeightOf(f, C) = g[C]
  BY Unfolded
<1>2. PICK k : Solution(h, C, k) /\ Web!WeightOf(h, C) = k[C]
  BY Unfolded
<1> QED BY <1>1, <1>2, SolutionsAgree

\* One call's weight apart from the others'.
LEMMA WeightSplit ==
    ASSUME NEW f, NEW C, IsFiniteSet(C), Weighed(f, C), NEW x \in C
    PROVE  Web!WeightOf(f, C) = f[x].weight + Web!WeightOf(f, C \ {x})
<1>1. PICK g : Solution(f, C, g) /\ Web!WeightOf(f, C) = g[C]
  BY Unfolded
<1>2. IsFiniteSet(C \ {x})
  BY FS_Subset
<1>3. PICK k : Solution(f, C \ {x}, k) /\ Web!WeightOf(f, C \ {x}) = k[C \ {x}]
  BY <1>2, Unfolded
<1>4. g[C \ {x}] = k[C \ {x}]
  BY <1>1, <1>3, SolutionsAgree
<1>5. g[C] = f[x].weight + g[C \ {x}]
  BY <1>1, SolutionAdds
<1> QED BY <1>1, <1>3, <1>4, <1>5

-----------------------------------------------------------------------------
(* What is in flight.                                                      *)

Flight == [at : {"running", "refused"}, client : Clients, weight : 1..Capacity]
RequestsTyped == request \in [Requests -> Flight \cup {Web!Idle}]
CapTyped == held \in [Clients -> Nat] /\ inUse \in Nat

ShareAndCap == Share \in Nat /\ Share >= 1 /\ Capacity \in Nat

LEMMA ShareIsPositive == ShareAndCap
<1>1. Capacity \in Nat
  BY CapAssumption
<1>2. Capacity \div 4 \in Nat
  BY <1>1
<1> QED BY <1>1, <1>2 DEF ShareAndCap, Share

\* A request that is running holds between one unit and all of them.
LEMMA RunningHolds ==
    ASSUME RequestsTyped, NEW r \in Requests, request[r].at = "running"
    PROVE  request[r].client \in Clients /\ request[r].weight \in 1..Capacity
<1>1. request[r] # Web!Idle
  BY DEF Web!Idle
<1> QED BY <1>1 DEF RequestsTyped, Flight

\* Requests weigh a natural number, and nothing only if there is none.
LEMMA WeightFacts ==
    ASSUME RequestsTyped, NEW S \in SUBSET Running
    PROVE  /\ IsFiniteSet(S) /\ Cardinality(S) \in Nat /\ Weighed(request, S)
           /\ Web!WeightOf(request, S) \in Nat
           /\ Web!WeightOf(request, S) = 0 <=> S = {}
           /\ Cardinality(S) = 0 <=> S = {}
<1>1. S \subseteq Requests
  BY DEF Running, Web!Running
<1>2. IsFiniteSet(S) /\ Cardinality(S) \in Nat /\ (Cardinality(S) = 0 <=> S = {})
  BY <1>1, CapsAssumption, FS_Subset, FS_CardinalityType, FS_EmptySet
<1>3. \A r \in S : request[r].weight \in 1..Capacity
  BY RunningHolds DEF Running, Web!Running
<1>4. Weighed(request, S)
  BY <1>3, CapAssumption DEF Weighed
<1>5. Web!WeightOf(request, S) \in Nat
  BY <1>2, <1>4, WeightIsNat
<1>6. S = {} => Web!WeightOf(request, S) = 0
  BY NoWeight
<1>7. ASSUME NEW r \in S PROVE Web!WeightOf(request, S) # 0
  <2>1. Web!WeightOf(request, S) = request[r].weight + Web!WeightOf(request, S \ {r})
    BY <1>2, <1>4, WeightSplit
  <2>2. Web!WeightOf(request, S \ {r}) \in Nat
    <3>1. IsFiniteSet(S \ {r}) /\ Weighed(request, S \ {r})
      BY <1>2, <1>4, FS_Subset DEF Weighed
    <3> QED BY <3>1, WeightIsNat
  <2> QED BY <1>3, <2>1, <2>2
<1> QED BY <1>2, <1>4, <1>5, <1>6, <1>7

\* One more request.
LEMMA OneMore ==
    ASSUME NEW f, NEW S, IsFiniteSet(S), Weighed(f, S), NEW r, r \notin S, f[r].weight \in Nat
    PROVE  /\ Web!WeightOf(f, S \cup {r}) = Web!WeightOf(f, S) + f[r].weight
           /\ Cardinality(S \cup {r}) = Cardinality(S) + 1
<1>1. IsFiniteSet(S \cup {r}) /\ Cardinality(S \cup {r}) = Cardinality(S) + 1
  BY FS_AddElement
<1>2. Weighed(f, S \cup {r})
  BY DEF Weighed
<1>3. Web!WeightOf(f, S \cup {r}) = f[r].weight + Web!WeightOf(f, (S \cup {r}) \ {r})
  BY <1>1, <1>2, WeightSplit
<1>4. (S \cup {r}) \ {r} = S
  OBVIOUS
<1>5. Web!WeightOf(f, S) \in Nat
  BY WeightIsNat
<1>6. Web!WeightOf(f, S \cup {r}) = f[r].weight + Web!WeightOf(f, S)
  BY <1>3, <1>4
<1>7. f[r].weight + Web!WeightOf(f, S) = Web!WeightOf(f, S) + f[r].weight
  BY <1>5
<1> QED BY <1>1, <1>6, <1>7

\* The slots of MCP calls are finite in number.
LEMMA SlotsFinite ==
    /\ IsFiniteSet(Slots) /\ Cardinality(Slots) \in Nat
    /\ \A k \in Clients : IsFiniteSet(SlotsOf(k)) /\ Cardinality(SlotsOf(k)) \in Nat
<1>1. Slots \subseteq Calls /\ \A k \in Clients : SlotsOf(k) \subseteq Calls
  BY DEF Slots, SlotsOf
<1>2. IsFiniteSet(Slots) /\ \A k \in Clients : IsFiniteSet(SlotsOf(k))
  BY <1>1, CallsAssumption, FS_Subset
<1> QED BY <1>2, FS_CardinalityType

\* In all.
Total == Web!Weight(Running) + Cardinality(Slots)

\* The sums are natural numbers, and a client holds nothing only if it has no call.
LEMMA SumFacts ==
    ASSUME RequestsTyped
    PROVE  /\ Total \in Nat
           /\ \A k \in Clients : /\ HeldBy(k) \in Nat /\ CallsOf(k) \in Nat
                                 /\ HeldBy(k) = 0 <=> CallsOf(k) = 0
<1>1. \A k \in Clients : RunningOf(k) \in SUBSET Running
  BY DEF RunningOf, Web!RunningOf, Running
<1>2. Running \in SUBSET Running
  OBVIOUS
<1>3. Total \in Nat
  BY <1>2, WeightFacts, SlotsFinite DEF Total, Web!Weight
<1>4. ASSUME NEW k \in Clients
      PROVE  /\ HeldBy(k) \in Nat /\ CallsOf(k) \in Nat
             /\ HeldBy(k) = 0 <=> CallsOf(k) = 0
  <2>1. /\ Web!Weight(RunningOf(k)) \in Nat /\ Cardinality(RunningOf(k)) \in Nat
        /\ Web!Weight(RunningOf(k)) = 0 <=> Cardinality(RunningOf(k)) = 0
    BY <1>1, WeightFacts DEF Web!Weight
  <2>2. Cardinality(SlotsOf(k)) \in Nat
    BY SlotsFinite
  <2> QED BY <2>1, <2>2 DEF HeldBy, CallsOf
<1> QED BY <1>3, <1>4

-----------------------------------------------------------------------------
(* The accounts.                                                           *)

Accounts == CapTyped /\ SlotsAccounted /\ SharesKept

\* A step that acquires w for a new call of client k keeps the accounts.
LEMMA Acquired ==
    ASSUME RequestsTyped, Accounts, NEW k \in Clients, NEW w \in 1..Capacity, Acquire(k, w),
           HeldBy(k)' = HeldBy(k) + w, CallsOf(k)' = CallsOf(k) + 1, Total' = Total + w,
           \A j \in Clients \ {k} : HeldBy(j)' = HeldBy(j) /\ CallsOf(j)' = CallsOf(j)
    PROVE  Accounts'
<1>1. /\ held[k] > 0 => held[k] + w <= Share
      /\ inUse + w <= Capacity
      /\ held' = [held EXCEPT ![k] = held[k] + w] /\ inUse' = inUse + w
  BY DEF Acquire, Admits
<1>2. held \in [Clients -> Nat] /\ inUse \in Nat /\ w \in Nat /\ w > 0
  BY CapAssumption DEF Accounts, CapTyped
<1>3. CapTyped'
  BY <1>1, <1>2 DEF CapTyped
<1>4. held'[k] = held[k] + w /\ \A j \in Clients \ {k} : held'[j] = held[j]
  BY <1>1, <1>2
<1>5. inUse = Total /\ \A j \in Clients : held[j] = HeldBy(j) /\ (held[j] > Share => CallsOf(j) = 1)
  BY DEF Accounts, SlotsAccounted, SharesKept, Total
<1>6. \A j \in Clients : held'[j] = HeldBy(j)'
  BY <1>4, <1>5
<1>7. inUse' = Total' /\ inUse' <= Capacity
  BY <1>1, <1>5
<1>8. SlotsAccounted'
  BY <1>6, <1>7 DEF SlotsAccounted, Total
<1>9. held'[k] > Share => CallsOf(k)' = 1
  <2>1. held[k] # 0 => held'[k] <= Share
    BY <1>1, <1>2, <1>4
  <2>2. held[k] = 0 => CallsOf(k) = 0
    BY <1>5, SumFacts
  <2>3. Share \in Nat /\ held'[k] \in Nat
    BY <1>3, ShareIsPositive DEF ShareAndCap, CapTyped
  <2> QED BY <2>1, <2>2, <2>3
<1>10. \A j \in Clients : held'[j] > Share => CallsOf(j)' = 1
  BY <1>4, <1>5, <1>9
<1>11. SharesKept'
  BY <1>10 DEF SharesKept, Share
<1> QED BY <1>3, <1>8, <1>11 DEF Accounts

\* And one that gives back what a call of client k held.
LEMMA Released ==
    ASSUME RequestsTyped, RequestsTyped', Accounts,
           NEW k \in Clients, NEW w \in 1..Capacity, Release(k, w),
           HeldBy(k) = HeldBy(k)' + w, CallsOf(k) = CallsOf(k)' + 1, Total = Total' + w,
           HeldBy(k)' \in Nat, CallsOf(k)' \in Nat, Total' \in Nat,
           HeldBy(k)' = 0 <=> CallsOf(k)' = 0,
           \A j \in Clients \ {k} : HeldBy(j)' = HeldBy(j) /\ CallsOf(j)' = CallsOf(j)
    PROVE  Accounts'
<1>1. held \in [Clients -> Nat] /\ inUse \in Nat /\ w \in Nat /\ w > 0
  BY CapAssumption DEF Accounts, CapTyped
<1>2. inUse = Total /\ \A j \in Clients : held[j] = HeldBy(j) /\ (held[j] > Share => CallsOf(j) = 1)
  BY DEF Accounts, SlotsAccounted, SharesKept, Total
<1>3. held' = [held EXCEPT ![k] = IF held[k] > w THEN held[k] - w ELSE 0] /\ inUse' = inUse - w
  BY DEF Release
<1>4. (IF held[k] > w THEN held[k] - w ELSE 0) = HeldBy(k)'
  BY <1>1, <1>2
<1>5. held' = [held EXCEPT ![k] = HeldBy(k)']
  BY <1>3, <1>4
<1>6. held'[k] = HeldBy(k)' /\ \A j \in Clients \ {k} : held'[j] = held[j]
  BY <1>1, <1>5
<1>7. inUse' = Total'
  <2>1. inUse = Total' + w /\ inUse' = inUse - w
    BY <1>2, <1>3
  <2>2. \A n \in Nat : (n + w) - w = n
    BY <1>1
  <2> QED BY <2>1, <2>2
<1>8. CapTyped'
  BY <1>1, <1>5, <1>7 DEF CapTyped
<1>9. inUse' <= Capacity
  BY <1>1, <1>3, CapAssumption DEF Accounts, SlotsAccounted
<1>10. \A j \in Clients : held'[j] = HeldBy(j)'
  BY <1>2, <1>6
<1>11. SlotsAccounted'
  BY <1>7, <1>9, <1>10 DEF SlotsAccounted, Total
<1>12. held'[k] > Share => CallsOf(k)' = 1
  <2>1. CASE held[k] > Share
    <3>1. CallsOf(k)' = 0
      BY <1>2, <2>1
    <3>2. held'[k] = 0
      BY <1>6, <3>1
    <3> QED BY <3>2, ShareIsPositive DEF ShareAndCap
  <2>2. CASE ~(held[k] > Share)
    <3>1. held'[k] <= held[k]
      BY <1>1, <1>2, <1>6
    <3>2. Share \in Nat /\ held[k] \in Nat /\ held'[k] \in Nat
      BY <1>1, <1>6, ShareIsPositive DEF ShareAndCap
    <3> QED BY <2>2, <3>1, <3>2
  <2> QED BY <2>1, <2>2
<1>13. \A j \in Clients : held'[j] > Share => CallsOf(j)' = 1
  BY <1>2, <1>6, <1>12
<1>14. SharesKept'
  BY <1>13 DEF SharesKept, Share
<1> QED BY <1>8, <1>11, <1>14 DEF Accounts

\* Every other step leaves the Cap and what is in flight as they are.
LEMMA Untouched ==
    ASSUME Accounts, UNCHANGED cap, Total' = Total,
           \A j \in Clients : HeldBy(j)' = HeldBy(j) /\ CallsOf(j)' = CallsOf(j)
    PROVE  Accounts'
<1>1. held' = held /\ inUse' = inUse
  BY DEF cap
<1>2. CapTyped'
  BY <1>1 DEF Accounts, CapTyped
<1>3. SlotsAccounted'
  BY <1>1 DEF Accounts, SlotsAccounted, Total
<1>4. SharesKept'
  BY <1>1 DEF Accounts, SharesKept, Share
<1> QED BY <1>2, <1>3, <1>4 DEF Accounts

-----------------------------------------------------------------------------
(* The steps of the MCP door.                                              *)

LEMMA WebStays ==
    ASSUME request' = request
    PROVE  /\ Running' = Running /\ Web!Weight(Running)' = Web!Weight(Running)
           /\ \A k \in Clients : /\ RunningOf(k)' = RunningOf(k)
                                 /\ Web!Weight(RunningOf(k))' = Web!Weight(RunningOf(k))
<1>1. Running' = Running
  BY DEF Running, Web!Running
<1>2. \A k \in Clients : RunningOf(k)' = RunningOf(k)
  BY <1>1 DEF Running, RunningOf, Web!RunningOf
<1> QED BY <1>1, <1>2 DEF Web!Weight

\* The sums follow the slots where the requests stay.
LEMMA SlotsMove ==
    ASSUME request' = request
    PROVE  /\ Total' = Web!Weight(Running) + Cardinality(Slots')
           /\ \A k \in Clients : /\ HeldBy(k)' = Web!Weight(RunningOf(k)) + Cardinality(SlotsOf(k)')
                                 /\ CallsOf(k)' = Cardinality(RunningOf(k)) + Cardinality(SlotsOf(k)')
BY WebStays DEF Total, HeldBy, CallsOf

\* TakeSlot of a tool puts its call among the slots, in all and of its client.
LEMMA SlotTaken ==
    ASSUME CallsTyped, NEW c \in Calls, NEW k \in Clients, k = client[c], TakeSlot(c), spec[c] = "tool"
    PROVE /\ Cardinality(Slots') = Cardinality(Slots) + 1
          /\ Cardinality(SlotsOf(k)') = Cardinality(SlotsOf(k)) + 1
          /\ \A j \in Clients \ {k} : SlotsOf(j)' = SlotsOf(j)
<1>1. at[c] = "acquiring" /\ at' = [at EXCEPT ![c] = "running"] /\ UNCHANGED <<client, spec>>
  BY DEF TakeSlot, Move, info
<1>2. Slots' = Slots \cup {c} /\ c \notin Slots
  BY <1>1 DEF CallsTyped, Slots
<1>3. \A j \in Clients : SlotsOf(j)' = IF j = k THEN SlotsOf(j) \cup {c} ELSE SlotsOf(j)
  BY <1>1, <1>2 DEF SlotsOf
<1>4. c \notin SlotsOf(k)
  BY <1>2 DEF SlotsOf
<1>5. Cardinality(Slots \cup {c}) = Cardinality(Slots) + 1
  BY <1>2, SlotsFinite, FS_AddElement
<1>6. Cardinality(SlotsOf(k) \cup {c}) = Cardinality(SlotsOf(k)) + 1
  BY <1>4, SlotsFinite, FS_AddElement
<1> QED BY <1>2, <1>3, <1>4, <1>5, <1>6

\* GiveBack of a tool takes its call out of the slots.
LEMMA SlotGivenBack ==
    ASSUME CallsTyped, NEW c \in Calls, NEW k \in Clients, k = client[c], GiveBack(c), spec[c] = "tool"
    PROVE /\ Cardinality(Slots) = Cardinality(Slots') + 1
          /\ Cardinality(SlotsOf(k)) = Cardinality(SlotsOf(k)') + 1
          /\ \A j \in Clients \ {k} : SlotsOf(j)' = SlotsOf(j)
          /\ Cardinality(Slots') \in Nat /\ \A j \in Clients : Cardinality(SlotsOf(j)') \in Nat
<1>1. at[c] = "releasing" /\ at' = [at EXCEPT ![c] = "recording"] /\ UNCHANGED <<client, spec>>
  BY DEF GiveBack, Move, info
<1>2. Slots' = Slots \ {c} /\ c \in Slots
  BY <1>1 DEF CallsTyped, Slots
<1>3. \A j \in Clients : SlotsOf(j)' = IF j = k THEN SlotsOf(j) \ {c} ELSE SlotsOf(j)
  BY <1>1, <1>2 DEF SlotsOf
<1>4. c \in SlotsOf(k)
  BY <1>2 DEF SlotsOf
<1>5. Cardinality(Slots \ {c}) = Cardinality(Slots) - 1 /\ IsFiniteSet(Slots \ {c})
  BY <1>2, SlotsFinite, FS_RemoveElement
<1>6. Cardinality(SlotsOf(k) \ {c}) = Cardinality(SlotsOf(k)) - 1 /\ IsFiniteSet(SlotsOf(k) \ {c})
  BY <1>4, SlotsFinite, FS_RemoveElement
<1>7. Cardinality(Slots \ {c}) \in Nat /\ Cardinality(SlotsOf(k) \ {c}) \in Nat
  BY <1>5, <1>6, FS_CardinalityType
<1>8. \A j \in Clients : SlotsOf(j)' = IF j = k THEN SlotsOf(k) \ {c} ELSE SlotsOf(j)
  BY <1>3
<1>9. Cardinality(Slots') \in Nat /\ \A j \in Clients : Cardinality(SlotsOf(j)') \in Nat
  BY <1>2, <1>7, <1>8, SlotsFinite
<1>10. \A m, n \in Nat : m = n - 1 => n = m + 1
  OBVIOUS
<1>11. Cardinality(Slots) = Cardinality(Slots') + 1
  BY <1>2, <1>5, <1>7, <1>10, SlotsFinite
<1>12. Cardinality(SlotsOf(k)) = Cardinality(SlotsOf(k)') + 1
  BY <1>6, <1>7, <1>8, <1>10, SlotsFinite
<1> QED BY <1>8, <1>9, <1>11, <1>12

\* What a step of a call does, apart from the Cap, is typed.
LEMMA CallsTypedStep ==
    ASSUME CallsTyped, [Next]_vars
    PROVE  CallsTyped'
<1>1. ASSUME NEW c \in Calls, NEW k \in Clients, NEW s \in Specs, Receive(c, k, s) PROVE CallsTyped'
  BY <1>1 DEF CallsTyped, Receive, Move, Status
<1>2. ASSUME NEW c \in Calls, Allow(c) \/ Limit(c) \/ TakeSlot(c) \/ Busy(c) \/ GiveBack(c) \/ Record(c)
      PROVE  CallsTyped'
  BY <1>2 DEF CallsTyped, Allow, Limit, TakeSlot, Busy, GiveBack, Record, Move, Status, info
<1>3. ASSUME NEW c \in Calls, Judge(c) PROVE CallsTyped'
  <2>1. Verdict(result[c], ctx[c]) \in {200, 400, 422, 499, 500, 504}
    BY DEF Verdict
  <2> QED BY <1>3, <2>1 DEF CallsTyped, Judge, Move, Status, info
<1>4. ASSUME NEW c \in Calls, NEW r \in Results, Return(c, r) PROVE CallsTyped'
  BY <1>4 DEF CallsTyped, Return, Move, info
<1>5. ASSUME NEW c \in Calls, Deadline(c) \/ HangUp(c) \/ CancelGone(c) PROVE CallsTyped'
  <2>1. CASE Deadline(c)
    BY <2>1 DEF Deadline, CallsTyped, info
  <2>2. CASE HangUp(c)
    BY <2>2 DEF HangUp, CallsTyped, info
  <2>3. CASE CancelGone(c)
    BY <2>3 DEF CancelGone, CallsTyped, info
  <2> QED BY <1>5, <2>1, <2>2, <2>3
<1>6. CASE UNCHANGED vars
  BY <1>6 DEF vars, info, CallsTyped
<1> QED BY <1>1, <1>2, <1>3, <1>4, <1>5, <1>6 DEF Next, Serve

LEMMA McpAccounts ==
    ASSUME CallsTyped, RequestsTyped, Accounts, request' = request, [Next]_vars
    PROVE  Accounts'
<1>0. RequestsTyped'
  BY DEF RequestsTyped, Web!Idle
<1>1. ASSUME NEW c \in Calls, TakeSlot(c), spec[c] = "tool" PROVE Accounts'
  <2>1. PICK k \in Clients : k = client[c]
    BY DEF CallsTyped
  <2>2. Acquire(k, 1)
    BY <1>1, <2>1 DEF TakeSlot
  <2>3. 1 \in 1..Capacity
    BY CapAssumption
  <2>4. /\ HeldBy(k)' = HeldBy(k) + 1 /\ CallsOf(k)' = CallsOf(k) + 1 /\ Total' = Total + 1
        /\ \A j \in Clients \ {k} : HeldBy(j)' = HeldBy(j) /\ CallsOf(j)' = CallsOf(j)
    <3>1. /\ Cardinality(Slots') = Cardinality(Slots) + 1
          /\ Cardinality(SlotsOf(k)') = Cardinality(SlotsOf(k)) + 1
          /\ \A j \in Clients \ {k} : SlotsOf(j)' = SlotsOf(j)
      BY <1>1, <2>1, SlotTaken
    <3>2. /\ Web!Weight(Running) \in Nat /\ Web!Weight(RunningOf(k)) \in Nat
          /\ Cardinality(RunningOf(k)) \in Nat
      BY WeightFacts DEF Web!Weight, RunningOf, Web!RunningOf, Running
    <3>3. Cardinality(Slots) \in Nat /\ Cardinality(SlotsOf(k)) \in Nat
      BY SlotsFinite
    <3>4. \A a, b \in Nat : a + (b + 1) = (a + b) + 1
      OBVIOUS
    <3>5. /\ HeldBy(k)' = Web!Weight(RunningOf(k)) + (Cardinality(SlotsOf(k)) + 1)
          /\ CallsOf(k)' = Cardinality(RunningOf(k)) + (Cardinality(SlotsOf(k)) + 1)
          /\ Total' = Web!Weight(Running) + (Cardinality(Slots) + 1)
      BY <3>1, SlotsMove
    <3>6. /\ HeldBy(k)' = HeldBy(k) + 1 /\ CallsOf(k)' = CallsOf(k) + 1 /\ Total' = Total + 1
      BY <3>2, <3>3, <3>4, <3>5 DEF HeldBy, CallsOf, Total
    <3> QED BY <3>1, <3>6, SlotsMove DEF HeldBy, CallsOf
  <2> QED BY <2>2, <2>3, <2>4, Acquired
<1>2. ASSUME NEW c \in Calls, GiveBack(c), spec[c] = "tool" PROVE Accounts'
  <2>1. PICK k \in Clients : k = client[c]
    BY DEF CallsTyped
  <2>2. Release(k, 1)
    BY <1>2, <2>1 DEF GiveBack
  <2>3. 1 \in 1..Capacity
    BY CapAssumption
  <2>4. /\ HeldBy(k) = HeldBy(k)' + 1 /\ CallsOf(k) = CallsOf(k)' + 1 /\ Total = Total' + 1
        /\ HeldBy(k)' \in Nat /\ CallsOf(k)' \in Nat /\ Total' \in Nat
        /\ HeldBy(k)' = 0 <=> CallsOf(k)' = 0
        /\ \A j \in Clients \ {k} : HeldBy(j)' = HeldBy(j) /\ CallsOf(j)' = CallsOf(j)
    <3>1. /\ Cardinality(Slots) = Cardinality(Slots') + 1
          /\ Cardinality(SlotsOf(k)) = Cardinality(SlotsOf(k)') + 1
          /\ \A j \in Clients \ {k} : SlotsOf(j)' = SlotsOf(j)
          /\ Cardinality(Slots') \in Nat /\ Cardinality(SlotsOf(k)') \in Nat
      BY <1>2, <2>1, SlotGivenBack
    <3>2. /\ Web!Weight(Running) \in Nat /\ Web!Weight(RunningOf(k)) \in Nat
          /\ Cardinality(RunningOf(k)) \in Nat
          /\ Web!Weight(RunningOf(k)) = 0 <=> Cardinality(RunningOf(k)) = 0
      BY WeightFacts DEF Web!Weight, RunningOf, Web!RunningOf, Running
    <3>3. \A a, b \in Nat : a + (b + 1) = (a + b) + 1 /\ a + b \in Nat /\ (a + b = 0 <=> a = 0 /\ b = 0)
      OBVIOUS
    <3>4. /\ HeldBy(k) = Web!Weight(RunningOf(k)) + (Cardinality(SlotsOf(k)') + 1)
          /\ CallsOf(k) = Cardinality(RunningOf(k)) + (Cardinality(SlotsOf(k)') + 1)
          /\ Total = Web!Weight(Running) + (Cardinality(Slots') + 1)
      BY <3>1 DEF HeldBy, CallsOf, Total
    <3>5. /\ HeldBy(k)' = Web!Weight(RunningOf(k)) + Cardinality(SlotsOf(k)')
          /\ CallsOf(k)' = Cardinality(RunningOf(k)) + Cardinality(SlotsOf(k)')
          /\ Total' = Web!Weight(Running) + Cardinality(Slots')
      BY SlotsMove
    <3>6. /\ HeldBy(k) = HeldBy(k)' + 1 /\ CallsOf(k) = CallsOf(k)' + 1 /\ Total = Total' + 1
          /\ HeldBy(k)' \in Nat /\ CallsOf(k)' \in Nat /\ Total' \in Nat
      BY <3>1, <3>2, <3>3, <3>4, <3>5
    <3>7. HeldBy(k)' = 0 <=> CallsOf(k)' = 0
      BY <3>1, <3>2, <3>3, <3>5
    <3>8. \A j \in Clients \ {k} : HeldBy(j)' = HeldBy(j) /\ CallsOf(j)' = CallsOf(j)
      BY <3>1, SlotsMove DEF HeldBy, CallsOf
    <3> QED BY <3>6, <3>7, <3>8
  <2> QED BY <1>0, <2>2, <2>3, <2>4, Released
<1>3. ASSUME UNCHANGED cap, Slots' = Slots, \A k \in Clients : SlotsOf(k)' = SlotsOf(k)
      PROVE  Accounts'
  <2>1. Total' = Total /\ \A j \in Clients : HeldBy(j)' = HeldBy(j) /\ CallsOf(j)' = CallsOf(j)
    BY <1>3, SlotsMove DEF Total, HeldBy, CallsOf
  <2> QED BY <1>3, <2>1, Untouched
<1>4. ASSUME NEW c \in Calls, NEW k \in Clients, NEW s \in Specs, Receive(c, k, s) PROVE Accounts'
  <2>1. /\ UNCHANGED cap /\ at[c] = "idle" /\ at' = [at EXCEPT ![c] = "limiting"]
        /\ client' = [client EXCEPT ![c] = k] /\ spec' = [spec EXCEPT ![c] = s]
    BY <1>4 DEF Receive, Move
  <2>2. Slots' = Slots
    BY <2>1 DEF CallsTyped, Slots
  <2>3. \A j \in Clients : SlotsOf(j)' = SlotsOf(j)
    BY <2>1, <2>2 DEF CallsTyped, Slots, SlotsOf
  <2> QED BY <1>3, <2>1, <2>2, <2>3
<1>5. ASSUME NEW c \in Calls,
             Allow(c) \/ Limit(c) \/ Busy(c) \/ Record(c)
               \/ (TakeSlot(c) /\ spec[c] # "tool") \/ (GiveBack(c) /\ spec[c] # "tool")
      PROVE  Accounts'
  <2>1. UNCHANGED <<cap, client, spec>>
    BY <1>5 DEF Allow, Limit, Busy, Record, TakeSlot, GiveBack, info
  <2>2. Slots' = Slots
    BY <1>5 DEF Allow, Limit, Busy, Record, TakeSlot, GiveBack, CallsTyped, Move, info, Slots
  <2> QED BY <1>3, <2>1, <2>2 DEF SlotsOf
<1>6. ASSUME NEW c \in Calls, Judge(c) \/ (\E r \in Results : Return(c, r)) PROVE Accounts'
  <2>1. UNCHANGED <<cap, client, spec>>
    BY <1>6 DEF Judge, Return, info
  <2>2. Slots' = Slots
    BY <1>6 DEF Judge, Return, CallsTyped, Move, info, Slots
  <2> QED BY <1>3, <2>1, <2>2 DEF SlotsOf
<1>7. CASE (\E c \in Calls : Deadline(c) \/ HangUp(c) \/ CancelGone(c)) \/ UNCHANGED vars
  <2>1. UNCHANGED <<cap, at, client, spec>>
    BY <1>7 DEF Deadline, HangUp, CancelGone, vars, info
  <2>2. Slots' = Slots
    BY <2>1 DEF Slots
  <2> QED BY <1>3, <2>1, <2>2 DEF SlotsOf
<1> QED BY <1>1, <1>2, <1>4, <1>5, <1>6, <1>7 DEF Next, Serve

-----------------------------------------------------------------------------
(* The steps of the web door.                                              *)

LEMMA WeightInBudget ==
    ASSUME NEW cost \in Costs
    PROVE  Web!HeavyWeight(cost) \in 1..Capacity
<1>1. cost \in Nat /\ Floor \in 1..Capacity /\ Capacity \in Nat
  BY CapsAssumption, CapAssumption
<1> QED BY <1>1 DEF Web!HeavyWeight, Web!Larger, Web!Smaller

\* Requests that run on, of which r is not one, weigh what they did.
LEMMA OthersWeigh ==
    ASSUME RequestsTyped, NEW r \in Requests, NEW x, request' = [request EXCEPT ![r] = x],
           NEW S \in SUBSET Running, r \notin S
    PROVE  Web!WeightOf(request', S) = Web!WeightOf(request, S)
<1>1. IsFiniteSet(S)
  BY WeightFacts
<1>2. \A q \in S : request'[q] = request[q]
  BY DEF RequestsTyped, Running, Web!Running
<1> HIDE DEF RequestsTyped
<1> QED BY <1>1, <1>2, SameWeights

LEMMA WebAccounts ==
    ASSUME CallsTyped, RequestsTyped, Accounts, Web!Next, UNCHANGED <<at, client, spec>>
    PROVE  RequestsTyped' /\ Accounts'
<1>1. Slots' = Slots /\ \A j \in Clients : SlotsOf(j)' = SlotsOf(j)
  BY DEF Slots, SlotsOf
<1>2. Cardinality(Slots) \in Nat /\ \A j \in Clients : Cardinality(SlotsOf(j)) \in Nat
  BY SlotsFinite
<1>3. Running \in SUBSET Requests /\ \A j \in Clients : RunningOf(j) \in SUBSET Running
  BY DEF Running, RunningOf, Web!Running, Web!RunningOf
<1>4. /\ Web!Weight(Running) \in Nat
      /\ \A j \in Clients : Web!Weight(RunningOf(j)) \in Nat /\ Cardinality(RunningOf(j)) \in Nat
  BY <1>3, WeightFacts DEF Web!Weight
<1>5. \A a, b, w \in Nat : (a + w) + b = (a + b) + w
  OBVIOUS
<1>6. ASSUME NEW r \in Requests, NEW k \in Clients, NEW cost \in Costs, Web!Start(r, k, cost)
      PROVE  RequestsTyped' /\ Accounts'
  <2> DEFINE w == Web!HeavyWeight(cost)
             x == [at |-> "running", client |-> k, weight |-> w]
  <2>1. w \in 1..Capacity /\ w \in Nat
    BY WeightInBudget, CapAssumption
  <2>2. /\ request[r] = Web!Idle /\ Acquire(k, w) /\ request' = [request EXCEPT ![r] = x]
    BY <1>6 DEF Web!Start, Web!Acquire, Web!Admits, Web!Share, Acquire, Admits, Share
  <2> HIDE DEF w
  <2>3. RequestsTyped' /\ request'[r] = x
    BY <2>1, <2>2 DEF RequestsTyped, Flight, Web!Idle
  <2>4. r \notin Running
    BY <2>2 DEF Running, Web!Running, Web!Idle
  <2>5. Running' = Running \cup {r}
    BY <2>2, <2>3 DEF Running, Web!Running, RequestsTyped
  <2>6. \A j \in Clients : RunningOf(j)' = IF j = k THEN RunningOf(j) \cup {r} ELSE RunningOf(j)
    BY <2>2, <2>3, <2>4, <2>5 DEF Running, RunningOf, Web!RunningOf, RequestsTyped
  <2>7. ASSUME NEW S \in SUBSET Running
        PROVE  /\ Web!WeightOf(request', S \cup {r}) = Web!WeightOf(request, S) + w
               /\ Cardinality(S \cup {r}) = Cardinality(S) + 1
    <3>1. IsFiniteSet(S) /\ r \notin S
      BY <2>4, WeightFacts
    <3>2. Weighed(request', S)
      <4>1. Weighed(request, S)
        BY WeightFacts
      <4>2. \A q \in S : request'[q] = request[q]
        BY <1>3, <2>2, <2>4 DEF RequestsTyped
      <4> QED BY <4>1, <4>2 DEF Weighed
    <3>3. request'[r].weight = w /\ request'[r].weight \in Nat
      BY <2>1, <2>3
    <3>4. Web!WeightOf(request', S) = Web!WeightOf(request, S)
      BY <2>2, <2>4, OthersWeigh
    <3>5. /\ Web!WeightOf(request', S \cup {r}) = Web!WeightOf(request', S) + request'[r].weight
          /\ Cardinality(S \cup {r}) = Cardinality(S) + 1
      BY <3>1, <3>2, <3>3, OneMore
    <3> QED BY <3>3, <3>4, <3>5
  <2>8. ASSUME NEW S \in SUBSET Running
        PROVE  Web!WeightOf(request', S) = Web!WeightOf(request, S)
    BY <2>2, <2>4, OthersWeigh
  <2>9. /\ Web!Weight(Running)' = Web!Weight(Running) + w
        /\ Web!Weight(RunningOf(k))' = Web!Weight(RunningOf(k)) + w
        /\ Cardinality(RunningOf(k)') = Cardinality(RunningOf(k)) + 1
    BY <1>3, <2>5, <2>6, <2>7 DEF Web!Weight
  <2>10. \A j \in Clients \ {k} : /\ Web!Weight(RunningOf(j))' = Web!Weight(RunningOf(j))
                                  /\ RunningOf(j)' = RunningOf(j)
    BY <1>3, <2>6, <2>8 DEF Web!Weight
  <2>11. /\ HeldBy(k)' = HeldBy(k) + w /\ CallsOf(k)' = CallsOf(k) + 1 /\ Total' = Total + w
    BY <1>1, <1>2, <1>4, <1>5, <2>1, <2>9 DEF HeldBy, CallsOf, Total
  <2>12. \A j \in Clients \ {k} : HeldBy(j)' = HeldBy(j) /\ CallsOf(j)' = CallsOf(j)
    BY <1>1, <2>10 DEF HeldBy, CallsOf
  <2> QED BY <2>1, <2>2, <2>3, <2>11, <2>12, Acquired
<1>7. ASSUME NEW r \in Requests, Web!Finish(r)
      PROVE  RequestsTyped' /\ Accounts'
  <2> DEFINE w == request[r].weight
  <2>1. request[r].at = "running" /\ request' = [request EXCEPT ![r] = Web!Idle]
    BY <1>7 DEF Web!Finish
  <2>2. PICK k \in Clients : k = request[r].client
    BY <2>1, RunningHolds
  <2>3. w \in 1..Capacity /\ w \in Nat
    BY <2>1, RunningHolds, CapAssumption
  <2>4. Release(k, w)
    BY <1>7, <2>2 DEF Web!Finish, Web!Release, Release
  <2> HIDE DEF w
  <2>5. RequestsTyped' /\ request'[r] = Web!Idle
    BY <2>1 DEF RequestsTyped, Web!Idle
  <2>6. r \in Running
    BY <2>1 DEF Running, Web!Running
  <2>7. Running' = Running \ {r}
    BY <2>1, <2>5 DEF Running, Web!Running, RequestsTyped, Web!Idle
  <2>8. \A j \in Clients : RunningOf(j)' = IF j = k THEN RunningOf(j) \ {r} ELSE RunningOf(j)
    BY <2>1, <2>2, <2>5, <2>7 DEF Running, RunningOf, Web!Running, Web!RunningOf, RequestsTyped
  <2>9. r \in RunningOf(k) /\ \A j \in Clients \ {k} : r \notin RunningOf(j)
    BY <2>2, <2>6 DEF Running, RunningOf, Web!RunningOf
  <2>10. ASSUME NEW S \in SUBSET Running, r \in S
         PROVE  /\ Web!WeightOf(request, S) = Web!WeightOf(request', S \ {r}) + w
                /\ Cardinality(S) = Cardinality(S \ {r}) + 1
                /\ Web!WeightOf(request', S \ {r}) \in Nat /\ Cardinality(S \ {r}) \in Nat
                /\ Web!WeightOf(request', S \ {r}) = 0 <=> Cardinality(S \ {r}) = 0
    <3> DEFINE R == S \ {r}
    <3>1. R \in SUBSET Running /\ r \notin R /\ S = R \cup {r}
      BY <2>10
    <3> HIDE DEF R
    <3>2. /\ IsFiniteSet(R) /\ Weighed(request, R)
          /\ Web!WeightOf(request, R) \in Nat /\ Cardinality(R) \in Nat
          /\ Web!WeightOf(request, R) = 0 <=> Cardinality(R) = 0
      BY <3>1, WeightFacts
    <3>3. Web!WeightOf(request', R) = Web!WeightOf(request, R)
      BY <2>1, <3>1, OthersWeigh
    <3>4. request[r].weight = w /\ request[r].weight \in Nat
      BY <2>3 DEF w
    <3>5. /\ Web!WeightOf(request, R \cup {r}) = Web!WeightOf(request, R) + w
          /\ Cardinality(R \cup {r}) = Cardinality(R) + 1
      BY <3>1, <3>2, <3>4, OneMore
    <3> QED BY <3>1, <3>2, <3>3, <3>5 DEF R
  <2>11. /\ Web!Weight(Running) = Web!Weight(Running)' + w /\ Web!Weight(Running)' \in Nat
    BY <2>6, <2>7, <2>10 DEF Web!Weight
  <2>12. /\ Web!Weight(RunningOf(k)) = Web!Weight(RunningOf(k))' + w
         /\ Cardinality(RunningOf(k)) = Cardinality(RunningOf(k)') + 1
         /\ Web!Weight(RunningOf(k))' \in Nat /\ Cardinality(RunningOf(k)') \in Nat
         /\ Web!Weight(RunningOf(k))' = 0 <=> Cardinality(RunningOf(k)') = 0
    BY <1>3, <2>8, <2>9, <2>10 DEF Web!Weight
  <2>13. \A j \in Clients \ {k} : /\ Web!Weight(RunningOf(j))' = Web!Weight(RunningOf(j))
                                  /\ RunningOf(j)' = RunningOf(j)
    <3>1. ASSUME NEW j \in Clients \ {k} PROVE Web!WeightOf(request', RunningOf(j)) = Web!WeightOf(request, RunningOf(j))
      BY <1>3, <2>1, <2>9, OthersWeigh
    <3> QED BY <2>8, <3>1 DEF Web!Weight
  <2>14. /\ HeldBy(k) = (Web!Weight(RunningOf(k))' + w) + Cardinality(SlotsOf(k))
         /\ HeldBy(k)' = Web!Weight(RunningOf(k))' + Cardinality(SlotsOf(k))
         /\ CallsOf(k) = (Cardinality(RunningOf(k)') + 1) + Cardinality(SlotsOf(k))
         /\ CallsOf(k)' = Cardinality(RunningOf(k)') + Cardinality(SlotsOf(k))
         /\ Total = (Web!Weight(Running)' + w) + Cardinality(Slots)
         /\ Total' = Web!Weight(Running)' + Cardinality(Slots)
    BY <1>1, <2>11, <2>12 DEF HeldBy, CallsOf, Total
  <2>15. /\ HeldBy(k) = HeldBy(k)' + w /\ CallsOf(k) = CallsOf(k)' + 1 /\ Total = Total' + w
    BY <1>2, <1>5, <2>3, <2>11, <2>12, <2>14
  <2>16. /\ HeldBy(k)' \in Nat /\ CallsOf(k)' \in Nat /\ Total' \in Nat
         /\ HeldBy(k)' = 0 <=> CallsOf(k)' = 0
    <3>1. \A a, b \in Nat : a + b \in Nat /\ (a + b = 0 <=> a = 0 /\ b = 0)
      OBVIOUS
    <3> QED BY <1>2, <2>11, <2>12, <2>14, <3>1
  <2>17. \A j \in Clients \ {k} : HeldBy(j)' = HeldBy(j) /\ CallsOf(j)' = CallsOf(j)
    BY <1>1, <2>13 DEF HeldBy, CallsOf
  <2> QED BY <2>3, <2>4, <2>5, <2>15, <2>16, <2>17, Released
<1>8. ASSUME NEW r \in Requests,
             Web!Answered(r) \/ \E k \in Clients, cost \in Costs : Web!Refuse(r, k, cost)
      PROVE  RequestsTyped' /\ Accounts'
  <2>0. Web!Idle.at = "idle"
    BY DEF Web!Idle
  <2>1. PICK x \in Flight \cup {Web!Idle} :
            /\ request[r].at # "running" /\ x.at # "running"
            /\ request' = [request EXCEPT ![r] = x] /\ UNCHANGED <<held, inUse>>
    <3>1. CASE Web!Answered(r)
      <4>1. /\ request[r].at # "running" /\ request' = [request EXCEPT ![r] = Web!Idle]
            /\ UNCHANGED <<held, inUse>>
        BY <3>1 DEF Web!Answered, Web!cap
      <4> QED BY <2>0, <4>1
    <3>2. ASSUME NEW k \in Clients, NEW cost \in Costs, Web!Refuse(r, k, cost)
          PROVE  \E x \in Flight \cup {Web!Idle} :
                     /\ request[r].at # "running" /\ x.at # "running"
                     /\ request' = [request EXCEPT ![r] = x] /\ UNCHANGED <<held, inUse>>
      <4> DEFINE x == [at |-> "refused", client |-> k, weight |-> Web!HeavyWeight(cost)]
      <4>1. x \in Flight /\ x.at = "refused"
        BY WeightInBudget DEF Flight
      <4>2. /\ request[r] = Web!Idle /\ request' = [request EXCEPT ![r] = x]
            /\ UNCHANGED <<held, inUse>>
        BY <3>2 DEF Web!Refuse, Web!cap
      <4> HIDE DEF x
      <4> QED BY <2>0, <4>1, <4>2
    <3> QED BY <1>8, <3>1, <3>2
  <2>2. RequestsTyped' /\ request'[r] = x /\ \A q \in Requests \ {r} : request'[q] = request[q]
    BY <2>1 DEF RequestsTyped, Web!Idle
  <2>3. Running' = Running /\ r \notin Running
    BY <2>1, <2>2 DEF Running, Web!Running
  <2>4. \A j \in Clients : RunningOf(j)' = RunningOf(j)
    BY <1>3, <2>2, <2>3 DEF Running, RunningOf, Web!RunningOf
  <2>5. ASSUME NEW S \in SUBSET Running PROVE Web!WeightOf(request', S) = Web!WeightOf(request, S)
    BY <2>1, <2>3, OthersWeigh
  <2>6. /\ Web!Weight(Running)' = Web!Weight(Running)
        /\ \A j \in Clients : Web!Weight(RunningOf(j))' = Web!Weight(RunningOf(j))
    BY <1>3, <2>3, <2>4, <2>5 DEF Web!Weight
  <2>7. Total' = Total /\ \A j \in Clients : HeldBy(j)' = HeldBy(j) /\ CallsOf(j)' = CallsOf(j)
    BY <1>1, <2>4, <2>6 DEF Total, HeldBy, CallsOf
  <2> QED BY <2>1, <2>2, <2>7, Untouched DEF cap
<1> QED BY <1>6, <1>7, <1>8 DEF Web!Next

-----------------------------------------------------------------------------
(* The invariant, and what a refusal tells.                                *)

\* The accounts are inductive with the types alone.
IInv == CallsTyped /\ RequestsTyped /\ Accounts

LEMMA Initially == CapsInit => IInv
<1> SUFFICES ASSUME CapsInit PROVE IInv
  OBVIOUS
<1>1. CallsTyped
  BY DEF CapsInit, Init, CallsTyped
<1>2. RequestsTyped /\ Running = {} /\ \A k \in Clients : RunningOf(k) = {}
  BY DEF CapsInit, Web!Init, RequestsTyped, Running, RunningOf, Web!Running, Web!RunningOf, Web!Idle
<1>3. Slots = {} /\ \A k \in Clients : SlotsOf(k) = {}
  BY DEF CapsInit, Init, Slots, SlotsOf
<1>4. held = [k \in Clients |-> 0] /\ inUse = 0
  BY DEF CapsInit, Init, CapInit
<1>5. Total = 0 /\ \A k \in Clients : HeldBy(k) = 0
  <2>1. Web!Weight({}) = 0 /\ Cardinality({}) = 0
    BY NoWeight, FS_EmptySet DEF Web!Weight
  <2> QED BY <1>2, <1>3, <2>1 DEF Total, HeldBy
<1>6. CapTyped /\ SlotsAccounted /\ SharesKept
  BY <1>4, <1>5, CapAssumption, ShareIsPositive
     DEF CapTyped, SlotsAccounted, SharesKept, Total, ShareAndCap
<1> QED BY <1>1, <1>2, <1>6 DEF IInv, Accounts

LEMMA Inductive ==
    ASSUME IInv, [CapsNext]_capsVars
    PROVE  IInv'
<1>1. CASE request' = request /\ [Next]_vars
  <2>1. RequestsTyped'
    BY <1>1 DEF IInv, RequestsTyped, Web!Idle
  <2> QED BY <1>1, <2>1, CallsTypedStep, McpAccounts DEF IInv
<1>2. CASE Web!Next /\ UNCHANGED <<at, info, ctx, gone, result, got>>
  <2>1. CallsTyped' /\ UNCHANGED <<at, client, spec>>
    BY <1>2 DEF IInv, CallsTyped, info
  <2> QED BY <1>2, <2>1, WebAccounts DEF IInv
<1> QED BY <1>1, <1>2 DEF CapsNext, capsVars

\* Whatever ended the calls before, the Cap holds what is in flight at its two
\* doors and nothing else: no slot leaks and none is given back twice.
THEOREM SlotsAlwaysAccounted == CapsSpec => []SlotsAccounted
<1>1. IInv => SlotsAccounted
  BY DEF IInv, Accounts
<1> QED BY <1>1, Initially, Inductive, PTL DEF CapsSpec

\* No client stacks calls beyond its share, at one door or at both.
THEOREM SharesAlwaysKept == CapsSpec => []SharesKept
<1>1. IInv => SharesKept
  BY DEF IInv, Accounts
<1> QED BY <1>1, Initially, Inductive, PTL DEF CapsSpec

\* A request is refused by the Cap, for what it asks.
LEMMA WebRefusal ==
    ASSUME RequestsTyped, [CapsNext]_capsVars, NEW r \in Requests, WebRefuses(r)
    PROVE  \E k \in Clients, w \in 1..Capacity :
               ~Admits(k, w) /\ request'[r].client = k /\ request'[r].weight = w
<1>0. Web!Idle.at = "idle"
  BY DEF Web!Idle
<1>1. request'[r].at = "refused" /\ request[r].at = "idle" /\ request'[r] # request[r]
  BY <1>0 DEF WebRefuses
<1>2. Web!Next
  BY <1>1 DEF CapsNext, capsVars
<1>3. PICK q \in Requests :
          \/ \E k \in Clients, cost \in Costs : Web!Start(q, k, cost) \/ Web!Refuse(q, k, cost)
          \/ Web!Finish(q) \/ Web!Answered(q)
  BY <1>2 DEF Web!Next
<1>4. \E x : request' = [request EXCEPT ![q] = x]
  BY <1>3 DEF Web!Start, Web!Refuse, Web!Finish, Web!Answered
<1>5. q = r
  BY <1>1, <1>4 DEF RequestsTyped
<1>6. PICK k \in Clients, cost \in Costs : Web!Start(r, k, cost) \/ Web!Refuse(r, k, cost)
  BY <1>1, <1>3, <1>5 DEF Web!Finish, Web!Answered
<1>7. ~Web!Start(r, k, cost)
  <2> SUFFICES ASSUME Web!Start(r, k, cost) PROVE FALSE
    OBVIOUS
  <2>1. request' = [request EXCEPT ![r] = [at |-> "running", client |-> k, weight |-> Web!HeavyWeight(cost)]]
    BY DEF Web!Start
  <2>2. request'[r].at = "running"
    BY <2>1 DEF RequestsTyped
  <2> QED BY <1>1, <2>2
<1> DEFINE w == Web!HeavyWeight(cost)
<1>8. /\ ~Admits(k, w)
      /\ request' = [request EXCEPT ![r] = [at |-> "refused", client |-> k, weight |-> w]]
  BY <1>6, <1>7 DEF Web!Refuse, Web!Admits, Web!Share, Admits, Share
<1>9. w \in 1..Capacity
  BY WeightInBudget
<1> HIDE DEF w
<1>10. request'[r].client = k /\ request'[r].weight = w
  BY <1>8 DEF RequestsTyped
<1> QED BY <1>8, <1>9, <1>10

\* An MCP message too.
LEMMA McpRefusal ==
    ASSUME CallsTyped, [CapsNext]_capsVars, NEW c \in Calls, McpRefuses(c)
    PROVE  client[c] \in Clients /\ ~Admits(client[c], 1)
<1>1. at[c] = "acquiring" /\ at'[c] = "recording" /\ client[c] \in Clients
  BY DEF McpRefuses, CallsTyped
<1>2. Next
  BY <1>1 DEF CapsNext, capsVars, vars
<1>3. PICK d \in Calls :
          \/ \E k \in Clients, s \in Specs : Receive(d, k, s)
          \/ Serve(d)
          \/ Deadline(d) \/ HangUp(d) \/ CancelGone(d)
          \/ \E r \in Results : Return(d, r)
  BY <1>2 DEF Next
<1>4. CASE d # c
  <2>1. at'[c] = at[c]
    BY <1>3, <1>4 DEF Receive, Serve, Allow, Limit, TakeSlot, Busy, Judge, GiveBack, Record,
                      Deadline, HangUp, CancelGone, Return, Move, CallsTyped
  <2> QED BY <1>1, <2>1
<1>5. CASE d = c
  <2>1. ~(\E k \in Clients, s \in Specs : Receive(c, k, s)) /\ ~(\E r \in Results : Return(c, r))
    BY <1>1 DEF Receive, Return, Move
  <2>2. ~(Deadline(c) \/ HangUp(c) \/ CancelGone(c))
    BY <1>1 DEF Deadline, HangUp, CancelGone
  <2>3. ~(Allow(c) \/ Limit(c) \/ Judge(c) \/ GiveBack(c) \/ Record(c))
    BY <1>1 DEF Allow, Limit, Judge, GiveBack, Record, Move
  <2>4. ~TakeSlot(c)
    BY <1>1 DEF TakeSlot, Move, CallsTyped
  <2>5. Busy(c)
    BY <1>3, <1>5, <2>1, <2>2, <2>3, <2>4 DEF Serve
  <2> QED BY <1>1, <2>5 DEF Busy
<1> QED BY <1>4, <1>5

\* With nothing in flight the Cap admits whatever fits the budget.
LEMMA AdmittedAlone ==
    ASSUME Accounts, Running = {}, Slots = {}, NEW k \in Clients, NEW w \in 1..Capacity
    PROVE  Admits(k, w)
<1>1. RunningOf(k) = {} /\ SlotsOf(k) = {}
  BY DEF RunningOf, Web!RunningOf, Running, SlotsOf
<1>2. Web!Weight({}) = 0 /\ Cardinality({}) = 0
  BY NoWeight, FS_EmptySet DEF Web!Weight
<1>3. held[k] = 0 /\ inUse = 0
  BY <1>1, <1>2 DEF Accounts, SlotsAccounted, HeldBy
<1> QED BY <1>3, CapAssumption DEF Admits

LEMMA RefusalStep ==
    ASSUME IInv, [CapsNext]_capsVars,
           (\E r \in Requests : WebRefuses(r)) \/ (\E c \in Calls : McpRefuses(c))
    PROVE  Running # {} \/ Slots # {}
<1>1. \E k \in Clients, w \in 1..Capacity : ~Admits(k, w)
  <2>1. 1 \in 1..Capacity
    BY CapAssumption
  <2> QED BY <2>1, WebRefusal, McpRefusal DEF IInv
<1> QED BY <1>1, AdmittedAlone DEF IInv

\* No call is refused for good: a refusal is of a moment when another call is in
\* flight at one of the doors, whatever the call asks for.
THEOREM NoneRefusedForGood == CapsSpec => RefusedOnlyBesideAnother
<1>1. IInv /\ [CapsNext]_capsVars =>
          [(\E r \in Requests : WebRefuses(r)) \/ (\E c \in Calls : McpRefuses(c))
              => Running # {} \/ Slots # {}]_capsVars
  BY RefusalStep
<1> QED BY <1>1, Initially, Inductive, PTL DEF CapsSpec, RefusedOnlyBesideAnother

-----------------------------------------------------------------------------
(* Who makes a Cap busy.                                                   *)

\* All that is in flight is one client's.
Lone(j) == RunningOf(j) = Running /\ SlotsOf(j) = Slots

LEMMA FiniteImage ==
    /\ IsFiniteSet(Running) => IsFiniteSet({request[r].client : r \in Running})
    /\ IsFiniteSet(Slots) => IsFiniteSet({client[c] : c \in Slots})
<1>1. [r \in Running |-> request[r].client] \in Surjection(Running, {request[r].client : r \in Running})
  BY DEF Surjection
<1>2. [c \in Slots |-> client[c]] \in Surjection(Slots, {client[c] : c \in Slots})
  BY DEF Surjection
<1> QED BY <1>1, <1>2, FS_Surjection

LEMMA TwoHoldersOrOne ==
    ASSUME CallsTyped, RequestsTyped, Running # {} \/ Slots # {}
    PROVE  Cardinality(Holders) > 1 \/ \E j \in Clients : Lone(j)
<1>1. IsFiniteSet(Running) /\ IsFiniteSet(Slots)
  BY WeightFacts, SlotsFinite
<1>2. IsFiniteSet(Holders)
  <2>1. IsFiniteSet({request[r].client : r \in Running}) /\ IsFiniteSet({client[c] : c \in Slots})
    BY <1>1, FiniteImage
  <2> QED BY <2>1, FS_Union DEF Holders
<1>3. Holders \subseteq Clients
  BY RunningHolds DEF Holders, CallsTyped, Running, Web!Running, Slots
<1>4. PICK j : j \in Holders
  BY DEF Holders
<1>5. CASE Holders = {j}
  <2>1. RunningOf(j) = Running
    BY <1>5 DEF RunningOf, Web!RunningOf, Running, Holders
  <2>2. SlotsOf(j) = Slots
    BY <1>5 DEF SlotsOf, Holders
  <2> QED BY <1>3, <1>4, <2>1, <2>2 DEF Lone
<1>6. CASE Holders # {j}
  <2>1. PICK i \in Holders : i # j
    BY <1>4, <1>6
  <2>2. {i, j} \subseteq Holders /\ IsFiniteSet({j}) /\ Cardinality({j}) = 1
    BY <1>4, FS_Singleton
  <2>3. Cardinality({j} \cup {i}) = 2
    BY <2>1, <2>2, FS_AddElement
  <2>4. Cardinality({j} \cup {i}) <= Cardinality(Holders) /\ Cardinality(Holders) \in Nat
    BY <1>2, <1>4, <2>1, FS_Subset, FS_CardinalityType
  <2> QED BY <2>3, <2>4
<1> QED BY <1>5, <1>6

LEMMA BusyBy ==
    ASSUME IInv, Capacity > 1, NEW k \in Clients, NEW w \in 1..Share, held[k] = 0, ~Admits(k, w)
    PROVE  \/ Cardinality(Holders) > 1
           \/ Web!Weight(Running) > Share /\ Cardinality(Running) = 1 /\ Slots = {}
<1>1. Share \in Nat /\ Share >= 1 /\ Capacity \in Nat /\ Share + Share <= Capacity
  <2>1. Capacity \in Nat
    BY CapAssumption
  <2>2. 2 * (Capacity \div 4) <= Capacity
    BY <2>1
  <2>3. 2 * Share <= Capacity
    BY <2>1, <2>2 DEF Share
  <2> QED BY <2>1, <2>3, ShareIsPositive DEF ShareAndCap
<1>2. /\ inUse = Total /\ \A j \in Clients : held[j] = HeldBy(j) /\ (held[j] > Share => CallsOf(j) = 1)
      /\ inUse \in Nat /\ w \in Nat /\ w <= Share
  BY <1>1 DEF IInv, Accounts, SlotsAccounted, SharesKept, Total, CapTyped
<1>3. inUse + w > Capacity
  BY <1>1, <1>2 DEF Admits
<1>4. Running # {} \/ Slots # {}
  <2>1. w \in 1..Capacity
    BY <1>1, <1>2
  <2> QED BY <2>1, AdmittedAlone DEF IInv
<1>5. ASSUME NEW j \in Clients, Lone(j)
      PROVE  Web!Weight(Running) > Share /\ Cardinality(Running) = 1 /\ Slots = {}
  <2>1. HeldBy(j) = Total /\ CallsOf(j) = Cardinality(Running) + Cardinality(Slots)
    BY <1>5 DEF Lone, HeldBy, CallsOf, Total
  <2>2. inUse > Share
    BY <1>1, <1>2, <1>3
  <2>3. Cardinality(Running) + Cardinality(Slots) = 1
    BY <1>2, <2>1, <2>2
  <2>4. /\ Cardinality(Running) \in Nat /\ Web!Weight(Running) \in Nat
        /\ Web!Weight(Running) = 0 <=> Cardinality(Running) = 0
    BY WeightFacts DEF Web!Weight, IInv
  <2>5. Cardinality(Slots) \in Nat
    BY SlotsFinite
  <2>6. Web!Weight(Running) + Cardinality(Slots) > Share
    BY <1>2, <2>2 DEF Total
  <2>7. Cardinality(Slots) = 0
    BY <1>1, <2>3, <2>4, <2>5, <2>6
  <2>8. Slots = {}
    BY <2>7, SlotsFinite, FS_EmptySet
  <2> QED BY <2>3, <2>4, <2>6, <2>7, <2>8
<1> QED BY <1>4, <1>5, TwoHoldersOrOne DEF IInv

LEMMA SmallRefusalStep ==
    ASSUME IInv, [CapsNext]_capsVars, Capacity > 1, NEW k \in Clients, held[k] = 0, SmallRefused(k)
    PROVE  \/ Cardinality(Holders) > 1
           \/ Web!Weight(Running) > Share /\ Cardinality(Running) = 1 /\ Slots = {}
<1>0. Share \in Nat /\ Share >= 1 /\ Capacity \in Nat
  BY ShareIsPositive DEF ShareAndCap
<1>1. ASSUME NEW r \in Requests, WebRefuses(r), request'[r].client = k, request'[r].weight <= Share
      PROVE  \E w \in 1..Share : ~Admits(k, w)
  <2>1. PICK w \in 1..Capacity : ~Admits(k, w) /\ request'[r].weight = w
    BY <1>1, WebRefusal DEF IInv
  <2>2. w \in 1..Share
    BY <1>0, <1>1, <2>1
  <2> QED BY <2>1, <2>2
<1>2. ASSUME NEW c \in Calls, McpRefuses(c), client[c] = k
      PROVE  \E w \in 1..Share : ~Admits(k, w)
  <2>1. ~Admits(k, 1) /\ 1 \in 1..Share
    BY <1>0, <1>2, McpRefusal DEF IInv
  <2> QED BY <2>1
<1>3. \E w \in 1..Share : ~Admits(k, w)
  BY <1>1, <1>2 DEF SmallRefused
<1> QED BY <1>3, BusyBy

\* One client cannot make everyone busy, at any Cap of more than one slot: at a Cap
\* of one slot the share is all of it, and whoever is in makes the others wait.
THEOREM OneClientNeverFillsIt ==
    ASSUME Capacity > 1
    PROVE  CapsSpec => NotBusyByOneClient
<1>1. IInv /\ [CapsNext]_capsVars =>
          [\A k \in Clients :
              held[k] = 0 /\ SmallRefused(k) =>
                  \/ Cardinality(Holders) > 1
                  \/ Web!Weight(Running) > Share /\ Cardinality(Running) = 1 /\ Slots = {}]_capsVars
  BY SmallRefusalStep
<1> QED BY <1>1, Initially, Inductive, PTL DEF CapsSpec, NotBusyByOneClient

-----------------------------------------------------------------------------
(* The status.                                                             *)

\* Nothing is returned nor judged before the tool is, and only a client that
\* hung up has its call cancelled.
Honest(c) ==
    /\ at[c] \in {"limiting", "acquiring", "running"} => result[c] = "none"
    /\ at[c] \in {"limiting", "acquiring", "running", "returned"} => got[c] = 200
    /\ at[c] = "returned" => result[c] \in Results
    /\ ctx[c] = "cancelled" => gone[c]
    /\ got[c] = 499 => ctx[c] = "cancelled"
    /\ got[c] = 504 => ctx[c] = "deadline"
    /\ at[c] \in {"releasing", "recording", "idle"} => (got[c] = 500 <=> result[c] \in {"panic", "unusable"})

StatusInv == \A c \in Calls : Honest(c)

\* The other calls' middleware is not disturbed.
LEMMA HonestFrame ==
    ASSUME NEW c \in Calls, Honest(c), at'[c] = at[c], result'[c] = result[c], got'[c] = got[c],
           ctx'[c] = ctx[c], gone'[c] = gone[c]
    PROVE  Honest(c)'
BY DEF Honest

\* A step of a call is its own.
LEMMA OwnStep ==
    ASSUME CallsTyped, NEW c \in Calls,
           \/ \E k \in Clients, s \in Specs : Receive(c, k, s)
           \/ Serve(c) \/ Deadline(c) \/ HangUp(c) \/ CancelGone(c)
           \/ \E r \in Results : Return(c, r)
    PROVE  \A d \in Calls \ {c} : /\ at'[d] = at[d] /\ result'[d] = result[d] /\ got'[d] = got[d]
                                  /\ ctx'[d] = ctx[d] /\ gone'[d] = gone[d]
<1>1. CASE \E k \in Clients, s \in Specs : Receive(c, k, s)
  BY <1>1 DEF Receive, Move, Status, CallsTyped
<1>2. CASE Allow(c) \/ Limit(c) \/ TakeSlot(c) \/ Busy(c)
  BY <1>2 DEF Allow, Limit, TakeSlot, Busy, Move, Status, CallsTyped
<1>3. CASE Judge(c) \/ GiveBack(c) \/ Record(c)
  BY <1>3 DEF Judge, GiveBack, Record, Move, Status, CallsTyped
<1>4. CASE Deadline(c) \/ HangUp(c) \/ CancelGone(c)
  BY <1>4 DEF Deadline, HangUp, CancelGone, CallsTyped
<1>5. CASE \E r \in Results : Return(c, r)
  BY <1>5 DEF Return, Move, CallsTyped
<1> QED BY <1>1, <1>2, <1>3, <1>4, <1>5 DEF Serve

LEMMA VerdictIsHonest ==
    ASSUME NEW r \in Results, NEW over \in {"live", "deadline", "cancelled"}
    PROVE  /\ Verdict(r, over) = 499 => over = "cancelled"
           /\ Verdict(r, over) = 504 => over = "deadline"
           /\ Verdict(r, over) = 500 <=> r \in {"panic", "unusable"}
BY DEF Verdict, Results

LEMMA HonestStep ==
    ASSUME CallsTyped, StatusInv, [Next]_vars
    PROVE  StatusInv'
<1>1. ASSUME NEW c \in Calls, Honest(c)',
             \A d \in Calls \ {c} : /\ at'[d] = at[d] /\ result'[d] = result[d] /\ got'[d] = got[d]
                                    /\ ctx'[d] = ctx[d] /\ gone'[d] = gone[d]
      PROVE  StatusInv'
  <2> SUFFICES ASSUME NEW d \in Calls PROVE Honest(d)'
    BY DEF StatusInv
  <2>1. d # c => Honest(d)'
    BY <1>1, HonestFrame DEF StatusInv
  <2> QED BY <1>1, <2>1
<1>2. ASSUME NEW c \in Calls PROVE Honest(c)
  BY DEF StatusInv
<1>3. ASSUME NEW c \in Calls, NEW k \in Clients, NEW s \in Specs, Receive(c, k, s) PROVE StatusInv'
  <2>1. at'[c] = "limiting" /\ result'[c] = "none" /\ got'[c] = 200 /\ ctx'[c] = "live"
    BY <1>3 DEF Receive, Move, Status, CallsTyped
  <2>2. Honest(c)'
    BY <2>1 DEF Honest
  <2> QED BY <1>1, <1>3, <2>2, OwnStep
<1>4. ASSUME NEW c \in Calls, Allow(c) \/ TakeSlot(c) \/ GiveBack(c) \/ Record(c) PROVE StatusInv'
  <2>1. /\ result'[c] = result[c] /\ got'[c] = got[c] /\ ctx'[c] = ctx[c] /\ gone'[c] = gone[c]
        /\ \/ at[c] = "limiting" /\ at'[c] = "acquiring"
           \/ at[c] = "acquiring" /\ at'[c] = "running"
           \/ at[c] = "releasing" /\ at'[c] = "recording"
           \/ at[c] = "recording" /\ at'[c] = "idle"
    BY <1>4 DEF Allow, TakeSlot, GiveBack, Record, Move, CallsTyped
  <2>2. Honest(c)'
    BY <1>2, <2>1 DEF Honest
  <2> QED BY <1>1, <1>4, <2>2, OwnStep DEF Serve
<1>5. ASSUME NEW c \in Calls, Limit(c) \/ Busy(c) PROVE StatusInv'
  <2>1. /\ at[c] \in {"limiting", "acquiring"} /\ at'[c] = "recording" /\ got'[c] \in {429, 503}
        /\ result'[c] = result[c] /\ ctx'[c] = ctx[c] /\ gone'[c] = gone[c]
    BY <1>5 DEF Limit, Busy, Move, Status, CallsTyped
  <2>2. Honest(c)'
    BY <1>2, <2>1 DEF Honest
  <2> QED BY <1>1, <1>5, <2>2, OwnStep DEF Serve
<1>6. ASSUME NEW c \in Calls, NEW r \in Results, Return(c, r) PROVE StatusInv'
  <2>1. /\ at[c] = "running" /\ at'[c] = "returned"
        /\ result'[c] = r /\ got'[c] = got[c] /\ ctx'[c] = ctx[c] /\ gone'[c] = gone[c]
    BY <1>6 DEF Return, Move, CallsTyped
  <2>2. Honest(c)'
    BY <1>2, <2>1 DEF Honest
  <2> QED BY <1>1, <1>6, <2>2, OwnStep
<1>7. ASSUME NEW c \in Calls, Judge(c) PROVE StatusInv'
  <2>0. result[c] \in Results
    BY <1>2, <1>7 DEF Honest, Judge, Move
  <2>1. /\ at'[c] = "releasing" /\ got'[c] = Verdict(result[c], ctx[c])
        /\ result'[c] = result[c] /\ ctx'[c] = ctx[c] /\ gone'[c] = gone[c]
        /\ ctx[c] \in {"live", "deadline", "cancelled"}
    BY <1>7 DEF Judge, Move, Status, CallsTyped
  <2>2. Honest(c)'
    BY <1>2, <2>0, <2>1, VerdictIsHonest DEF Honest
  <2> QED BY <1>1, <1>7, <2>2, OwnStep DEF Serve
<1>8. ASSUME NEW c \in Calls, Deadline(c) \/ HangUp(c) \/ CancelGone(c) PROVE StatusInv'
  <2>1. /\ at'[c] = at[c] /\ result'[c] = result[c] /\ got'[c] = got[c]
        /\ \/ ctx[c] = "live" /\ ctx'[c] = "deadline" /\ gone'[c] = gone[c]
           \/ ctx'[c] = ctx[c] /\ gone'[c] = TRUE
           \/ ctx[c] = "live" /\ ctx'[c] = "cancelled" /\ gone'[c] = TRUE
    BY <1>8 DEF Deadline, HangUp, CancelGone, CallsTyped
  <2>2. Honest(c)'
    BY <1>2, <2>1 DEF Honest
  <2> QED BY <1>1, <1>8, <2>2, OwnStep
<1>9. CASE UNCHANGED vars
  BY <1>9 DEF vars, StatusInv, Honest
<1> QED BY <1>3, <1>4, <1>5, <1>6, <1>7, <1>8, <1>9 DEF Next, Serve

\* In the beginning nothing has been judged.
LEMMA HonestAtFirst ==
    ASSUME CapsInit
    PROVE  StatusInv
BY DEF CapsInit, Init, StatusInv, Honest

\* The web door leaves the messages alone.
LEMMA HonestCapsStep ==
    ASSUME CallsTyped, StatusInv, [CapsNext]_capsVars
    PROVE  StatusInv'
<1>1. CASE [Next]_vars
  BY <1>1, HonestStep
<1>2. CASE UNCHANGED <<at, info, ctx, gone, result, got>>
  BY <1>2 DEF StatusInv, Honest
<1> QED BY <1>1, <1>2 DEF CapsNext, capsVars

LEMMA StatusInvSays ==
    ASSUME CallsTyped, StatusInv
    PROVE  StatusHonest
<1> SUFFICES ASSUME NEW c \in Calls
             PROVE  /\ got[c] = 499 => gone[c] /\ ctx[c] = "cancelled"
                    /\ got[c] = 504 => ctx[c] = "deadline"
                    /\ got[c] = 500 <=> at[c] \in {"releasing", "recording", "idle"}
                                        /\ result[c] \in {"panic", "unusable"}
  BY DEF StatusHonest
<1>1. Honest(c)
  BY DEF StatusInv
<1>2. at[c] \in {"idle", "limiting", "acquiring", "running", "returned", "releasing", "recording"}
  BY DEF CallsTyped
<1> QED BY <1>1, <1>2 DEF Honest

\* The log never blames a client that stayed nor a deadline that did not pass
\* first, and 500 is what a panicking tool and an answer that cannot be encoded
\* get, in every state of any number of calls.
THEOREM StatusAlwaysHonest == CapsSpec => []StatusHonest
<1>1. CapsInit => IInv /\ StatusInv
  BY Initially, HonestAtFirst
<1>2. IInv /\ StatusInv /\ [CapsNext]_capsVars => IInv' /\ StatusInv'
  BY Inductive, HonestCapsStep DEF IInv
<1>3. IInv /\ StatusInv => StatusHonest
  BY StatusInvSays DEF IInv
<1> QED BY <1>1, <1>2, <1>3, PTL DEF CapsSpec
=============================================================================
