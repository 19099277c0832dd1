------------------------ MODULE ServingExecutorProofs ------------------------
(***************************************************************************)
(* For any plan, any number of requests, any stream of any length and any   *)
(* server: a run leaves no request behind, the trial it returns reconciles, *)
(* the incremental parser accepts exactly the responses of the dialect, and *)
(* a completion counts as valid exactly if its stream earned it.            *)
(***************************************************************************)
EXTENDS ServingExecutor, FiniteSetTheorems, TLAPS

-----------------------------------------------------------------------------
(* Sums over finite sets. *)

LEMMA LeastNumber ==
    ASSUME NEW T \in SUBSET Nat, T # {}
    PROVE  \E n \in T : \A m \in T : n <= m
<1>1. PICK n \in T : \A m \in T : ~(<<m, n>> \in OpToRel(<, Nat))
  BY WFMin, NatLessThanWellFounded
<1>2. ASSUME NEW m \in T, ~(n <= m) PROVE FALSE
  <2>1. m \in Nat /\ n \in Nat /\ m < n
    BY <1>2
  <2>2. <<m, n>> \in OpToRel(<, Nat)
    BY <2>1 DEF OpToRel
  <2> QED
    BY <1>1, <2>2
<1> QED
  BY <1>2

\* Of the parts of a finite set that have a property, one has the fewest
\* elements; without any of its elements it has it no more.
LEMMA SmallestPart ==
    ASSUME NEW S, IsFiniteSet(S), NEW Parts \in SUBSET SUBSET S, Parts # {}
    PROVE  \E s \in Parts : IsFiniteSet(s) /\ \A x \in s : s \ {x} \notin Parts
<1> DEFINE Sizes == {Cardinality(s) : s \in Parts}
<1>1. \A s \in Parts : IsFiniteSet(s) /\ Cardinality(s) \in Nat
  BY FS_Subset, FS_CardinalityType
<1>2. Sizes \in SUBSET Nat /\ Sizes # {}
  BY <1>1
<1>3. PICK n \in Sizes : \A m \in Sizes : n <= m
  <2> HIDE DEF Sizes
  <2> QED
    BY <1>2, LeastNumber
<1>4. PICK s \in Parts : n = Cardinality(s)
  OBVIOUS
<1>5. ASSUME NEW x \in s, s \ {x} \in Parts PROVE FALSE
  <2>1. Cardinality(s \ {x}) = Cardinality(s) - 1
    BY <1>1, FS_RemoveElement
  <2>2. n <= Cardinality(s \ {x})
    BY <1>3, <1>5
  <2> QED
    BY <1>1, <1>4, <2>1, <2>2
<1> QED
  BY <1>1, <1>5

\* The sum of f over the parts of S, as the fold takes it.
First(s) == CHOOSE x \in s : TRUE
SumOf(f, h, s) == IF s = {} THEN 0 ELSE f[First(s)] + h[s \ {First(s)}]
IsSum(f, S, h) == h = [s \in SUBSET S |-> SumOf(f, h, s)]

LEMMA SumExists ==
    ASSUME NEW f, NEW S, IsFiniteSet(S)
    PROVE  \E h : IsSum(f, S, h)
<1> DEFINE Small(n) == {s \in SUBSET S : Cardinality(s) <= n}
           Sums(n, h) == \A s \in Small(n) : h[s] = SumOf(f, h, s)
           Unsummed == {n \in Nat : ~\E h : Sums(n, h)}
<1>1. \A s \in SUBSET S : IsFiniteSet(s) /\ Cardinality(s) \in Nat
  BY FS_Subset, FS_CardinalityType
<1>2. \A s \in SUBSET S : s # {} =>
          First(s) \in s /\ s \ {First(s)} \in SUBSET S
          /\ Cardinality(s \ {First(s)}) = Cardinality(s) - 1
  BY <1>1, FS_RemoveElement DEF First
<1>3. Unsummed = {}
  <2> SUFFICES ASSUME Unsummed # {} PROVE FALSE
    OBVIOUS
  <2>1. PICK n \in Unsummed : \A m \in Unsummed : n <= m
    <3>1. Unsummed \in SUBSET Nat
      OBVIOUS
    <3> HIDE DEF Unsummed
    <3> QED
      BY <3>1, LeastNumber
  <2>2. CASE n = 0
    <3> DEFINE h == [s \in {{}} |-> 0]
    <3>1. \A s \in Small(0) : s = {}
      BY <1>1, FS_EmptySet
    <3>2. h[{}] = SumOf(f, h, {})
      BY DEF SumOf
    <3> HIDE DEF h
    <3>3. Sums(0, h)
      BY <3>1, <3>2
    <3> QED
      BY <2>2, <3>3
  <2>3. CASE n # 0
    <3>1. n \in Nat /\ n - 1 \in Nat /\ n - 1 \notin Unsummed
      BY <2>1, <2>3
    <3>2. PICK h : Sums(n - 1, h)
      BY <3>1
    <3> DEFINE g == [s \in SUBSET S |-> IF Cardinality(s) = n THEN SumOf(f, h, s) ELSE h[s]]
    <3>3. ASSUME NEW s \in Small(n) PROVE g[s] = SumOf(f, h, s)
      <4>1. CASE Cardinality(s) = n
        BY <4>1
      <4>2. CASE Cardinality(s) # n
        <5>1. s \in Small(n - 1) /\ g[s] = h[s]
          BY <1>1, <3>1, <4>2
        <5> HIDE DEF g
        <5> QED
          BY <3>2, <5>1
      <4> QED
        BY <4>1, <4>2
    <3>4. ASSUME NEW s \in Small(n) PROVE SumOf(f, g, s) = SumOf(f, h, s)
      <4>1. CASE s # {}
        <5>1. s \ {First(s)} \in SUBSET S /\ Cardinality(s \ {First(s)}) < n
          BY <1>1, <1>2, <3>1, <4>1
        <5>2. g[s \ {First(s)}] = h[s \ {First(s)}]
          BY <3>1, <5>1
        <5> HIDE DEF g
        <5> QED
          BY <5>2 DEF SumOf
      <4> QED
        BY <4>1 DEF SumOf
    <3> HIDE DEF g
    <3>5. Sums(n, g)
      BY <3>3, <3>4
    <3> QED
      BY <3>5
  <2> QED
    BY <2>2, <2>3
<1>4. PICK h : Sums(Cardinality(S), h)
  BY <1>1, <1>3
<1> DEFINE g == [s \in SUBSET S |-> h[s]]
<1>5. ASSUME NEW s \in SUBSET S PROVE g[s] = SumOf(f, g, s)
  <2>1. s \in Small(Cardinality(S))
    BY FS_Subset
  <2>2. h[s] = SumOf(f, h, s) /\ g[s] = h[s]
    BY <1>4, <2>1
  <2>3. SumOf(f, g, s) = SumOf(f, h, s)
    <3>1. CASE s # {}
      <4>1. g[s \ {First(s)}] = h[s \ {First(s)}]
        BY <1>2, <3>1
      <4> HIDE DEF g
      <4> QED
        BY <4>1 DEF SumOf
    <3> QED
      BY <3>1 DEF SumOf
  <2> QED
    BY <2>2, <2>3
<1>6. DOMAIN g = SUBSET S /\ g = [s \in SUBSET S |-> g[s]]
  OBVIOUS
<1> HIDE DEF g
<1>7. IsSum(f, S, g)
  BY <1>5, <1>6 DEF IsSum
<1> QED
  BY <1>7

\* The fold's value is that of a function that sums over all parts.
Summing(f, S, h) == \A s \in SUBSET S : h[s] = SumOf(f, h, s)

LEMMA TotalIs ==
    ASSUME NEW f, NEW S, IsFiniteSet(S)
    PROVE  \E h : Total(f, S) = h[S] /\ Summing(f, S, h)
<1>1. PICK h : h = CHOOSE g : IsSum(f, S, g)
  OBVIOUS
<1>2. IsSum(f, S, h)
  BY <1>1, SumExists
<1>3. Total(f, S) = (CHOOSE g : IsSum(f, S, g))[S]
  BY DEF Total, FoldFunctionOnSet, MapThenFoldSet, IsSum, SumOf, First
<1>4. Summing(f, S, h)
  BY <1>2 DEF IsSum, Summing
<1> QED
  BY <1>1, <1>3, <1>4

\* The sum of a constant.
LEMMA TotalConstant ==
    ASSUME NEW f, NEW S, IsFiniteSet(S), NEW c \in Int, \A x \in S : f[x] = c
    PROVE  Total(f, S) = Cardinality(S) * c
<1>1. PICK h : Total(f, S) = h[S] /\ Summing(f, S, h)
  BY ONLY IsFiniteSet(S), TotalIs
<1> DEFINE Parts == {s \in SUBSET S : h[s] # Cardinality(s) * c}
<1>2. Parts = {}
  <2> SUFFICES ASSUME Parts # {} PROVE FALSE
    OBVIOUS
  <2>1. PICK s \in Parts : IsFiniteSet(s) /\ \A x \in s : s \ {x} \notin Parts
    <3>1. Parts \in SUBSET SUBSET S
      OBVIOUS
    <3> HIDE DEF Parts
    <3> QED
      BY <3>1, SmallestPart
  <2>2. CASE s = {}
    <3>1. h[s] = 0 /\ Cardinality(s) = 0
      BY <1>1, <2>2, FS_EmptySet DEF Summing, SumOf
    <3> QED
      BY <3>1
  <2>3. CASE s # {}
    <3>1. PICK x : x = First(s)
      OBVIOUS
    <3>2. x \in s /\ h[s] = f[x] + h[s \ {x}] /\ f[x] = c
      BY <1>1, <2>3, <3>1 DEF Summing, SumOf, First
    <3>3. PICK n \in Nat : n = Cardinality(s)
      BY <2>1, FS_CardinalityType
    <3>4. Cardinality(s \ {x}) = n - 1
      BY <2>1, <3>2, <3>3, FS_RemoveElement
    <3>5. h[s \ {x}] = (n - 1) * c
      BY <2>1, <3>2, <3>4
    <3>6. c + (n - 1) * c = n * c
      BY ONLY <3>3, c \in Int
    <3> QED
      BY <3>2, <3>3, <3>5, <3>6
  <2> QED
    BY <2>2, <2>3
<1> QED
  BY <1>1, <1>2

\* Counting under every class counts each element that has one.
LEMMA TotalCovers ==
    ASSUME NEW M, IsFiniteSet(M), NEW K, NEW D, IsFiniteSet(D),
           NEW f, \A c \in D : f[c] = Cardinality({r \in M : c \in K[r]})
    PROVE  /\ Total(f, D) \in Nat
           /\ Total(f, D) >= Cardinality({r \in M : K[r] \cap D # {}})
<1>1. PICK h : Total(f, D) = h[D] /\ Summing(f, D, h)
  BY ONLY IsFiniteSet(D), TotalIs
<1> DEFINE Met(s) == {r \in M : K[r] \cap s # {}}
           Of(c) == {r \in M : c \in K[r]}
           Parts == {s \in SUBSET D : ~(h[s] \in Nat /\ h[s] >= Cardinality(Met(s)))}
<1>2. ASSUME NEW s PROVE IsFiniteSet(Met(s)) /\ Cardinality(Met(s)) \in Nat
  BY FS_Subset, FS_CardinalityType
<1>3. ASSUME NEW c PROVE IsFiniteSet(Of(c)) /\ Cardinality(Of(c)) \in Nat
  BY FS_Subset, FS_CardinalityType
<1>4. Parts = {}
  <2> SUFFICES ASSUME Parts # {} PROVE FALSE
    OBVIOUS
  <2>1. PICK s \in Parts : IsFiniteSet(s) /\ \A x \in s : s \ {x} \notin Parts
    <3>1. Parts \in SUBSET SUBSET D
      OBVIOUS
    <3> HIDE DEF Parts
    <3> QED
      BY <3>1, SmallestPart
  <2>2. CASE s = {}
    <3>1. h[s] = 0 /\ Met(s) = {}
      BY <1>1, <2>2 DEF Summing, SumOf
    <3>2. Cardinality(Met(s)) = 0
      BY <3>1, FS_EmptySet
    <3> QED
      BY <3>1, <3>2
  <2>3. CASE s # {}
    <3>1. PICK x : x = First(s)
      OBVIOUS
    <3>2. x \in s /\ x \in D /\ h[s] = f[x] + h[s \ {x}] /\ f[x] = Cardinality(Of(x))
      BY <1>1, <2>3, <3>1 DEF Summing, SumOf, First
    <3>3. PICK t : t = s \ {x}
      OBVIOUS
    <3>4. h[t] \in Nat /\ h[t] >= Cardinality(Met(t))
      BY <2>1, <3>2, <3>3
    <3>5. Met(s) = Of(x) \cup Met(t)
      BY <3>2, <3>3
    <3> HIDE DEF Met, Of
    <3>6. Cardinality(Met(s)) <= Cardinality(Of(x)) + Cardinality(Met(t))
      <4>1. IsFiniteSet(Of(x) \cap Met(t))
        BY <1>2, FS_Intersection
      <4>2. Cardinality(Of(x) \cap Met(t)) \in Nat
        BY <4>1, FS_CardinalityType
      <4>3. Cardinality(Of(x) \cup Met(t)) =
              Cardinality(Of(x)) + Cardinality(Met(t)) - Cardinality(Of(x) \cap Met(t))
        BY <1>2, <1>3, FS_Union
      <4> QED
        BY <1>2, <1>3, <3>5, <4>2, <4>3
    <3>7. Cardinality(Of(x)) \in Nat /\ Cardinality(Met(t)) \in Nat /\ Cardinality(Met(s)) \in Nat
      BY <1>2, <1>3
    <3> QED
      BY <3>2, <3>3, <3>4, <3>6, <3>7
  <2> QED
    BY <2>2, <2>3
<1> QED
  BY <1>1, <1>4

-----------------------------------------------------------------------------
(* The requests of a run. *)

States == {"idle", "queued", "asked", "reading", "done", "raised"}
Errors == {"unanswered", "request_failed", "timeout", "token_count_disagreement"}
Observed(o) == (\E p : o = completed(p)) \/ (\E e \in Errors : o = failed_observation(e))

TypeOK ==
    /\ plan \in Plans /\ phase \in {"warmup", "measured", "returned", "raised"}
    /\ pc \in [Requests -> States]
    /\ obs = [r \in Requests |-> obs[r]] /\ \A r \in Requests : Observed(obs[r])

\* The warmups come one after another, each after a good one; so do the measured
\* requests of a sequential run, each after one that has ended well.
InOrder ==
    /\ \A r \in Requests \ (Warmup \cup Measured) : pc[r] = "idle"
    /\ \A r \in Warmup : pc[r] # "idle" =>
          \A q \in Requests : q < r => pc[q] = "done" /\ obs[q].wire
    /\ phase = "warmup" => \A r \in Measured : pc[r] = "idle"
    /\ phase \in {"measured", "returned"} => \A r \in Warmup : pc[r] = "done"
    /\ plan.mode = "sequential" => \A r \in Measured : pc[r] # "idle" =>
          \A q \in Requests : q < r => pc[q] = "done"

\* What was returned is the reduction of the requests, all of them done.
TrialInv ==
    phase = "returned" => trial = reduce_trial /\ \A r \in Measured : pc[r] = "done"

IndInv == TypeOK /\ InOrder /\ NothingOutlivesRun /\ TrialInv

LEMMA PlanRequests ==
    ASSUME TypeOK
    PROVE  /\ plan.warmups \in Nat /\ plan.count \in Nat \ {0} /\ MaxRequests \in Nat
           /\ Warmup \subseteq Requests /\ Measured \subseteq Requests
           /\ Warmup \cap Measured = {}
           /\ \A r \in Warmup, q \in Requests : q < r => q \in Warmup
<1>1. /\ plan.warmups \in Nat /\ plan.count \in Nat \ {0} /\ MaxRequests \in Nat
      /\ plan.warmups + plan.count <= MaxRequests
  BY PlansAssumption DEF TypeOK
<1> QED
  BY <1>1 DEF Warmup, Measured, Requests

\* A step of one request: handed over, or under way before and nothing else
\* touched.
Moves(r) ==
    /\ pc[r] \in {"queued", "asked", "reading"}
    /\ UNCHANGED <<plan, phase, trial>>
    /\ \E v \in {"asked", "reading", "done", "raised"} : pc' = [pc EXCEPT ![r] = v]
    /\ \E o : Observed(o) /\ obs' = [obs EXCEPT ![r] = o]

LEMMA Failing ==
    ASSUME TypeOK, NEW r \in Requests, NEW error \in Errors, Fail(r, error)
    PROVE  /\ \E v \in {"done", "raised"} : pc' = [pc EXCEPT ![r] = v]
           /\ \E o : Observed(o) /\ obs' = [obs EXCEPT ![r] = o]
BY DEF Fail, Observed

LEMMA Requesting ==
    ASSUME TypeOK, NEW r \in Requests,
           \/ Start(r) \/ PromptFails(r) \/ BadHead(r) \/ GoodHead(r) \/ Close(r) \/ Read(r)
           \/ Finish(r) \/ Timeout(r) \/ ConnectionBreaks(r) \/ CountFails(r)
           \/ \E k \in Pieces : Send(r, k)
    PROVE  Moves(r)
<1>1. ASSUME UNCHANGED obs PROVE \E o : Observed(o) /\ obs' = [obs EXCEPT ![r] = o]
  <2>1. Observed(obs[r]) /\ obs = [obs EXCEPT ![r] = obs[r]]
    BY DEF TypeOK
  <2> QED
    BY <1>1, <2>1
<1>2. ASSUME UNCHANGED pc, pc[r] = "reading"
      PROVE  \E v \in {"asked", "reading", "done", "raised"} : pc' = [pc EXCEPT ![r] = v]
  <2>1. pc = [pc EXCEPT ![r] = "reading"]
    BY <1>2 DEF TypeOK
  <2> QED
    BY <1>2, <2>1
<1> USE DEF Errors
<1>3. CASE Start(r)
  BY <1>1, <1>3 DEF Start, Moves
<1>4. CASE PromptFails(r)
  BY <1>1, <1>4 DEF PromptFails, Moves
<1>5. CASE BadHead(r)
  BY <1>5, Failing DEF BadHead, Moves
<1>6. CASE GoodHead(r)
  BY <1>1, <1>6 DEF GoodHead, Moves
<1>7. CASE Close(r) \/ \E k \in Pieces : Send(r, k)
  <2>1. pc[r] = "reading" /\ UNCHANGED <<plan, phase, pc, obs, trial>>
    BY <1>7 DEF Close, Send
  <2> QED
    BY <1>1, <1>2, <2>1 DEF Moves
<1>8. CASE Read(r)
  <2>1. /\ pc[r] = "reading" /\ UNCHANGED <<plan, phase, trial>>
        /\ Fail(r, "request_failed") \/ UNCHANGED <<pc, obs>>
    BY <1>8 DEF Read
  <2>2. CASE Fail(r, "request_failed")
    BY <2>1, <2>2, Failing DEF Moves
  <2>3. CASE UNCHANGED <<pc, obs>>
    BY <1>1, <1>2, <2>1, <2>3 DEF Moves
  <2> QED
    BY <2>1, <2>2, <2>3
<1>9. CASE Finish(r)
  <2>1. PICK o : o = completed(parser[r])
    OBVIOUS
  <2>2. /\ pc[r] = "reading" /\ UNCHANGED <<plan, phase, trial>>
        /\ \/ Fail(r, "request_failed") \/ Fail(r, "token_count_disagreement")
           \/ obs' = [obs EXCEPT ![r] = o] /\ pc' = [pc EXCEPT ![r] = "done"]
    BY <1>9, <2>1 DEF Finish
  <2>3. Observed(o)
    BY <2>1 DEF Observed
  <2>4. CASE Fail(r, "request_failed") \/ Fail(r, "token_count_disagreement")
    BY <2>2, <2>4, Failing DEF Moves
  <2>5. CASE obs' = [obs EXCEPT ![r] = o] /\ pc' = [pc EXCEPT ![r] = "done"]
    BY <2>2, <2>3, <2>5 DEF Moves
  <2> QED
    BY <2>2, <2>4, <2>5
<1>10. CASE Timeout(r)
  <2>1. /\ pc[r] \in {"asked", "reading"} /\ UNCHANGED <<plan, phase, trial>>
        /\ Fail(r, "timeout")
    BY <1>10 DEF Timeout
  <2> QED
    BY <2>1, Failing DEF Moves
<1>11. CASE ConnectionBreaks(r) \/ CountFails(r)
  <2>1. /\ pc[r] = "reading" /\ UNCHANGED <<plan, phase, trial>>
        /\ Fail(r, "request_failed")
    BY <1>11 DEF ConnectionBreaks, CountFails
  <2> QED
    BY <2>1, Failing DEF Moves
<1> QED
  BY <1>3, <1>4, <1>5, <1>6, <1>7, <1>8, <1>9, <1>10, <1>11

LEMMA MovesKeeps ==
    ASSUME IndInv, NEW r \in Requests, Moves(r)
    PROVE  IndInv'
<1>1. PICK v \in {"asked", "reading", "done", "raised"} : pc' = [pc EXCEPT ![r] = v]
  BY DEF Moves
<1>2. PICK o : Observed(o) /\ obs' = [obs EXCEPT ![r] = o]
  BY DEF Moves
<1>3. /\ pc \in [Requests -> States] /\ DOMAIN obs = Requests
      /\ pc[r] \in {"queued", "asked", "reading"} /\ UNCHANGED <<plan, phase, trial>>
  BY DEF IndInv, TypeOK, Moves
<1>4. /\ pc'[r] = v /\ \A q \in Requests : q # r => pc'[q] = pc[q] /\ obs'[q] = obs[q]
      /\ pc' \in [Requests -> States] /\ DOMAIN obs' = Requests /\ obs'[r] = o
  BY <1>1, <1>2, <1>3 DEF States
<1>5. /\ Warmup' = Warmup /\ Measured' = Measured /\ Warmup \subseteq Requests
      /\ Measured \subseteq Requests /\ phase \notin {"returned", "raised"}
  BY <1>3, PlanRequests DEF IndInv, NothingOutlivesRun, Ended, Warmup, Measured
<1>6. TypeOK'
  BY <1>2, <1>3, <1>4 DEF IndInv, TypeOK
<1>7. /\ \A q \in Requests : pc[q] = "done" => pc'[q] = "done" /\ obs'[q] = obs[q]
      /\ \A q \in Requests : pc[q] = "idle" <=> pc'[q] = "idle"
  BY <1>1, <1>3, <1>4
<1>8. InOrder'
  <2>1. InOrder
    BY DEF IndInv
  <2> QED
    BY <1>3, <1>5, <1>7, <2>1 DEF InOrder
<1>9. NothingOutlivesRun' /\ TrialInv'
  BY <1>3, <1>5 DEF NothingOutlivesRun, TrialInv
<1> QED
  BY <1>6, <1>8, <1>9 DEF IndInv

LEMMA SubmitKeeps ==
    ASSUME IndInv, NEW r \in Requests, Submit(r)
    PROVE  IndInv'
<1>1. /\ pc' = [pc EXCEPT ![r] = "queued"] /\ pc[r] = "idle"
      /\ UNCHANGED <<plan, phase, obs, trial>> /\ phase \in {"warmup", "measured"}
      /\ r \in IF phase = "warmup" THEN Warmup ELSE Measured
      /\ phase = "warmup" \/ plan.mode = "sequential" =>
            \A q \in Requests : q < r => pc[q] = "done"
      /\ phase = "warmup" => \A q \in Warmup : q < r => obs[q].wire
  BY DEF Submit
<1>2. /\ pc \in [Requests -> States] /\ Warmup' = Warmup /\ Measured' = Measured
      /\ Warmup \subseteq Requests /\ Measured \subseteq Requests /\ Warmup \cap Measured = {}
      /\ \A x \in Warmup, q \in Requests : q < x => q \in Warmup
  BY <1>1, PlanRequests DEF IndInv, TypeOK, Warmup, Measured
<1>3. /\ pc' \in [Requests -> States] /\ pc'[r] = "queued"
      /\ \A q \in Requests : q # r => pc'[q] = pc[q]
  BY <1>1, <1>2 DEF States
<1>4. TypeOK'
  BY <1>1, <1>3 DEF IndInv, TypeOK
<1>5. InOrder
  BY DEF IndInv
<1>6. \A q \in Requests : pc[q] = "done" => pc'[q] = "done"
  BY <1>1, <1>3
<1>7. InOrder'
  <2>1. \A x \in Requests \ (Warmup \cup Measured) : pc'[x] = "idle"
    BY <1>1, <1>3, <1>5 DEF InOrder
  <2>2. ASSUME NEW x \in Warmup, pc'[x] # "idle", NEW q \in Requests, q < x
        PROVE  pc'[q] = "done" /\ obs'[q].wire
    <3>1. CASE x = r
      BY <1>1, <1>2, <1>6, <2>2, <3>1
    <3>2. CASE x # r
      BY <1>1, <1>2, <1>3, <1>5, <1>6, <2>2, <3>2 DEF InOrder
    <3> QED
      BY <3>1, <3>2
  <2>3. phase' = "warmup" => \A x \in Measured : pc'[x] = "idle"
    BY <1>1, <1>2, <1>3, <1>5 DEF InOrder
  <2>4. phase' \in {"measured", "returned"} => \A x \in Warmup : pc'[x] = "done"
    BY <1>1, <1>2, <1>5, <1>6 DEF InOrder
  <2>5. ASSUME plan.mode = "sequential", NEW x \in Measured, pc'[x] # "idle",
               NEW q \in Requests, q < x
        PROVE  pc'[q] = "done"
    <3>1. CASE x = r
      BY <1>1, <1>6, <2>5, <3>1
    <3>2. CASE x # r
      BY <1>2, <1>3, <1>5, <1>6, <2>5, <3>2 DEF InOrder
    <3> QED
      BY <3>1, <3>2
  <2> QED
    BY <1>1, <1>2, <2>1, <2>2, <2>3, <2>4, <2>5 DEF InOrder
<1>8. NothingOutlivesRun' /\ TrialInv'
  BY <1>1 DEF NothingOutlivesRun, TrialInv
<1> QED
  BY <1>4, <1>7, <1>8 DEF IndInv

LEMMA LeaveWarmupKeeps ==
    ASSUME IndInv, LeaveWarmup
    PROVE  IndInv'
<1>1. phase = "warmup" /\ UNCHANGED <<plan, pc, obs, trial>>
  BY DEF LeaveWarmup, reqVars
<1>2. /\ pc \in [Requests -> States] /\ Warmup' = Warmup /\ Measured' = Measured /\ InOrder
      /\ Warmup \subseteq Requests /\ Requests \subseteq Nat
  BY <1>1, PlanRequests DEF IndInv, TypeOK, Warmup, Measured, Requests
<1>3. CASE phase' = "measured" /\ \A r \in Warmup : pc[r] = "done"
  <2>1. InOrder' /\ NothingOutlivesRun' /\ TrialInv'
    BY <1>1, <1>2, <1>3 DEF InOrder, NothingOutlivesRun, TrialInv
  <2> QED
    BY <1>1, <1>3, <2>1 DEF IndInv, TypeOK
<1>4. ASSUME phase' = "raised", NEW r \in Warmup, pc[r] \in Ended, pc[r] = "raised" \/ ~obs[r].wire
      PROVE  IndInv'
  <2>1. ASSUME NEW q \in Requests PROVE pc[q] \in Ended \cup {"idle"}
    <3>1. CASE q \notin Warmup
      BY <1>1, <1>2, <3>1 DEF InOrder
    <3>2. CASE q \in Warmup /\ q < r
      BY <1>2, <1>4, <3>2 DEF InOrder, Ended
    <3>3. CASE q \in Warmup /\ r < q
      BY <1>2, <1>4, <3>3 DEF InOrder
    <3> QED
      BY <1>2, <1>4, <3>1, <3>2, <3>3
  <2>2. InOrder' /\ NothingOutlivesRun' /\ TrialInv'
    BY <1>1, <1>2, <1>4, <2>1 DEF InOrder, NothingOutlivesRun, TrialInv
  <2> QED
    BY <1>1, <1>4, <2>2 DEF IndInv, TypeOK
<1> QED
  BY <1>3, <1>4 DEF LeaveWarmup

LEMMA CollectKeeps ==
    ASSUME IndInv, Collect
    PROVE  IndInv'
<1>1. phase = "measured" /\ UNCHANGED <<plan, pc, obs>>
  BY DEF Collect, reqVars
<1>2. /\ pc \in [Requests -> States] /\ Warmup' = Warmup /\ Measured' = Measured /\ InOrder
      /\ Measured \subseteq Requests /\ Requests \subseteq Nat
  BY <1>1, PlanRequests DEF IndInv, TypeOK, Warmup, Measured, Requests
<1>3. ASSUME NEW q \in Requests PROVE pc[q] \in Ended \cup {"idle"}
  <2>1. CASE q \notin Measured
    BY <1>1, <1>2, <2>1 DEF InOrder, Ended
  <2>2. CASE q \in Measured /\ \A r \in Measured : pc[r] \in Ended
    BY <2>2
  <2>3. ASSUME q \in Measured, plan.mode = "sequential", NEW r \in Measured, pc[r] = "raised"
        PROVE  pc[q] \in Ended \cup {"idle"}
    <3>1. CASE q < r
      BY <1>2, <2>3, <3>1 DEF InOrder, Ended
    <3>2. CASE r < q
      BY <1>2, <2>3, <3>2 DEF InOrder
    <3> QED
      BY <1>2, <2>3, <3>1, <3>2 DEF Ended
  <2> QED
    BY <2>1, <2>2, <2>3 DEF Collect, Joined
<1>4. CASE phase' = "raised"
  <2>1. InOrder' /\ NothingOutlivesRun' /\ TrialInv'
    BY <1>1, <1>2, <1>3, <1>4 DEF InOrder, NothingOutlivesRun, TrialInv
  <2> QED
    BY <1>1, <1>4, <2>1 DEF IndInv, TypeOK
<1>5. CASE phase' = "returned" /\ trial' = reduce_trial /\ \A r \in Measured : pc[r] = "done"
  <2>1. InOrder' /\ NothingOutlivesRun'
    BY <1>1, <1>2, <1>3, <1>5 DEF InOrder, NothingOutlivesRun
  <2>2. reduce_trial' = reduce_trial
    BY <1>1, <1>2 DEF reduce_trial
  <2>3. TrialInv'
    BY <1>1, <1>2, <1>5, <2>2 DEF TrialInv
  <2> QED
    BY <1>1, <1>5, <2>1, <2>3 DEF IndInv, TypeOK
<1> QED
  BY <1>4, <1>5 DEF Collect

LEMMA InitInv == Init => IndInv
<1> SUFFICES ASSUME Init PROVE IndInv
  OBVIOUS
<1>1. /\ plan \in Plans /\ phase \in {"warmup", "measured"} /\ pc = [r \in Requests |-> "idle"]
      /\ obs = [r \in Requests |-> failed_observation("unanswered")]
      /\ phase = "measured" => ~(plan.warmups > 0)
  BY DEF Init
<1>2. TypeOK
  BY <1>1 DEF TypeOK, States, Observed, Errors
<1>3. phase = "measured" => Warmup = {}
  BY <1>1, <1>2, PlanRequests DEF Warmup
<1>4. InOrder /\ NothingOutlivesRun /\ TrialInv
  BY <1>1, <1>2, <1>3, PlanRequests DEF InOrder, NothingOutlivesRun, TrialInv
<1> QED
  BY <1>2, <1>4 DEF IndInv

LEMMA StepInv == IndInv /\ [Next]_vars => IndInv'
<1> SUFFICES ASSUME IndInv, [Next]_vars PROVE IndInv'
  OBVIOUS
<1>1. CASE UNCHANGED vars
  <2>1. UNCHANGED <<plan, phase, pc, obs, trial>>
    BY <1>1 DEF vars, reqVars
  <2>2. Warmup' = Warmup /\ Measured' = Measured /\ reduce_trial' = reduce_trial
    BY <2>1 DEF Warmup, Measured, reduce_trial
  <2> QED
    BY <2>1, <2>2 DEF IndInv, TypeOK, InOrder, NothingOutlivesRun, TrialInv
<1>2. CASE LeaveWarmup \/ Collect
  BY <1>2, LeaveWarmupKeeps, CollectKeeps
<1>3. ASSUME NEW r \in Requests, Submit(r) PROVE IndInv'
  BY <1>3, SubmitKeeps
<1>4. ASSUME NEW r \in Requests,
             \/ Start(r) \/ PromptFails(r) \/ BadHead(r) \/ GoodHead(r) \/ Close(r) \/ Read(r)
             \/ Finish(r) \/ Timeout(r) \/ ConnectionBreaks(r) \/ CountFails(r)
             \/ \E k \in Pieces : Send(r, k)
      PROVE  IndInv'
  <2>1. Moves(r)
    BY <1>4, Requesting DEF IndInv
  <2> QED
    BY <2>1, MovesKeeps
<1> QED
  BY <1>1, <1>2, <1>3, <1>4 DEF Next

LEMMA Invariance == Spec => []IndInv
BY InitInv, StepInv, PTL DEF Spec

\* When CommonServingExecutor.run returns or raises, no request of the cell is
\* queued or in flight, for any plan and any server: not after a warmup that
\* failed, nor after an error in a pool.
THEOREM NothingOutlives == Spec => []NothingOutlivesRun
<1>1. IndInv => NothingOutlivesRun
  BY DEF IndInv
<1> QED
  BY <1>1, Invariance, PTL

-----------------------------------------------------------------------------
(* The trial. *)

\* What a request is counted under.
LEMMA Classified ==
    ASSUME NEW o, Observed(o), NEW authority
    PROVE  /\ error_classes(o, authority) \subseteq
                 Errors \cup {"output_contract", "output_obligation"}
           /\ ~completion_valid(o, authority) => error_classes(o, authority) # {}
           /\ completion_valid(o, authority) =>
                 /\ error_classes(o, authority) = {}
                 /\ canonical_output(o, authority) = Required
<1>1. o.error = None \/ o.error \in Errors
  BY DEF Observed, completed, failed_observation
<1>2. o.wire \/ o.error \in Errors
  BY DEF Observed, completed, failed_observation
<1>3. None \notin Errors
  BY DEF None, Errors
<1> QED
  BY <1>1, <1>2, <1>3 DEF error_classes, completion_valid

LEMMA ErrorsFinite == IsFiniteSet(Errors \cup {"output_contract", "output_obligation"})
<1>1. IsFiniteSet({"unanswered"})
  BY FS_Singleton
<1>2. IsFiniteSet({"unanswered"} \cup {"request_failed"})
  BY <1>1, FS_AddElement
<1>3. IsFiniteSet({"unanswered"} \cup {"request_failed"} \cup {"timeout"})
  BY <1>2, FS_AddElement
<1>4. IsFiniteSet({"unanswered"} \cup {"request_failed"} \cup {"timeout"}
                  \cup {"token_count_disagreement"})
  BY <1>3, FS_AddElement
<1>5. Errors = {"unanswered"} \cup {"request_failed"} \cup {"timeout"}
               \cup {"token_count_disagreement"}
  BY DEF Errors
<1>6. IsFiniteSet(Errors \cup {"output_contract"})
  BY <1>4, <1>5, FS_AddElement
<1>7. IsFiniteSet(Errors \cup {"output_contract"} \cup {"output_obligation"})
  BY <1>6, FS_AddElement
<1>8. Errors \cup {"output_contract"} \cup {"output_obligation"}
        = Errors \cup {"output_contract", "output_obligation"}
  OBVIOUS
<1> QED
  BY <1>7, <1>8

LEMMA Reconciles ==
    ASSUME TypeOK, trial = reduce_trial, \A r \in Measured : pc[r] = "done"
    PROVE  TrialReconciles
<1> DEFINE M == Measured
           K == [r \in M |-> error_classes(obs[r], plan.authority)]
           V == {r \in M : completion_valid(obs[r], plan.authority)}
           G == {r \in M : slo_satisfied(obs[r], plan.authority, plan.slo)}
           D == UNION {K[r] : r \in M}
           E == [c \in D |-> Cardinality({r \in M : c \in K[r]})]
           T == [r \in V |-> canonical_output(obs[r], plan.authority)]
<1>1. /\ trial.offered = plan.count /\ trial.valid = Cardinality(V)
      /\ trial.failed = plan.count - Cardinality(V) /\ trial.good = Cardinality(G)
      /\ trial.tokens = Total(T, V) /\ trial.errors = E
  BY DEF reduce_trial
<1>2. IsFiniteSet(M) /\ Cardinality(M) = plan.count /\ plan.count \in Nat
  <2>1. plan.warmups \in Nat /\ plan.count \in Nat \ {0}
    BY PlanRequests
  <2>2. PICK a \in Int, b \in Int : a = plan.warmups + 1 /\ b = plan.warmups + plan.count
    BY <2>1
  <2>3. IsFiniteSet(a..b) /\ Cardinality(a..b) = IF a > b THEN 0 ELSE b - a + 1
    BY ONLY a \in Int, b \in Int, FS_Interval
  <2>4. ~(a > b) /\ b - a + 1 = plan.count
    BY <2>1, <2>2
  <2> QED
    BY <2>1, <2>2, <2>3, <2>4 DEF Measured
<1>3. \A r \in M : Observed(obs[r])
  BY PlanRequests DEF TypeOK
<1>4. /\ \A r \in M : K[r] \subseteq Errors \cup {"output_contract", "output_obligation"}
      /\ \A r \in M : r \notin V => K[r] # {}
      /\ \A r \in V : K[r] = {} /\ T[r] = Required
  BY <1>3, Classified
<1>5. \A r \in G : r \in V
  BY DEF slo_satisfied
<1>6. {r \in Measured : pc[r] = "done"} = M
  OBVIOUS
<1>7. IsFiniteSet(D)
  <2>1. D \subseteq Errors \cup {"output_contract", "output_obligation"}
    BY <1>4
  <2> HIDE DEF D
  <2> QED
    BY <2>1, ErrorsFinite, FS_Subset
<1>8. V \subseteq M /\ G \subseteq V
  BY <1>5
<1>9. /\ \A r \in M : K[r] \subseteq D
      /\ DOMAIN E = D /\ \A c \in D : E[c] = Cardinality({r \in M : c \in K[r]})
  OBVIOUS
<1> HIDE DEF M, K, V, G, D, E, T
<1>10. /\ IsFiniteSet(V) /\ Cardinality(V) \in Nat /\ Cardinality(V) <= plan.count
       /\ Cardinality(G) <= Cardinality(V)
  BY <1>2, <1>8, FS_Subset, FS_CardinalityType
<1>11. IsFiniteSet(M \ V) /\ Cardinality(M \ V) = plan.count - Cardinality(V)
  <2>1. M \cap V = V
    BY <1>8
  <2> QED
    BY <1>2, <2>1, FS_Difference
<1>12. Total(T, V) = Cardinality(V) * Required
  <2>1. Required \in Int
    BY BoundsAssumption
  <2> QED
    BY <1>4, <1>10, <2>1, TotalConstant
<1>13. Total(E, D) \in Nat /\ Total(E, D) >= Cardinality({r \in M : K[r] \cap D # {}})
  BY <1>2, <1>7, <1>9, TotalCovers
<1>14. Cardinality(M \ V) <= Cardinality({r \in M : K[r] \cap D # {}})
       /\ Cardinality({r \in M : K[r] \cap D # {}}) \in Nat
  <2>1. M \ V \subseteq {r \in M : K[r] \cap D # {}}
    BY <1>4, <1>9
  <2>2. IsFiniteSet({r \in M : K[r] \cap D # {}})
    BY <1>2, FS_Subset
  <2> QED
    BY <2>1, <2>2, FS_Subset, FS_CardinalityType
<1>15. ASSUME NEW c \in D PROVE E[c] <= plan.count - Cardinality(V)
  <2>1. {r \in M : c \in K[r]} \subseteq M \ V
    BY <1>4
  <2> QED
    BY <1>9, <1>11, <2>1, FS_Subset
<1>16. Total(E, D) >= plan.count - Cardinality(V)
  BY <1>2, <1>10, <1>11, <1>13, <1>14
<1>17. Cardinality(V) + (plan.count - Cardinality(V)) = plan.count
  BY <1>2, <1>10
<1> QED
  BY <1>1, <1>2, <1>6, <1>9, <1>10, <1>12, <1>15, <1>16, <1>17 DEF TrialReconciles

\* What a run returns reconciles, for any plan and whatever the server does:
\* every planned arrival is in the trial once, valid or under an error class,
\* and only valid completions count towards tokens and goodput
\* (reduce_trial_metrics after CommonServingExecutor.run).
THEOREM TrialsReconcile == Spec => []TrialReconciles
<1>1. IndInv => TrialReconciles
  <2>1. CASE phase = "returned"
    BY <2>1, Reconciles DEF IndInv, TrialInv
  <2>2. CASE phase # "returned"
    BY <2>2 DEF TrialReconciles
  <2> QED
    BY <2>1, <2>2
<1> QED
  BY <1>1, Invariance, PTL
-----------------------------------------------------------------------------
(* A chunk is read piece by piece: what the fold of feed computes. *)

LEMMA Greatest ==
    ASSUME NEW n \in Nat, NEW s \in SUBSET (1..n), s # {}
    PROVE  Max(s) \in s /\ \A x \in s : x <= Max(s)
<1> DEFINE T == {n - x : x \in s}
<1>1. PICK m \in T : \A k \in T : m <= k
  <2>1. \A x \in s : x \in 1..n /\ n - x \in Nat
    OBVIOUS
  <2>2. T \in SUBSET Nat /\ T # {}
    BY <2>1
  <2> HIDE DEF T
  <2> QED
    BY <2>2, LeastNumber
<1>2. PICK x \in s : m = n - x
  OBVIOUS
<1>3. \A y \in s : n - x <= n - y
  BY <1>1, <1>2
<1>4. \A y \in s : x >= y
  BY <1>3
<1> QED
  BY <1>4 DEF Max

ReadOf(p, chunk, dialect, now, h, s) ==
    IF s = {} THEN p ELSE accept_piece(h[s \ {Max(s)}], chunk[Max(s)], dialect, now)
IsReading(p, chunk, dialect, now, n, h) ==
    h = [s \in SUBSET (1..n) |-> ReadOf(p, chunk, dialect, now, h, s)]

LEMMA ReadingExists ==
    ASSUME NEW p, NEW chunk, NEW dialect, NEW now, NEW n \in Nat
    PROVE  \E h : IsReading(p, chunk, dialect, now, n, h)
<1> DEFINE Step(h, s) == ReadOf(p, chunk, dialect, now, h, s)
           Within(m) == SUBSET (1..m)
           Reads(m, h) == \A s \in Within(m) : h[s] = Step(h, s)
           Unread == {m \in 0..n : ~\E h : Reads(m, h)}
<1>2. \A m \in 1..n : \A s \in Within(m) : s # {} => s \ {Max(s)} \in Within(m - 1)
  <2> SUFFICES ASSUME NEW m \in 1..n, NEW s \in Within(m), s # {}, NEW x \in s, x # Max(s)
               PROVE  x \in 1..(m - 1)
    OBVIOUS
  <2>1. Max(s) \in s /\ x <= Max(s)
    <3>1. m \in Nat /\ s \in SUBSET (1..m)
      OBVIOUS
    <3> QED
      BY <3>1, Greatest
  <2>2. Max(s) \in 1..m /\ x \in 1..m
    BY <2>1
  <2> QED
    BY <2>1, <2>2
<1>3. Unread = {}
  <2> SUFFICES ASSUME Unread # {} PROVE FALSE
    OBVIOUS
  <2>1. PICK m \in Unread : \A k \in Unread : m <= k
    <3>1. Unread \in SUBSET Nat
      OBVIOUS
    <3> HIDE DEF Unread
    <3> QED
      BY <3>1, LeastNumber
  <2>2. CASE m = 0
    <3> DEFINE h == [s \in {{}} |-> p]
    <3>1. \A s \in Within(0) : s = {}
      OBVIOUS
    <3>2. h[{}] = Step(h, {})
      BY DEF ReadOf
    <3> HIDE DEF h
    <3>3. Reads(0, h)
      BY <3>1, <3>2
    <3> QED
      BY <2>2, <3>3
  <2>3. CASE m # 0
    <3>1. m \in 1..n /\ m - 1 \in 0..n /\ m - 1 \notin Unread
      <4>1. Unread \in SUBSET (0..n)
        OBVIOUS
      <4> HIDE DEF Unread
      <4> QED
        BY <2>1, <2>3, <4>1
    <3>2. PICK h : Reads(m - 1, h)
      BY <3>1
    <3> DEFINE g == [s \in Within(m) |-> IF s \in Within(m - 1) THEN h[s] ELSE Step(h, s)]
    <3>3. ASSUME NEW s \in Within(m) PROVE g[s] = Step(h, s)
      <4>1. CASE s \in Within(m - 1)
        <5>1. g[s] = h[s]
          BY <4>1
        <5> HIDE DEF g, Step
        <5> QED
          BY <3>2, <4>1, <5>1
      <4>2. CASE s \notin Within(m - 1)
        BY <4>2
      <4> QED
        BY <4>1, <4>2
    <3>4. ASSUME NEW s \in Within(m) PROVE Step(g, s) = Step(h, s)
      <4>1. CASE s # {}
        <5>1. s \ {Max(s)} \in Within(m - 1) /\ s \ {Max(s)} \in Within(m)
          BY <1>2, <3>1, <4>1
        <5>2. g[s \ {Max(s)}] = h[s \ {Max(s)}]
          BY <5>1
        <5> HIDE DEF g
        <5> QED
          BY <5>2 DEF ReadOf
      <4> QED
        BY <4>1 DEF ReadOf
    <3> HIDE DEF g, Step
    <3>5. Reads(m, g)
      BY <3>3, <3>4
    <3> QED
      BY <3>5
  <2> QED
    BY <2>2, <2>3
<1>4. PICK h : Reads(n, h)
  BY <1>3
<1> DEFINE g == [s \in Within(n) |-> h[s]]
<1>5. ASSUME NEW s \in Within(n) PROVE g[s] = Step(g, s)
  <2>1. h[s] = Step(h, s) /\ g[s] = h[s]
    BY <1>4
  <2>2. Step(g, s) = Step(h, s)
    <3>1. CASE s # {}
      <4>1. g[s \ {Max(s)}] = h[s \ {Max(s)}]
        BY <3>1
      <4> HIDE DEF g
      <4> QED
        BY <4>1 DEF ReadOf
    <3> QED
      BY <3>1 DEF ReadOf
  <2> QED
    BY <2>1, <2>2
<1>6. g = [s \in Within(n) |-> g[s]]
  OBVIOUS
<1> HIDE DEF g
<1>7. IsReading(p, chunk, dialect, now, n, g)
  BY <1>5, <1>6 DEF IsReading
<1> QED
  BY <1>7

\* The parsers g on the way through the n pieces of a chunk.
Passage(g, p, chunk, n, dialect, now) ==
    g[0] = p /\ \A i \in 1..n : g[i] = accept_piece(g[i - 1], chunk[i], dialect, now)

LEMMA FeedIs ==
    ASSUME NEW p, NEW n \in Nat, NEW chunk, DOMAIN chunk = 1..n,
           NEW total \in Nat, total <= MaxResponse, NEW dialect, NEW now
    PROVE  \E g : /\ Passage(g, p, chunk, n, dialect, now)
                  /\ feed(p, chunk, total, dialect, now) = g[n]
<1>1. PICK h : h = CHOOSE g : IsReading(p, chunk, dialect, now, n, g)
  OBVIOUS
<1>2. IsReading(p, chunk, dialect, now, n, h)
  BY <1>1, ReadingExists
<1>3. FoldLeft(LAMBDA q, k : accept_piece(q, k, dialect, now), p, chunk) =
        (CHOOSE g : IsReading(p, chunk, dialect, now, n, g))[1..n]
  BY DEF FoldLeft, MapThenFoldSet, IsReading, ReadOf
<1>4. \A s \in SUBSET (1..n) : h[s] = ReadOf(p, chunk, dialect, now, h, s)
  BY <1>2 DEF IsReading
<1> DEFINE g == [i \in 0..n |-> h[1..i]]
<1>5. g[0] = p
  <2>1. 1..0 = {} /\ {} \in SUBSET (1..n)
    OBVIOUS
  <2>2. h[{}] = p
    BY <1>4, <2>1 DEF ReadOf
  <2> QED
    BY <2>1, <2>2
<1>6. ASSUME NEW i \in 1..n PROVE g[i] = accept_piece(g[i - 1], chunk[i], dialect, now)
  <2>1. 1..i \in SUBSET (1..n) /\ 1..i # {} /\ i \in 1..i
    OBVIOUS
  <2>2. Max(1..i) = i
    <3>1. Max(1..i) \in 1..i /\ \A x \in 1..i : x <= Max(1..i)
      BY <2>1, Greatest
    <3> QED
      BY <2>1, <3>1
  <2>3. (1..i) \ {i} = 1..(i - 1)
    OBVIOUS
  <2>4. h[1..i] = accept_piece(h[1..(i - 1)], chunk[i], dialect, now)
    BY <1>4, <2>1, <2>2, <2>3 DEF ReadOf
  <2>5. g[i] = h[1..i] /\ g[i - 1] = h[1..(i - 1)]
    OBVIOUS
  <2> QED
    BY <2>4, <2>5
<1>7. g[n] = h[1..n]
  OBVIOUS
<1>8. feed(p, chunk, total, dialect, now) = g[n]
  <2>1. ~(total > MaxResponse)
    BY BoundsAssumption
  <2>2. feed(p, chunk, total, dialect, now) =
          FoldLeft(LAMBDA q, k : accept_piece(q, k, dialect, now), p, chunk)
    BY <2>1 DEF feed
  <2> QED
    BY <1>1, <1>3, <1>7, <2>2
<1> HIDE DEF g
<1>9. Passage(g, p, chunk, n, dialect, now)
  BY <1>5, <1>6 DEF Passage
<1> QED
  BY <1>8, <1>9

-----------------------------------------------------------------------------
(* The incremental parser and the grammar. *)

Dialects == {"strict_v1", "mlx_lm_0_31"}
Chunks == Outputs \cup Finishes \cup Usages

Parsers ==
    [text : BOOLEAN, terminal : {None, "length", "stop", "filtered"}, ended : Nat, usage : Int,
     prompt : BOOLEAN, done : BOOLEAN, role : BOOLEAN, identity : {None, "declared", "other"}, visible : Nat,
     reasoning : Nat, stamps : Seq(Nat), refused : BOOLEAN]

\* The parser is on the way to a response.
Sound(p) == ~p.refused /\ ~p.text /\ p.identity # "other"

\* The first n pieces of s are the beginning of a response: up to its heads, its
\* terminal chunk, its usage, or its end.
Opening(s, n, d) ==
    /\ \A i \in 1..n : s[i] \in Heads(d)
    /\ d = "strict_v1" => \A i, j \in 1..n : i < j /\ s[j] = "role" => s[i] = "empty"
Ending(s, n, d) == n >= 1 /\ Opening(s, n - 1, d) /\ s[n] \in Terminals(d)
Counting(s, n, d) == n >= 2 /\ Ending(s, n - 1, d) /\ s[n] \in Usages
Whole(s, n, d) == n >= 3 /\ Counting(s, n - 1, d) /\ s[n] = "done"
Beginning(s, n, d) ==
    Opening(s, n, d) \/ Ending(s, n, d) \/ Counting(s, n, d) \/ Whole(s, n, d)

\* The parser has the counts of the usage chunk k.
Billed(p, k) == p.usage = UsageTokens(k) /\ (p.prompt <=> k # "usage_input")

At(p, s, n, d) ==
    \/ Opening(s, n, d) /\ p.terminal = None /\ p.usage = NoCount /\ ~p.done
    \/ Ending(s, n, d) /\ p.terminal = FinishReason(s[n]) /\ p.usage = NoCount /\ ~p.done
    \/ /\ Counting(s, n, d) /\ ~p.done
       /\ p.terminal = FinishReason(s[n - 1]) /\ Billed(p, s[n])
    \/ /\ Whole(s, n, d) /\ p.done
       /\ p.terminal = FinishReason(s[n - 2]) /\ Billed(p, s[n - 1])

Some(s, n, k) == \E i \in 1..n : s[i] = k
Count(s, n) == Cardinality({i \in 1..n : s[i] = "content"})

Tallies(p, s, n) ==
    /\ p.role <=> Some(s, n, "role")
    /\ p.reasoning > 0 <=> Some(s, n, "reasoning")
    /\ p.visible > 0 <=> Some(s, n, "content")
    /\ p.visible = Count(s, n)
    /\ p.stamps = <<>> <=> p.visible = 0

\* The parser p after the first n pieces of s.
Follows(p, s, n, d) ==
    /\ p \in Parsers
    /\ Sound(p) => At(p, s, n, d) /\ Tallies(p, s, n)
    /\ ~Sound(p) => ~Beginning(s, n, d) /\ (p.refused \/ p.text \/ p.terminal = None)

LEMMA Taking ==
    ASSUME NEW p \in Parsers, NEW k \in Pieces, NEW now \in Nat, NEW q, q = Takes(p, k, now)
    PROVE  /\ q \in Parsers /\ q.refused = p.refused
           /\ q.text <=> p.text \/ k = "cut"
           /\ q.terminal = IF k \in Finishes THEN FinishReason(k) ELSE p.terminal
           /\ q.usage = IF k \in Usages THEN UsageTokens(k) ELSE p.usage
           /\ k \in Usages => (q.prompt <=> k # "usage_input")
           /\ k \notin Usages => (q.prompt <=> p.prompt)
           /\ q.done <=> p.done \/ k = "done"
           /\ q.role <=> p.role \/ k = "role"
           /\ q.identity = IF k \in Chunks THEN ModelId(k) ELSE p.identity
           /\ q.visible = IF k \in {"content", "drift"} THEN p.visible + 1 ELSE p.visible
           /\ q.reasoning = IF k = "reasoning" THEN p.reasoning + 1 ELSE p.reasoning
           /\ q.stamps = IF k \in {"content", "drift"} THEN Append(p.stamps, now) ELSE p.stamps
<1> USE DEF Outputs, Finishes, Usages, Chunks, None
<1>1. PICK r : r = IF k \in Chunks THEN [p EXCEPT !.identity = ModelId(k)] ELSE p
  OBVIOUS
<1>2. /\ r \in Parsers
      /\ r.identity = IF k \in Chunks THEN ModelId(k) ELSE p.identity
      /\ r.refused = p.refused /\ r.text = p.text /\ r.terminal = p.terminal
      /\ r.usage = p.usage /\ r.prompt = p.prompt /\ r.done = p.done /\ r.role = p.role /\ r.visible = p.visible
      /\ r.reasoning = p.reasoning /\ r.stamps = p.stamps
  BY <1>1 DEF Parsers, ModelId
<1>3. q = CASE k \in Finishes  -> [r EXCEPT !.terminal = FinishReason(k), !.ended = now]
            [] k \in Usages    -> [r EXCEPT !.usage = UsageTokens(k), !.prompt = k # "usage_input"]
            [] k = "done"      -> [r EXCEPT !.done = TRUE]
            [] k = "cut"       -> [r EXCEPT !.text = TRUE]
            [] k = "role"      -> [r EXCEPT !.role = TRUE]
            [] k = "reasoning" -> [r EXCEPT !.reasoning = @ + 1]
            [] k \in {"content", "drift"} -> [r EXCEPT !.visible = @ + 1,
                                                       !.stamps = Append(@, now)]
            [] OTHER -> r
  BY <1>1 DEF Takes
<1>4. CASE k \in Finishes
  <2>1. q = [r EXCEPT !.terminal = FinishReason(k), !.ended = now]
    BY <1>3, <1>4
  <2> QED
    BY <1>2, <1>4, <2>1 DEF Parsers, FinishReason
<1>5. CASE k \in Usages
  <2>1. PICK b \in BOOLEAN : b = (k # "usage_input")
    OBVIOUS
  <2>2. q = [r EXCEPT !.usage = UsageTokens(k), !.prompt = b] /\ UsageTokens(k) \in Int
    BY <1>3, <1>5, <2>1, BoundsAssumption DEF UsageTokens
  <2>3. /\ q \in Parsers /\ q.usage = UsageTokens(k) /\ q.prompt = b
        /\ q.refused = r.refused /\ q.text = r.text /\ q.terminal = r.terminal
        /\ q.done = r.done /\ q.role = r.role /\ q.identity = r.identity
        /\ q.visible = r.visible /\ q.reasoning = r.reasoning /\ q.stamps = r.stamps
    BY <1>2, <2>2 DEF Parsers
  <2> QED
    BY <1>2, <1>5, <2>1, <2>3
<1>6. CASE k = "done"
  <2>1. q = [r EXCEPT !.done = TRUE]
    BY <1>3, <1>6
  <2> QED
    BY <1>2, <1>6, <2>1, ZenonT(30) DEF Parsers
<1>7. CASE k = "cut"
  <2>1. q = [r EXCEPT !.text = TRUE]
    BY <1>3, <1>7
  <2> QED
    BY <1>2, <1>7, <2>1 DEF Parsers
<1>8. CASE k = "role"
  <2>1. q = [r EXCEPT !.role = TRUE]
    BY <1>3, <1>8
  <2> QED
    BY <1>2, <1>8, <2>1 DEF Parsers
<1>9. CASE k = "reasoning"
  <2>1. q = [r EXCEPT !.reasoning = r.reasoning + 1]
    BY <1>3, <1>9
  <2> QED
    <3>1. /\ q \in Parsers /\ q.reasoning = r.reasoning + 1
          /\ q.refused = r.refused /\ q.text = r.text /\ q.terminal = r.terminal
          /\ q.usage = r.usage /\ q.prompt = r.prompt /\ q.done = r.done /\ q.role = r.role
          /\ q.identity = r.identity /\ q.visible = r.visible /\ q.stamps = r.stamps
      BY <1>2, <2>1 DEF Parsers
    <3> QED
      BY <1>2, <1>9, <3>1, SMTT(30)
<1>10. CASE k \in {"content", "drift"}
  <2>1. PICK t : t = Append(r.stamps, now)
    OBVIOUS
  <2>2. t \in Seq(Nat) /\ r.visible + 1 \in Nat /\ t = Append(p.stamps, now)
    BY <1>2, <2>1 DEF Parsers
  <2>3. q = [r EXCEPT !.visible = r.visible + 1, !.stamps = t]
    BY <1>3, <1>10, <2>1
  <2>4. q \in Parsers
    BY <1>2, <2>2, <2>3 DEF Parsers
  <2>5. /\ q.visible = r.visible + 1 /\ q.stamps = t /\ q.identity = r.identity
        /\ q.refused = r.refused /\ q.text = r.text /\ q.terminal = r.terminal
        /\ q.usage = r.usage /\ q.prompt = r.prompt /\ q.done = r.done /\ q.role = r.role
        /\ q.reasoning = r.reasoning
    BY <1>2, <2>3 DEF Parsers
  <2> QED
    BY <1>2, <1>10, <2>2, <2>4, <2>5
<1>11. CASE k \in {"empty", "comment", "malformed"}
  <2>1. q = r
    BY <1>3, <1>11
  <2> QED
    BY <1>2, <1>11, <2>1
<1> QED
  BY <1>4, <1>5, <1>6, <1>7, <1>8, <1>9, <1>10, <1>11 DEF Pieces

\* A beginning grows by what may come next.
LEMMA Grows ==
    ASSUME NEW s, NEW n \in Nat, NEW d
    PROVE  /\ Opening(s, n + 1, d) <=>
                 /\ Opening(s, n, d) /\ s[n + 1] \in Heads(d)
                 /\ d = "strict_v1" /\ s[n + 1] = "role" => \A i \in 1..n : s[i] = "empty"
           /\ Ending(s, n + 1, d) <=> Opening(s, n, d) /\ s[n + 1] \in Terminals(d)
           /\ Counting(s, n + 1, d) <=> Ending(s, n, d) /\ s[n + 1] \in Usages
           /\ Whole(s, n + 1, d) <=> Counting(s, n, d) /\ s[n + 1] = "done"
<1>1. n + 1 \in Nat /\ n + 1 >= 1 /\ (n + 1) - 1 = n
  OBVIOUS
<1>2. \A i : i \in 1..(n + 1) <=> i \in 1..n \/ i = n + 1
  OBVIOUS
<1>3. \A i \in 1..n : i < n + 1 /\ ~(n + 1 < i)
  OBVIOUS
<1>4. Opening(s, n + 1, d) <=>
        /\ Opening(s, n, d) /\ s[n + 1] \in Heads(d)
        /\ d = "strict_v1" /\ s[n + 1] = "role" => \A i \in 1..n : s[i] = "empty"
  <2>1. ASSUME Opening(s, n + 1, d)
        PROVE  /\ Opening(s, n, d) /\ s[n + 1] \in Heads(d)
               /\ d = "strict_v1" /\ s[n + 1] = "role" => \A i \in 1..n : s[i] = "empty"
    BY <1>2, <1>3, <2>1 DEF Opening
  <2>2. ASSUME Opening(s, n, d), s[n + 1] \in Heads(d),
               d = "strict_v1" /\ s[n + 1] = "role" => \A i \in 1..n : s[i] = "empty"
        PROVE  Opening(s, n + 1, d)
    <3>1. \A i \in 1..(n + 1) : s[i] \in Heads(d)
      BY <1>2, <2>2 DEF Opening
    <3>2. ASSUME d = "strict_v1", NEW i \in 1..(n + 1), NEW j \in 1..(n + 1),
                 i < j, s[j] = "role"
          PROVE  s[i] = "empty"
      <4>1. i \in 1..n
        BY <3>2
      <4>2. CASE j = n + 1
        BY <2>2, <3>2, <4>1, <4>2
      <4>3. CASE j \in 1..n
        BY <2>2, <3>2, <4>1, <4>3 DEF Opening
      <4> QED
        BY <1>2, <4>2, <4>3
    <3> QED
      BY <3>1, <3>2 DEF Opening
  <2> QED
    BY <2>1, <2>2
<1>5. /\ Ending(s, n, d) => n >= 1
      /\ Counting(s, n, d) => n >= 2
  BY DEF Ending, Counting
<1>6. Ending(s, n + 1, d) <=> Opening(s, n, d) /\ s[n + 1] \in Terminals(d)
  BY <1>1 DEF Ending
<1>7. Counting(s, n + 1, d) <=> Ending(s, n, d) /\ s[n + 1] \in Usages
  BY <1>1, <1>5 DEF Counting
<1>8. Whole(s, n + 1, d) <=> Counting(s, n, d) /\ s[n + 1] = "done"
  BY <1>1, <1>5 DEF Whole
<1> QED
  BY <1>4, <1>6, <1>7, <1>8

\* What is no beginning grows into none.
LEMMA NoBeginning ==
    ASSUME NEW s, NEW n \in Nat, NEW d, ~Beginning(s, n, d)
    PROVE  ~Beginning(s, n + 1, d)
BY Grows DEF Beginning

\* The four stages are told apart by the last piece.
LEMMA Apart ==
    ASSUME NEW s, NEW n \in Nat, NEW d
    PROVE  /\ Opening(s, n, d) => ~Ending(s, n, d) /\ ~Counting(s, n, d) /\ ~Whole(s, n, d)
           /\ Ending(s, n, d) => ~Counting(s, n, d) /\ ~Whole(s, n, d)
           /\ Counting(s, n, d) => ~Whole(s, n, d)
<1>1. Opening(s, n, d) /\ n >= 1 => s[n] \in Heads(d)
  BY DEF Opening
<1>2. \A k : /\ k \in Heads(d) => k \notin Terminals(d) /\ k \notin Usages /\ k # "done"
             /\ k \in Terminals(d) => k \notin Usages /\ k # "done"
             /\ k \in Usages => k # "done"
  BY DEF Heads, Terminals, Usages, Outputs, Finishes
<1> QED
  BY <1>1, <1>2 DEF Ending, Counting, Whole

LEMMA TallyStep ==
    ASSUME NEW s, NEW n \in Nat, NEW p \in Parsers, NEW now \in Nat, s[n + 1] \in Pieces,
           s[n + 1] # "drift", Tallies(p, s, n),
           NEW q, q = Takes(p, s[n + 1], now)
    PROVE  Tallies(q, s, n + 1)
<1>1. \A i : i \in 1..(n + 1) <=> i \in 1..n \/ i = n + 1
  OBVIOUS
<1>2. \A k : Some(s, n + 1, k) <=> Some(s, n, k) \/ s[n + 1] = k
  BY <1>1 DEF Some
<1>3. /\ q.role <=> p.role \/ s[n + 1] = "role"
      /\ q.visible = IF s[n + 1] \in {"content", "drift"} THEN p.visible + 1 ELSE p.visible
      /\ q.reasoning = IF s[n + 1] = "reasoning" THEN p.reasoning + 1 ELSE p.reasoning
      /\ q.stamps = IF s[n + 1] \in {"content", "drift"} THEN Append(p.stamps, now) ELSE p.stamps
  BY Taking
<1>4. p.visible \in Nat /\ p.reasoning \in Nat /\ p.stamps \in Seq(Nat)
  BY DEF Parsers
<1> DEFINE A == {i \in 1..n : s[i] = "content"}
           B == {i \in 1..(n + 1) : s[i] = "content"}
<1>5. B = IF s[n + 1] = "content" THEN A \cup {n + 1} ELSE A
  BY <1>1
<1>6. IsFiniteSet(A) /\ n + 1 \notin A
  <2>1. IsFiniteSet(1..n)
    BY FS_Interval
  <2> QED
    BY <2>1, FS_Subset
<1>7. Cardinality(A \cup {n + 1}) = Cardinality(A) + 1
  <2> HIDE DEF A
  <2> QED
    BY <1>6, FS_AddElement
<1>8. Count(s, n + 1) = IF s[n + 1] = "content" THEN Count(s, n) + 1 ELSE Count(s, n)
  <2>1. Count(s, n + 1) = Cardinality(B) /\ Count(s, n) = Cardinality(A)
    BY DEF Count
  <2> HIDE DEF A, B
  <2> QED
    BY <1>5, <1>7, <2>1
<1>9. q.visible = Count(s, n + 1)
  BY <1>3, <1>8 DEF Tallies
<1>10. q.stamps = <<>> <=> q.visible = 0
  <2>1. Append(p.stamps, now) # <<>>
    BY <1>4
  <2>2. p.visible + 1 # 0
    BY <1>4
  <2> QED
    BY <1>3, <2>1, <2>2 DEF Tallies
<1>11. q.reasoning > 0 <=> p.reasoning > 0 \/ s[n + 1] = "reasoning"
  BY <1>3, <1>4
<1>12. q.visible > 0 <=> p.visible > 0 \/ s[n + 1] = "content"
  BY <1>3, <1>4
<1> QED
  BY <1>2, <1>3, <1>9, <1>10, <1>11, <1>12 DEF Tallies

\* What a sound parser refuses is what no response goes on with.
LEMMA RefusalIsRight ==
    ASSUME NEW s, NEW n \in Nat, NEW d \in Dialects, NEW p \in Parsers, s[n + 1] \in Pieces,
           Sound(p), At(p, s, n, d), Tallies(p, s, n), Refuses(p, s[n + 1], d)
    PROVE  ~Beginning(s, n + 1, d)
<1> DEFINE k == s[n + 1]
<1>1. p.identity \in {None, "declared"} /\ ~p.text /\ Refuses(p, k, d)
  BY DEF Sound, Parsers
<1>2. Opening(s, n, d) /\ k \in Heads(d) => p.terminal = None
  BY Apart DEF At
<1>3. Opening(s, n, d) => p.terminal = None /\ ~p.done
  BY Apart DEF At
<1>4. Ending(s, n, d) => p.terminal # None /\ p.usage = NoCount /\ ~p.done
  <2>1. Ending(s, n, d) => s[n] \in Finishes
    BY DEF Ending, Terminals
  <2> QED
    BY <2>1, Apart DEF At, FinishReason, None, Finishes
<1>5. Counting(s, n, d) => p.terminal # None /\ p.usage # NoCount /\ ~p.done
  <2>1. Counting(s, n, d) => s[n - 1] \in Finishes
    BY DEF Counting, Ending, Terminals
  <2>2. UsageTokens(s[n]) # NoCount
    BY BoundsAssumption DEF UsageTokens, NoCount
  <2> QED
    BY <2>1, <2>2, Apart DEF At, Billed, FinishReason, None, Finishes
<1>6. Opening(s, n, d) /\ k = "role" /\ d = "strict_v1" /\ (p.role \/ p.visible > 0 \/ p.reasoning > 0)
      => ~\A i \in 1..n : s[i] = "empty"
  BY DEF Tallies, Some
<1>7. ASSUME Opening(s, n + 1, d) PROVE FALSE
  <2>1. Opening(s, n, d) /\ k \in Heads(d)
        /\ (d = "strict_v1" /\ k = "role" => \A i \in 1..n : s[i] = "empty")
    BY <1>7, Grows
  <2>2. p.terminal = None /\ ~p.done /\ ModelId(k) = "declared"
    BY <1>3, <2>1 DEF Heads, ModelId
  <2> HIDE DEF k
  <2> QED
    BY <1>1, <1>6, <2>1, <2>2 DEF Refuses, Heads, Outputs, Finishes, Usages, Dialects
<1>8. ASSUME Ending(s, n + 1, d) PROVE FALSE
  <2>1. Opening(s, n, d) /\ k \in Terminals(d)
    BY <1>8, Grows
  <2>2. p.terminal = None /\ ~p.done /\ ModelId(k) = "declared"
    BY <1>3, <2>1 DEF Terminals, ModelId, Finishes
  <2> HIDE DEF k
  <2> QED
    BY <1>1, <2>1, <2>2 DEF Refuses, Terminals, Outputs, Finishes, Usages, Dialects
<1>9. ASSUME Counting(s, n + 1, d) PROVE FALSE
  <2>1. Ending(s, n, d) /\ k \in Usages
    BY <1>9, Grows
  <2>2. p.terminal # None /\ p.usage = NoCount /\ ~p.done /\ ModelId(k) = "declared"
    BY <1>4, <2>1 DEF ModelId, Usages
  <2> HIDE DEF k
  <2> QED
    BY <1>1, <2>1, <2>2 DEF Refuses, Outputs, Finishes, Usages, Dialects
<1>10. ASSUME Whole(s, n + 1, d) PROVE FALSE
  <2>1. Counting(s, n, d) /\ k = "done"
    BY <1>10, Grows
  <2> QED
    BY <1>1, <1>5, <2>1 DEF Refuses, Outputs, Finishes, Usages
<1> QED
  BY <1>7, <1>8, <1>9, <1>10 DEF Beginning

LEMMA TakingIsRight ==
    ASSUME NEW s, NEW n \in Nat, NEW d \in Dialects, NEW p \in Parsers, NEW now \in Nat,
           s[n + 1] \in Pieces, s[n + 1] \notin {"cut", "drift"},
           Sound(p), At(p, s, n, d), Tallies(p, s, n), ~Refuses(p, s[n + 1], d),
           NEW q, q = Takes(p, s[n + 1], now)
    PROVE  At(q, s, n + 1, d)
<1> DEFINE k == s[n + 1]
<1>1. (n + 1) - 1 = n /\ (n + 1) - 2 = n - 1
  OBVIOUS
<1>2. /\ q.terminal = IF k \in Finishes THEN FinishReason(k) ELSE p.terminal
      /\ q.usage = IF k \in Usages THEN UsageTokens(k) ELSE p.usage
      /\ k \in Usages => (q.prompt <=> k # "usage_input")
      /\ k \notin Usages => (q.prompt <=> p.prompt)
      /\ q.done <=> p.done \/ k = "done"
  BY Taking
<1>3. k # "malformed" /\ ~p.done
  BY DEF Refuses
<1>4. CASE Opening(s, n, d) /\ p.terminal = None /\ p.usage = NoCount
  <2>1. k \in Heads(d) \/ k \in Terminals(d)
    <3> HIDE DEF k
    <3>1. k \notin Usages /\ k # "done"
      BY <1>4 DEF Refuses, k
    <3>2. (k = "comment" => d = "mlx_lm_0_31") /\ (k = "length_role" => d # "strict_v1")
      BY DEF Refuses, k
    <3>3. k \in Pieces /\ k \notin {"cut", "drift"}
      BY DEF k
    <3> QED
      BY <1>3, <3>1, <3>2, <3>3 DEF Pieces, Heads, Terminals
  <2>2. CASE k \in Terminals(d)
    <3>1. Ending(s, n + 1, d) /\ k \in Finishes /\ k \notin Usages /\ k # "done"
      BY <1>4, <2>2, Grows DEF Terminals, Finishes, Usages
    <3> QED
      BY <1>2, <1>3, <1>4, <3>1 DEF At
  <2>3. CASE k \in Heads(d)
    <3>1. k \notin Finishes /\ k \notin Usages /\ k # "done"
      BY <2>3 DEF Heads, Outputs, Finishes, Usages
    <3>2. ASSUME d = "strict_v1", k = "role" PROVE \A i \in 1..n : s[i] = "empty"
      <4>1. ~p.role /\ ~(p.visible > 0) /\ ~(p.reasoning > 0)
        BY <3>2 DEF Refuses
      <4>2. ~Some(s, n, "role") /\ ~Some(s, n, "content") /\ ~Some(s, n, "reasoning")
        BY <4>1 DEF Tallies
      <4>3. \A i \in 1..n : s[i] \in {"role", "content", "reasoning", "empty"}
        BY <1>4, <3>2 DEF Opening, Heads, Outputs
      <4> QED
        BY <4>2, <4>3 DEF Some
    <3>3. Opening(s, n + 1, d)
      BY <1>4, <2>3, <3>2, Grows
    <3> QED
      BY <1>2, <1>3, <1>4, <3>1, <3>3 DEF At
  <2> QED
    BY <2>1, <2>2, <2>3
<1>5. CASE Ending(s, n, d) /\ p.terminal = FinishReason(s[n]) /\ p.usage = NoCount
  <2>1. p.terminal # None
    BY <1>5 DEF Ending, Terminals, Finishes, FinishReason, None
  <2>2. k \in Usages
    <3> HIDE DEF k
    <3>1. k \notin Outputs \cup Finishes /\ k # "done" /\ k # "comment"
      BY <1>5, <2>1 DEF Refuses, k
    <3>2. k \in Pieces /\ k \notin {"cut", "drift"}
      BY DEF k
    <3> QED
      BY <1>3, <3>1, <3>2 DEF Pieces
  <2>3. Counting(s, n + 1, d) /\ k \notin Finishes /\ k # "done"
    BY <1>5, <2>2, Grows DEF Finishes, Usages
  <2>4. /\ q.terminal = FinishReason(s[(n + 1) - 1]) /\ Billed(q, s[n + 1]) /\ ~q.done
    BY <1>1, <1>2, <1>3, <1>5, <2>2, <2>3 DEF Billed
  <2> QED
    BY <2>3, <2>4 DEF At
<1>6. CASE /\ Counting(s, n, d)
           /\ p.terminal = FinishReason(s[n - 1]) /\ Billed(p, s[n])
  <2>1. p.terminal # None /\ p.usage # NoCount
    BY <1>6, BoundsAssumption
       DEF Counting, Ending, Terminals, Finishes, FinishReason, None, Billed, UsageTokens, NoCount
  <2>2. k = "done"
    <3> HIDE DEF k
    <3>1. k \notin Outputs \cup Finishes /\ k \notin Usages /\ k # "comment"
      BY <2>1 DEF Refuses, k
    <3>2. k \in Pieces /\ k \notin {"cut", "drift"}
      BY DEF k
    <3> QED
      BY <1>3, <3>1, <3>2 DEF Pieces
  <2>3. Whole(s, n + 1, d) /\ k \notin Finishes /\ k \notin Usages
    BY <1>6, <2>2, Grows DEF Finishes, Usages
  <2>4. /\ q.terminal = FinishReason(s[(n + 1) - 2]) /\ Billed(q, s[(n + 1) - 1])
        /\ q.done
    BY <1>1, <1>2, <1>6, <2>2, <2>3 DEF Billed
  <2> QED
    BY <2>3, <2>4 DEF At
<1> QED
  BY <1>3, <1>4, <1>5, <1>6 DEF At

LEMMA StepFollows ==
    ASSUME NEW s, NEW n \in Nat, NEW d \in Dialects, NEW now \in Nat, NEW p,
           s[n + 1] \in Pieces, Follows(p, s, n, d),
           NEW q, q = accept_piece(p, s[n + 1], d, now)
    PROVE  Follows(q, s, n + 1, d)
<1> DEFINE k == s[n + 1]
<1>1. p \in Parsers
  BY DEF Follows
<1>2. CASE p.refused
  <2>1. q = p /\ ~Sound(p)
    BY <1>2 DEF accept_piece, Sound
  <2>2. ~Beginning(s, n + 1, d)
    BY <2>1, NoBeginning DEF Follows
  <2> QED
    BY <1>1, <1>2, <2>1, <2>2 DEF Follows
<1>3. CASE ~p.refused /\ Refuses(p, k, d)
  <2>1. q = [p EXCEPT !.refused = TRUE]
    BY <1>3 DEF accept_piece
  <2>2. q \in Parsers /\ q.refused
    BY <1>1, <2>1 DEF Parsers
  <2>3. ~Beginning(s, n + 1, d)
    <3>1. CASE Sound(p)
      BY <1>1, <1>3, <3>1, RefusalIsRight DEF Follows
    <3>2. CASE ~Sound(p)
      BY <3>2, NoBeginning DEF Follows
    <3> QED
      BY <3>1, <3>2
  <2> QED
    BY <2>2, <2>3 DEF Follows, Sound
<1>4. CASE ~p.refused /\ ~Refuses(p, k, d)
  <2>1. q = Takes(p, k, now)
    BY <1>4 DEF accept_piece
  <2>2. /\ q \in Parsers /\ q.refused = p.refused
        /\ q.text <=> p.text \/ k = "cut"
        /\ q.terminal = IF k \in Finishes THEN FinishReason(k) ELSE p.terminal
        /\ q.identity = IF k \in Chunks THEN ModelId(k) ELSE p.identity
    BY <1>1, <2>1, Taking
  <2>3. ~p.text /\ (k \in Chunks => p.identity \in {None, ModelId(k)})
    BY <1>4 DEF Refuses, Chunks
  <2>4. CASE ~Sound(p)
    <3>1. p.identity = "other" /\ p.terminal = None
      BY <1>4, <2>3, <2>4 DEF Sound, Follows
    <3>2. q.identity = "other" /\ q.terminal = None
      <4>1. k \in Finishes => k \in Chunks /\ ModelId(k) = "declared"
        BY DEF Chunks, ModelId, Finishes
      <4>2. "other" # None /\ ("other" # "declared")
        BY DEF None
      <4> QED
        BY <2>2, <2>3, <3>1, <4>1, <4>2
    <3>3. ~Beginning(s, n + 1, d)
      BY <2>4, NoBeginning DEF Follows
    <3> QED
      BY <2>2, <3>2, <3>3 DEF Follows, Sound
  <2>5. CASE Sound(p) /\ k \in {"cut", "drift"}
    <3>1. ~Beginning(s, n + 1, d)
      BY <2>5, Grows DEF Beginning, Heads, Terminals, Outputs, Finishes, Usages
    <3>2. k = "drift" => q.identity = "other" /\ q.terminal = None
      <4>1. k = "drift" => k \in Chunks /\ k \notin Finishes /\ ModelId(k) = "other"
                           /\ p.terminal = None
        BY <1>4 DEF Chunks, Outputs, Finishes, ModelId, Refuses
      <4> QED
        BY <2>2, <4>1
    <3> QED
      BY <2>2, <2>5, <3>1, <3>2 DEF Follows, Sound
  <2>6. CASE Sound(p) /\ k \notin {"cut", "drift"}
    <3>1. At(p, s, n, d) /\ Tallies(p, s, n)
      BY <2>6 DEF Follows
    <3>2. At(q, s, n + 1, d)
      BY <1>1, <1>4, <2>1, <2>6, <3>1, TakingIsRight
    <3>3. Tallies(q, s, n + 1)
      BY <1>1, <2>1, <2>6, <3>1, TallyStep
    <3>4. Sound(q)
      <4>1. k \in Chunks => ModelId(k) = "declared"
        BY <2>6 DEF ModelId
      <4> QED
        BY <1>4, <2>2, <2>3, <2>6, <4>1 DEF Sound
    <3> QED
      BY <2>2, <3>2, <3>3, <3>4 DEF Follows
  <2> QED
    BY <2>4, <2>5, <2>6
<1> QED
  BY <1>2, <1>3, <1>4

LEMMA NewFollows ==
    ASSUME NEW s, NEW d
    PROVE  Follows(NewParser, s, 0, d)
<1>1. NewParser \in Parsers
  BY DEF NewParser, Parsers, NoCount, None
<1>2. 1..0 = {}
  OBVIOUS
<1>3. Count(s, 0) = 0
  <2>1. {i \in 1..0 : s[i] = "content"} = {}
    BY <1>2
  <2> QED
    BY <2>1, FS_EmptySet DEF Count
<1>4. Sound(NewParser) /\ At(NewParser, s, 0, d)
  BY <1>2 DEF Sound, At, NewParser, Opening, None
<1>5. Tallies(NewParser, s, 0)
  BY <1>2, <1>3 DEF Tallies, Some, NewParser
<1> QED
  BY <1>1, <1>4, <1>5 DEF Follows

\* Only the pieces read so far matter.
LEMMA FollowsPrefix ==
    ASSUME NEW p, NEW d, NEW n \in Nat, NEW s, NEW t, \A i \in 1..n : t[i] = s[i],
           Follows(p, s, n, d)
    PROVE  Follows(p, t, n, d)
<1>1. \A m \in Nat : m <= n => Opening(s, m, d) = Opening(t, m, d)
  <2> SUFFICES ASSUME NEW m \in Nat, m <= n PROVE Opening(s, m, d) = Opening(t, m, d)
    OBVIOUS
  <2>1. \A i \in 1..m : t[i] = s[i]
    OBVIOUS
  <2> QED
    BY <2>1 DEF Opening
<1>2. \A m \in Nat : m <= n => Ending(s, m, d) = Ending(t, m, d)
  <2> SUFFICES ASSUME NEW m \in Nat, m <= n PROVE Ending(s, m, d) = Ending(t, m, d)
    OBVIOUS
  <2>1. CASE m >= 1
    <3>1. m - 1 \in Nat /\ m - 1 <= n /\ t[m] = s[m]
      BY <2>1
    <3> QED
      BY <1>1, <3>1 DEF Ending
  <2> QED
    BY <2>1 DEF Ending
<1>3. \A m \in Nat : m <= n => Counting(s, m, d) = Counting(t, m, d)
  <2> SUFFICES ASSUME NEW m \in Nat, m <= n PROVE Counting(s, m, d) = Counting(t, m, d)
    OBVIOUS
  <2>1. CASE m >= 2
    <3>1. m - 1 \in Nat /\ m - 1 <= n /\ t[m] = s[m]
      BY <2>1
    <3> QED
      BY <1>2, <3>1 DEF Counting
  <2> QED
    BY <2>1 DEF Counting
<1>4. Whole(s, n, d) = Whole(t, n, d)
  <2>1. CASE n >= 3
    <3>1. n - 1 \in Nat /\ n - 1 <= n /\ t[n] = s[n]
      BY <2>1
    <3> QED
      BY <1>3, <3>1 DEF Whole
  <2> QED
    BY <2>1 DEF Whole
<1>5. /\ Opening(s, n, d) = Opening(t, n, d) /\ Ending(s, n, d) = Ending(t, n, d)
      /\ Counting(s, n, d) = Counting(t, n, d)
  BY <1>1, <1>2, <1>3
<1>6. Beginning(s, n, d) = Beginning(t, n, d)
  BY <1>4, <1>5 DEF Beginning
<1>7. /\ Ending(s, n, d) => t[n] = s[n]
      /\ Counting(s, n, d) => t[n] = s[n] /\ t[n - 1] = s[n - 1]
      /\ Whole(s, n, d) => t[n - 1] = s[n - 1] /\ t[n - 2] = s[n - 2]
  BY DEF Ending, Counting, Whole
<1>8. At(p, s, n, d) => At(p, t, n, d)
  BY <1>4, <1>5, <1>7 DEF At
<1>9. Tallies(p, s, n) => Tallies(p, t, n)
  <2>1. {i \in 1..n : s[i] = "content"} = {i \in 1..n : t[i] = "content"}
    OBVIOUS
  <2>2. Count(s, n) = Count(t, n)
    BY <2>1 DEF Count
  <2>3. \A k : Some(s, n, k) = Some(t, n, k)
    BY DEF Some
  <2> QED
    BY <2>2, <2>3 DEF Tallies
<1> QED
  BY <1>6, <1>8, <1>9 DEF Follows

LEMMA FeedFollows ==
    ASSUME NEW s \in Seq(Pieces), NEW n \in 0..Len(s), NEW d \in Dialects, NEW now \in Nat,
           NEW p, Follows(p, s, n, d), Len(s) <= MaxResponse
    PROVE  Follows(feed(p, SubSeq(s, n + 1, Len(s)), Len(s), d, now), s, Len(s), d)
<1> DEFINE m == Len(s) - n
           chunk == SubSeq(s, n + 1, Len(s))
<1>1. m \in Nat /\ Len(s) \in Nat /\ n \in Nat /\ n + m = Len(s)
  OBVIOUS
<1>2. DOMAIN chunk = 1..m /\ \A i \in 1..m : chunk[i] = s[n + i] /\ s[n + i] \in Pieces
  OBVIOUS
<1>3. PICK g : Passage(g, p, chunk, m, d, now) /\ feed(p, chunk, Len(s), d, now) = g[m]
  <2>1. PICK a, b, c : a = m /\ b = chunk /\ c = Len(s)
    OBVIOUS
  <2>2. a \in Nat /\ DOMAIN b = 1..a /\ c \in Nat /\ c <= MaxResponse
    BY <1>1, <1>2, <2>1
  <2>3. \E g : Passage(g, p, b, a, d, now) /\ feed(p, b, c, d, now) = g[a]
    BY ONLY <2>2, FeedIs
  <2> QED
    BY <2>1, <2>3
<1> DEFINE Bad == {i \in 0..m : ~Follows(g[i], s, n + i, d)}
<1>4. Bad = {}
  <2> SUFFICES ASSUME Bad # {} PROVE FALSE
    OBVIOUS
  <2>1. PICK i \in Bad : \A j \in Bad : i <= j
    <3>1. Bad \in SUBSET Nat
      BY <1>1
    <3> HIDE DEF Bad
    <3> QED
      BY <3>1, LeastNumber
  <2>2. i # 0
    BY <1>1, <1>3 DEF Passage
  <2>3. i \in 1..m /\ i - 1 \in 0..m /\ i - 1 \notin Bad
    <3>1. Bad \in SUBSET (0..m)
      OBVIOUS
    <3> HIDE DEF Bad, m
    <3> QED
      BY <1>1, <2>1, <2>2, <3>1
  <2>4. Follows(g[i - 1], s, n + (i - 1), d) /\ n + (i - 1) \in Nat /\ (n + (i - 1)) + 1 = n + i
    BY <1>1, <2>3
  <2>5. g[i] = accept_piece(g[i - 1], s[n + i], d, now) /\ s[n + i] \in Pieces
    BY <1>2, <1>3, <2>3 DEF Passage
  <2>6. Follows(g[i], s, n + i, d)
    <3> HIDE DEF m, Bad
    <3>1. PICK k : k = n + (i - 1)
      OBVIOUS
    <3>2. k \in Nat /\ k + 1 = n + i /\ Follows(g[i - 1], s, k, d)
      BY <2>4, <3>1
    <3> QED
      BY <2>5, <3>2, StepFollows
  <2> QED
    BY <2>1, <2>6
<1>5. m \in 0..m
  BY <1>1
<1>6. Follows(g[m], s, n + m, d)
  BY <1>4, <1>5
<1> QED
  BY <1>1, <1>3, <1>6

LEMMA GrammarIsWhole ==
    ASSUME NEW s \in Seq(Pieces), NEW d \in Dialects
    PROVE  Grammar(s, d) <=> Len(s) <= MaxResponse /\ Whole(s, Len(s), d)
<1> DEFINE n == Len(s)
<1>1. n \in Nat /\ MaxResponse \in Nat
  BY BoundsAssumption
<1>2. Whole(s, n, d) <=>
        /\ n >= 3 /\ Opening(s, n - 3, d)
        /\ s[n - 2] \in Terminals(d) /\ s[n - 1] \in Usages /\ s[n] = "done"
  <2>1. (n - 1) - 1 = n - 2 /\ ((n - 1) - 1) - 1 = n - 3 /\ (n >= 3 => n - 1 >= 2 /\ (n - 1) - 1 >= 1)
    BY <1>1
  <2> QED
    BY <2>1 DEF Whole, Counting, Ending
<1>3. ASSUME n >= 3, s[n - 2] \in Terminals(d), s[n - 1] \in Usages, s[n] = "done"
      PROVE  /\ \A i \in 1..n : s[i] = "role" => i \in 1..(n - 3)
             /\ \A i, j \in 1..n : i < j /\ j \in 1..(n - 3) => i \in 1..(n - 3)
  <2>1. s[n - 2] # "role" /\ s[n - 1] # "role" /\ s[n] # "role"
    BY <1>3 DEF Terminals, Finishes, Usages
  <2>2. \A i \in 1..n : i \in 1..(n - 3) \/ i = n - 2 \/ i = n - 1 \/ i = n
    BY <1>1
  <2>3. \A i, j \in 1..n : i < j /\ j \in 1..(n - 3) => i \in 1..(n - 3)
    BY <1>1
  <2> QED
    BY <2>1, <2>2, <2>3
<1>4. 1..(n - 3) \subseteq 1..n
  BY <1>1
<1>5. Grammar(s, d) <=>
        /\ n \in 3..MaxResponse
        /\ \A i \in 1..(n - 3) : s[i] \in Heads(d)
        /\ s[n - 2] \in Terminals(d) /\ s[n - 1] \in Usages /\ s[n] = "done"
        /\ d = "strict_v1" => \A i, j \in 1..n : i < j /\ s[j] = "role" => s[i] = "empty"
  BY DEF Grammar
<1>6. n \in 3..MaxResponse <=> n >= 3 /\ n <= MaxResponse
  BY <1>1
<1> HIDE DEF n
<1>7. ASSUME Grammar(s, d) PROVE n <= MaxResponse /\ Whole(s, n, d)
  BY <1>2, <1>4, <1>5, <1>6, <1>7 DEF Opening
<1>8. ASSUME n <= MaxResponse, Whole(s, n, d) PROVE Grammar(s, d)
  <2>1. /\ n >= 3 /\ Opening(s, n - 3, d)
        /\ s[n - 2] \in Terminals(d) /\ s[n - 1] \in Usages /\ s[n] = "done"
    BY <1>2, <1>8
  <2>2. d = "strict_v1" => \A i, j \in 1..n : i < j /\ s[j] = "role" => s[i] = "empty"
    BY <1>3, <2>1 DEF Opening
  <2> QED
    BY <1>5, <1>6, <1>8, <2>1, <2>2 DEF Opening
<1> QED
  BY <1>7, <1>8 DEF n

LEMMA ViableBegins ==
    ASSUME NEW s \in Seq(Pieces), NEW d \in Dialects, Viable(s, d)
    PROVE  Len(s) <= MaxResponse /\ Beginning(s, Len(s), d)
<1>1. PICK rest \in {<<>>, <<"done">>, <<"usage", "done">>, <<"length", "usage", "done">>} :
         Grammar(s \o rest, d)
  BY DEF Viable
<1>2. rest \in Seq(Pieces) /\ Len(rest) \in 0..3
  <2>1. {"done", "usage", "length"} \subseteq Pieces
    BY DEF Pieces, Usages, Finishes
  <2>2. CASE rest = <<>>
    BY <2>2
  <2>3. CASE rest = <<"done">>
    BY <2>1, <2>3
  <2>4. CASE rest = <<"usage", "done">>
    BY <2>1, <2>4
  <2>5. CASE rest = <<"length", "usage", "done">>
    BY <2>1, <2>5
  <2> QED
    BY <2>2, <2>3, <2>4, <2>5
<1>3. PICK t : t = s \o rest
  OBVIOUS
<1>4. PICK n : n = Len(s)
  OBVIOUS
<1>5. n \in Nat /\ t \in Seq(Pieces) /\ Len(t) = n + Len(rest) /\ \A i \in 1..n : t[i] = s[i]
  BY <1>2, <1>3, <1>4
<1>6. Len(t) <= MaxResponse /\ Whole(t, Len(t), d)
  BY <1>1, <1>3, <1>5, GrammarIsWhole
<1>7. n <= MaxResponse
  BY <1>2, <1>5, <1>6, BoundsAssumption
<1>8. Beginning(t, n, d)
  <2>1. Beginning(t, n + Len(rest), d)
    BY <1>5, <1>6 DEF Beginning
  <2>2. \A m \in Nat : Beginning(t, m + 1, d) => Beginning(t, m, d)
    BY NoBeginning
  <2>3. n + 1 \in Nat /\ n + 2 \in Nat /\ (n + 1) + 1 = n + 2 /\ (n + 2) + 1 = n + 3 /\ n + 0 = n
    BY <1>5
  <2>4. Beginning(t, n + 1, d) => Beginning(t, n, d)
    BY <1>5, <2>2
  <2>5. Beginning(t, n + 2, d) => Beginning(t, n + 1, d)
    BY <2>2, <2>3
  <2>6. Beginning(t, n + 3, d) => Beginning(t, n + 2, d)
    BY <2>2, <2>3
  <2>7. Len(rest) = 0 \/ Len(rest) = 1 \/ Len(rest) = 2 \/ Len(rest) = 3
    BY <1>2
  <2> QED
    BY <2>1, <2>3, <2>4, <2>5, <2>6, <2>7
<1>9. Beginning(s, n, d)
  <2>1. ASSUME ~Beginning(s, n, d) PROVE FALSE
    <3> DEFINE p == [NewParser EXCEPT !.refused = TRUE]
    <3>1. p \in Parsers /\ p.refused
      <4>1. NewParser \in Parsers
        BY NewFollows DEF Follows
      <4> QED
        BY <4>1 DEF Parsers
    <3>2. Follows(p, s, n, d)
      BY <2>1, <3>1 DEF Follows, Sound
    <3>3. Follows(p, t, n, d)
      <4> HIDE DEF p
      <4> QED
        BY <1>5, <3>2, FollowsPrefix
    <3> QED
      BY <1>8, <3>1, <3>3 DEF Follows, Sound
  <2> QED
    BY <2>1
<1> QED
  BY <1>4, <1>7, <1>9

\* The parser finishes exactly the responses of the dialect.
LEMMA FinishIsGrammar ==
    ASSUME NEW s \in Seq(Pieces), NEW d \in Dialects, NEW p, Follows(p, s, Len(s), d),
           Len(s) <= MaxResponse
    PROVE  finish(p) <=> Grammar(s, d)
<1> DEFINE n == Len(s)
<1>1. n \in Nat /\ p \in Parsers
  BY DEF Follows
<1>2. Grammar(s, d) <=> Whole(s, n, d)
  BY GrammarIsWhole
<1>3. ASSUME finish(p) PROVE Whole(s, n, d)
  <2>1. Sound(p) /\ p.done
    BY <1>3 DEF finish, Follows, Sound
  <2> QED
    BY <2>1 DEF Follows, At
<1>4. ASSUME Whole(s, n, d) PROVE finish(p)
  <2>1. Sound(p)
    BY <1>4 DEF Follows, Beginning
  <2>2. /\ p.done /\ p.terminal = FinishReason(s[n - 2]) /\ p.usage = UsageTokens(s[n - 1])
    BY <1>1, <1>4, <2>1, Apart DEF Follows, At, Billed
  <2>3. s[n - 2] \in Finishes
    <3>1. (n - 1) - 1 = n - 2
      BY <1>1
    <3> QED
      BY <1>4, <3>1 DEF Whole, Counting, Ending, Terminals
  <2>4. p.terminal # None /\ p.usage # NoCount
    BY <2>2, <2>3, BoundsAssumption DEF FinishReason, UsageTokens, NoCount, None, Finishes
  <2> QED
    BY <2>1, <2>2, <2>4 DEF finish, Sound
<1> QED
  BY <1>2, <1>3, <1>4


-----------------------------------------------------------------------------
(* What is known of each request from the bytes it has read. *)

\* Nothing came back.
Fresh(s, t, closed, o) == s = <<>> /\ t = 0 /\ ~closed /\ ~o.wire

\* How the whole stream s was judged by the parser p.
Judged(s, p, o, d, authority, measured) ==
    /\ Follows(p, s, Len(s), d) /\ Len(s) <= MaxResponse
    /\ \/ ~finish(p) /\ o = failed_observation("request_failed")
       \/ /\ finish(p) /\ measured /\ counts_raise(completed(p), authority)
          /\ o = failed_observation("token_count_disagreement")
       \/ /\ finish(p) /\ (measured => ~counts_raise(completed(p), authority))
          /\ o = completed(p)

\* A request at place c with the pieces s sent, t of them read.
Known(c, s, t, closed, p, o, d, authority, measured) ==
    /\ s \in Seq(Pieces) /\ t \in 0..Len(s)
    /\ c \in {"idle", "queued", "asked"} => Fresh(s, t, closed, o) /\ p = NewParser
    /\ c = "reading" => Follows(p, s, t, d) /\ t <= MaxResponse /\ ~p.refused
    /\ c \in Ended =>
          \/ Fresh(s, t, closed, o)
          \/ o = failed_observation("timeout") /\ ~closed
          \/ /\ t = Len(s) /\ o = failed_observation("request_failed")
             /\ Len(s) > MaxResponse \/ ~Beginning(s, Len(s), d)
          \/ closed /\ t = Len(s) /\ Judged(s, p, o, d, authority, measured)

\* A broken request has failed; of the others it is known what they read.
KnownOf(r) ==
    /\ r \in broken => pc[r] \in Ended /\ obs[r] = failed_observation("request_failed")
    /\ r \notin broken => Known(pc[r], sent[r], taken[r], r \in eof, parser[r], obs[r],
                               plan.dialect, plan.authority, r \in Measured)

ReadType ==
    /\ sent = [r \in Requests |-> sent[r]] /\ taken = [r \in Requests |-> taken[r]]
    /\ parser = [r \in Requests |-> parser[r]] /\ eof \subseteq Requests

ReadInv == ReadType /\ \A r \in Requests : KnownOf(r)

\* A step of request r leaves the others alone.
Only(r) ==
    /\ plan' = plan /\ ReadType'
    /\ \A q \in Requests : q # r =>
          /\ pc'[q] = pc[q] /\ sent'[q] = sent[q] /\ taken'[q] = taken[q]
          /\ parser'[q] = parser[q] /\ obs'[q] = obs[q]
          /\ q \in eof' <=> q \in eof
          /\ q \in broken' <=> q \in broken

LEMMA OnlyKeeps ==
    ASSUME TypeOK, ReadInv, NEW r \in Requests, Only(r), KnownOf(r)'
    PROVE  ReadInv'
<1>1. ASSUME NEW q \in Requests, q # r PROVE KnownOf(q)'
  <2>0. q \in broken' <=> q \in broken
    BY <1>1 DEF Only
  <2>1. ASSUME q \notin broken
        PROVE  Known(pc[q], sent[q], taken[q], q \in eof, parser[q], obs[q],
                     plan.dialect, plan.authority, q \in Measured)
    BY <2>1 DEF ReadInv, KnownOf
  <2>2. /\ pc'[q] = pc[q] /\ sent'[q] = sent[q] /\ taken'[q] = taken[q] /\ parser'[q] = parser[q]
        /\ obs'[q] = obs[q] /\ (q \in eof') = (q \in eof) /\ plan' = plan
    BY <1>1 DEF Only
  <2>3. (q \in Measured)' = (q \in Measured)
    BY <2>2 DEF Measured
  <2>4. ASSUME q \notin broken
        PROVE  Known(pc'[q], sent'[q], taken'[q], q \in eof', parser'[q], obs'[q],
                     plan'.dialect, plan'.authority, (q \in Measured)')
    BY <2>1, <2>2, <2>3, <2>4
  <2>5. q \in broken => pc'[q] \in Ended /\ obs'[q] = failed_observation("request_failed")
    BY <2>2 DEF ReadInv, KnownOf
  <2> QED
    BY <2>0, <2>4, <2>5 DEF KnownOf
<1>2. \A q \in Requests : KnownOf(q)'
  BY <1>1
<1> QED
  BY <1>2 DEF ReadInv, Only

LEMMA PlanDialect ==
    ASSUME TypeOK PROVE plan.dialect \in Dialects
BY PlansAssumption DEF TypeOK, Dialects

\* Failing touches the one request.
LEMMA FailIs ==
    ASSUME TypeOK, NEW r \in Requests, NEW error, Fail(r, error)
    PROVE  /\ pc'[r] \in Ended /\ obs'[r] = failed_observation(error) /\ ~obs'[r].wire
           /\ \A q \in Requests : q # r => pc'[q] = pc[q] /\ obs'[q] = obs[q]
<1>1. pc \in [Requests -> States] /\ obs = [q \in Requests |-> obs[q]]
  BY DEF TypeOK
<1> QED
  BY <1>1 DEF Fail, Ended, failed_observation

\* A request that has not ended is not broken.
LEMMA NotBroken ==
    ASSUME ReadInv, NEW r \in Requests, pc[r] \in {"idle", "queued", "asked", "reading"}
    PROVE  /\ r \notin broken
           /\ Known(pc[r], sent[r], taken[r], r \in eof, parser[r], obs[r],
                    plan.dialect, plan.authority, r \in Measured)
BY DEF ReadInv, KnownOf, Ended

LEMMA BeforeReading ==
    ASSUME TypeOK, ReadInv, NEW r \in Requests,
           \/ Submit(r) \/ Start(r) \/ PromptFails(r) \/ BadHead(r) \/ GoodHead(r)
    PROVE  ReadInv'
<1>1. /\ pc[r] \in {"idle", "queued", "asked"}
      /\ plan' = plan /\ sent' = sent /\ eof' = eof /\ taken' = taken /\ parser' = parser
      /\ broken' = broken
  BY DEF Submit, Start, PromptFails, BadHead, GoodHead
<1>2. /\ Fresh(sent[r], taken[r], r \in eof, obs[r]) /\ parser[r] = NewParser
      /\ sent[r] \in Seq(Pieces) /\ taken[r] \in 0..Len(sent[r]) /\ r \notin broken
  BY <1>1, NotBroken DEF Known
<1>3. /\ \A q \in Requests : q # r => pc'[q] = pc[q] /\ obs'[q] = obs[q]
      /\ ~obs'[r].wire /\ pc'[r] \in {"queued", "asked", "reading"} \cup Ended
  <2>1. CASE BadHead(r)
    BY <2>1, FailIs DEF BadHead
  <2>2. CASE Submit(r) \/ Start(r) \/ PromptFails(r) \/ GoodHead(r)
    <3>1. /\ obs' = obs
          /\ \E v \in {"queued", "asked", "reading", "raised"} : pc' = [pc EXCEPT ![r] = v]
      BY <2>2 DEF Submit, Start, PromptFails, GoodHead
    <3>2. pc \in [Requests -> States]
      BY DEF TypeOK
    <3> QED
      BY <1>2, <3>1, <3>2 DEF Ended, Fresh
  <2> QED
    BY <2>1, <2>2
<1>4. Only(r)
  <2>1. ReadType'
    BY <1>1 DEF ReadInv, ReadType
  <2> QED
    BY <1>1, <1>3, <2>1 DEF Only
<1>5. Fresh(sent[r], taken[r], r \in eof, obs'[r])
  BY <1>2, <1>3 DEF Fresh
<1>6. /\ Follows(NewParser, sent[r], 0, plan.dialect) /\ taken[r] = 0 /\ 0 <= MaxResponse
      /\ ~NewParser.refused
  <2>1. ~NewParser.refused
    BY DEF NewParser
  <2>2. taken[r] = 0 /\ 0 <= MaxResponse
    BY <1>2, BoundsAssumption DEF Fresh
  <2> QED
    BY <2>1, <2>2, NewFollows
<1>7. Known(pc'[r], sent[r], taken[r], r \in eof, parser[r], obs'[r],
            plan.dialect, plan.authority, (r \in Measured)')
  BY <1>2, <1>3, <1>5, <1>6 DEF Known, Ended
<1>8. KnownOf(r)'
  BY <1>1, <1>2, <1>7 DEF KnownOf
<1> QED
  BY <1>4, <1>8, OnlyKeeps

LEMMA WhileReading ==
    ASSUME TypeOK, ReadInv, NEW r \in Requests,
           Close(r) \/ (\E k \in Pieces : Send(r, k))
    PROVE  ReadInv'
<1>1. /\ pc[r] = "reading" /\ plan' = plan /\ pc' = pc /\ taken' = taken /\ parser' = parser
      /\ obs' = obs /\ broken' = broken
  BY DEF Close, Send
<1>2. PICK s : s = sent[r]
  OBVIOUS
<1>3. PICK n : n = taken[r]
  OBVIOUS
<1>4. /\ s \in Seq(Pieces) /\ n \in 0..Len(s) /\ n \in Nat
      /\ Follows(parser[r], s, n, plan.dialect) /\ n <= MaxResponse /\ ~parser[r].refused
      /\ r \notin broken
  BY <1>1, <1>2, <1>3, NotBroken DEF Known
<1>5. ASSUME NEW t, t \in Seq(Pieces), Len(s) <= Len(t), \A i \in 1..Len(s) : t[i] = s[i],
             sent'[r] = t
      PROVE  KnownOf(r)'
  <2>1. Follows(parser[r], t, n, plan.dialect)
    <3>1. \A i \in 1..n : t[i] = s[i]
      BY <1>4, <1>5
    <3> QED
      BY <1>4, <3>1, FollowsPrefix
  <2>2. n \in 0..Len(t)
    BY <1>4, <1>5
  <2>3. Known("reading", t, n, (r \in eof)', parser[r], obs[r], plan.dialect, plan.authority,
              (r \in Measured)')
    BY <1>4, <1>5, <2>1, <2>2 DEF Known, Ended
  <2> QED
    BY <1>1, <1>3, <1>4, <1>5, <2>3 DEF KnownOf
<1>6. CASE Close(r)
  <2>1. eof' = eof \cup {r} /\ sent' = sent
    BY <1>6 DEF Close
  <2>2. KnownOf(r)'
    BY <1>2, <1>4, <1>5, <2>1
  <2>3. Only(r)
    BY <1>1, <2>1 DEF Only, ReadInv, ReadType
  <2> QED
    BY <2>2, <2>3, OnlyKeeps
<1>7. CASE \E k \in Pieces : Send(r, k)
  <2>1. PICK k \in Pieces : Send(r, k)
    BY <1>7
  <2>2. eof' = eof /\ sent' = [sent EXCEPT ![r] = Append(sent[r], k)]
    BY <2>1 DEF Send
  <2>3. /\ sent'[r] = Append(s, k) /\ \A q \in Requests : q # r => sent'[q] = sent[q]
        /\ sent' = [q \in Requests |-> sent'[q]]
    BY <1>2, <2>2 DEF ReadInv, ReadType
  <2>4. /\ Append(s, k) \in Seq(Pieces) /\ Len(s) <= Len(Append(s, k))
        /\ \A i \in 1..Len(s) : Append(s, k)[i] = s[i]
    BY <1>4
  <2>5. KnownOf(r)'
    BY <1>5, <2>3, <2>4
  <2>6. Only(r)
    BY <1>1, <2>2, <2>3 DEF Only, ReadInv, ReadType
  <2> QED
    BY <2>5, <2>6, OnlyKeeps
<1> QED
  BY <1>6, <1>7

LEMMA ReadKnows ==
    ASSUME TypeOK, ReadInv, NEW r \in Requests, Read(r)
    PROVE  ReadInv'
<1>1. PICK s, n, p, d : s = sent[r] /\ n = taken[r] /\ p = parser[r] /\ d = plan.dialect
  OBVIOUS
<1>2. PICK fed : fed = feed(p, SubSeq(s, n + 1, Len(s)), Len(s), d, Len(s))
  OBVIOUS
<1>3. /\ pc[r] = "reading" /\ plan' = plan /\ sent' = sent /\ eof' = eof /\ broken' = broken
      /\ taken' = [taken EXCEPT ![r] = Len(s)] /\ parser' = [parser EXCEPT ![r] = fed]
      /\ IF fed.refused THEN Fail(r, "request_failed") ELSE UNCHANGED <<pc, obs>>
  BY <1>1, <1>2 DEF Read
<1>4. /\ s \in Seq(Pieces) /\ n \in 0..Len(s) /\ Len(s) \in Nat /\ d \in Dialects
      /\ Follows(p, s, n, d) /\ r \notin broken
  BY <1>1, <1>3, PlanDialect, NotBroken DEF Known
<1>5. /\ taken'[r] = Len(s) /\ parser'[r] = fed /\ ReadType'
      /\ \A q \in Requests : q # r => taken'[q] = taken[q] /\ parser'[q] = parser[q]
  BY <1>3 DEF ReadInv, ReadType
<1>6. /\ Len(s) <= MaxResponse => Follows(fed, s, Len(s), d)
      /\ ~(Len(s) <= MaxResponse) => fed.refused
  <2>1. CASE Len(s) <= MaxResponse
    BY <1>2, <1>4, <2>1, FeedFollows
  <2>2. CASE ~(Len(s) <= MaxResponse)
    <3>1. Len(s) > MaxResponse /\ p \in Parsers
      BY <1>4, <2>2, BoundsAssumption DEF Follows
    <3>2. fed = [p EXCEPT !.refused = TRUE]
      BY <1>2, <3>1 DEF feed
    <3> QED
      BY <2>2, <3>1, <3>2 DEF Parsers
  <2> QED
    BY <2>1, <2>2
<1>7. CASE fed.refused
  <2>1. /\ pc'[r] \in Ended /\ obs'[r] = failed_observation("request_failed")
        /\ \A q \in Requests : q # r => pc'[q] = pc[q] /\ obs'[q] = obs[q]
    BY <1>3, <1>7, FailIs
  <2>2. Len(s) > MaxResponse \/ ~Beginning(s, Len(s), d)
    BY <1>4, <1>6, <1>7, BoundsAssumption DEF Follows, Sound
  <2>3. Known(pc'[r], s, Len(s), r \in eof, fed, obs'[r], d, plan.authority, (r \in Measured)')
    BY <1>4, <2>1, <2>2 DEF Known, Ended
  <2>4. KnownOf(r)'
    BY <1>1, <1>3, <1>4, <1>5, <2>3 DEF KnownOf
  <2>5. Only(r)
    BY <1>3, <1>5, <2>1 DEF Only
  <2> QED
    BY <2>4, <2>5, OnlyKeeps
<1>8. CASE ~fed.refused
  <2>1. pc' = pc /\ obs' = obs
    BY <1>3, <1>8
  <2>2. Known("reading", s, Len(s), r \in eof, fed, obs[r], d, plan.authority, (r \in Measured)')
    BY <1>4, <1>6, <1>8 DEF Known, Ended
  <2>3. KnownOf(r)'
    BY <1>1, <1>3, <1>4, <1>5, <2>1, <2>2 DEF KnownOf
  <2>4. Only(r)
    BY <1>3, <1>5, <2>1 DEF Only
  <2> QED
    BY <2>3, <2>4, OnlyKeeps
<1> QED
  BY <1>7, <1>8

LEMMA FinishKnows ==
    ASSUME TypeOK, ReadInv, NEW r \in Requests, Finish(r)
    PROVE  ReadInv'
<1>1. PICK s, p, d, a : s = sent[r] /\ p = parser[r] /\ d = plan.dialect /\ a = plan.authority
  OBVIOUS
<1>2. /\ pc[r] = "reading" /\ r \in eof /\ Len(s) - taken[r] = 0
      /\ plan' = plan /\ sent' = sent /\ eof' = eof /\ taken' = taken /\ parser' = parser
      /\ broken' = broken
  BY <1>1 DEF Finish, Buffered
<1>3. IF ~finish(p) THEN Fail(r, "request_failed")
      ELSE IF r \in Measured /\ counts_raise(completed(p), a)
           THEN Fail(r, "token_count_disagreement")
      ELSE /\ obs' = [obs EXCEPT ![r] = completed(p)]
           /\ pc' = [pc EXCEPT ![r] = "done"]
  BY <1>1 DEF Finish
<1>4. /\ s \in Seq(Pieces) /\ taken[r] \in 0..Len(s) /\ Len(s) \in Nat
      /\ Follows(p, s, taken[r], d) /\ taken[r] <= MaxResponse /\ r \notin broken
  BY <1>1, <1>2, NotBroken DEF Known
<1>5. taken[r] = Len(s)
  BY <1>2, <1>4
<1>6. (r \in Measured)' = (r \in Measured)
  BY <1>2 DEF Measured
<1>7. /\ pc'[r] \in Ended /\ Judged(s, p, obs'[r], d, a, r \in Measured)
      /\ \A q \in Requests : q # r => pc'[q] = pc[q] /\ obs'[q] = obs[q]
  <2>1. CASE ~finish(p)
    BY <1>3, <1>4, <1>5, <2>1, FailIs DEF Judged
  <2>2. CASE finish(p) /\ r \in Measured /\ counts_raise(completed(p), a)
    BY <1>3, <1>4, <1>5, <2>2, FailIs DEF Judged
  <2>3. CASE finish(p) /\ ~(r \in Measured /\ counts_raise(completed(p), a))
    <3>1. obs' = [obs EXCEPT ![r] = completed(p)] /\ pc' = [pc EXCEPT ![r] = "done"]
      BY <1>3, <2>3
    <3>2. /\ obs'[r] = completed(p) /\ pc'[r] = "done"
          /\ \A q \in Requests : q # r => pc'[q] = pc[q] /\ obs'[q] = obs[q]
      BY <3>1 DEF TypeOK
    <3> QED
      BY <1>4, <1>5, <2>3, <3>2 DEF Judged, Ended
  <2> QED
    BY <2>1, <2>2, <2>3
<1>8. Known(pc'[r], s, Len(s), TRUE, p, obs'[r], d, a, r \in Measured)
  BY <1>4, <1>5, <1>7 DEF Known, Ended
<1>9. KnownOf(r)'
  <2>1. (r \in eof)' = TRUE
    BY <1>2
  <2> QED
    BY <1>1, <1>2, <1>4, <1>5, <1>6, <1>8, <2>1 DEF KnownOf
<1>10. Only(r)
  BY <1>2, <1>7 DEF Only, ReadInv, ReadType
<1> QED
  BY <1>9, <1>10, OnlyKeeps

LEMMA TimeoutKnows ==
    ASSUME TypeOK, ReadInv, NEW r \in Requests, Timeout(r)
    PROVE  ReadInv'
<1>1. /\ plan' = plan /\ sent' = sent /\ eof' = eof /\ taken' = taken /\ parser' = parser
      /\ broken' = broken
      /\ pc[r] = "asked" \/ (pc[r] = "reading" /\ r \notin eof)
  BY DEF Timeout
<1>2. /\ pc'[r] \in Ended /\ obs'[r] = failed_observation("timeout") /\ ~obs'[r].wire
      /\ \A q \in Requests : q # r => pc'[q] = pc[q] /\ obs'[q] = obs[q]
  BY FailIs DEF Timeout
<1>3. /\ sent[r] \in Seq(Pieces) /\ taken[r] \in 0..Len(sent[r])
      /\ pc[r] = "asked" => Fresh(sent[r], taken[r], r \in eof, obs[r])
      /\ r \notin broken
  BY <1>1, NotBroken DEF Known
<1>4. Known(pc'[r], sent[r], taken[r], r \in eof, parser[r], obs'[r], plan.dialect,
            plan.authority, (r \in Measured)')
  BY <1>1, <1>2, <1>3 DEF Known, Fresh, Ended
<1>5. KnownOf(r)'
  BY <1>1, <1>3, <1>4 DEF KnownOf
<1>6. Only(r)
  BY <1>1, <1>2 DEF Only, ReadInv, ReadType
<1> QED
  BY <1>5, <1>6, OnlyKeeps

LEMMA BreakKnows ==
    ASSUME TypeOK, ReadInv, NEW r \in Requests, ConnectionBreaks(r) \/ CountFails(r)
    PROVE  ReadInv'
<1>1. /\ plan' = plan /\ sent' = sent /\ eof' = eof /\ taken' = taken /\ parser' = parser
      /\ broken' = broken \cup {r} /\ Fail(r, "request_failed")
  BY DEF ConnectionBreaks, CountFails
<1>2. /\ pc'[r] \in Ended /\ obs'[r] = failed_observation("request_failed")
      /\ \A q \in Requests : q # r => pc'[q] = pc[q] /\ obs'[q] = obs[q]
  BY <1>1, FailIs
<1>3. KnownOf(r)'
  BY <1>1, <1>2 DEF KnownOf
<1>4. Only(r)
  BY <1>1, <1>2 DEF Only, ReadInv, ReadType
<1> QED
  BY <1>3, <1>4, OnlyKeeps

LEMMA ReadInvariance == Spec => []ReadInv
<1>1. Init => ReadInv
  <2> SUFFICES ASSUME Init PROVE ReadInv
    OBVIOUS
  <2>1. ReadType
    BY DEF Init, ReadType
  <2>2. ASSUME NEW r \in Requests PROVE KnownOf(r)
    <3>1. /\ pc[r] = "idle" /\ sent[r] = <<>> /\ taken[r] = 0 /\ r \notin eof
          /\ parser[r] = NewParser /\ ~obs[r].wire /\ r \notin broken
      BY DEF Init, failed_observation
    <3>2. sent[r] \in Seq(Pieces) /\ taken[r] \in 0..Len(sent[r])
      BY <3>1
    <3> QED
      BY <3>1, <3>2 DEF KnownOf, Known, Fresh, Ended
  <2> QED
    BY <2>1, <2>2 DEF ReadInv
<1>2. IndInv /\ ReadInv /\ [Next]_vars => ReadInv'
  <2> SUFFICES ASSUME IndInv, ReadInv, [Next]_vars PROVE ReadInv'
    OBVIOUS
  <2>1. TypeOK
    BY DEF IndInv
  <2>2. CASE LeaveWarmup \/ Collect \/ UNCHANGED vars
    <3>1. UNCHANGED <<plan, reqVars>>
      BY <2>2 DEF LeaveWarmup, Collect, vars
    <3> QED
      BY <3>1 DEF ReadInv, ReadType, KnownOf, reqVars, Measured
  <2>3. CASE \E r \in Requests :
               \/ Submit(r) \/ Start(r) \/ PromptFails(r) \/ BadHead(r) \/ GoodHead(r)
               \/ Close(r) \/ Read(r) \/ Finish(r) \/ Timeout(r)
               \/ ConnectionBreaks(r) \/ CountFails(r)
               \/ \E k \in Pieces : Send(r, k)
    BY <2>1, <2>3, BeforeReading, WhileReading, ReadKnows, FinishKnows, TimeoutKnows,
       BreakKnows
  <2> QED
    BY <2>2, <2>3 DEF Next
<1> QED
  BY <1>1, <1>2, Invariance, PTL DEF Spec

-----------------------------------------------------------------------------
(* The dialect, and what makes a completion valid. *)

\* For any stream of any length, however it is cut into reads: the incremental
\* parser accepts exactly the responses of the dialect, and what it refuses on
\* the way is the beginning of none.
\* Code: SSEParser.feed, _accept_line, _accept_event, finish.
THEOREM DialectAccepted == Spec => []AcceptsTheDialect
<1>1. IndInv /\ ReadInv => AcceptsTheDialect
  <2> SUFFICES ASSUME IndInv, ReadInv, NEW r \in Requests \ broken,
                      pc[r] \in Ended, taken[r] > 0, taken[r] = Len(sent[r])
               PROVE  /\ r \in eof /\ Verdict(r) # "timeout" =>
                            (Grammar(sent[r], plan.dialect) <=>
                                Verdict(r) \in {None, "token_count_disagreement"})
                      /\ r \notin eof /\ Verdict(r) = "request_failed" =>
                            ~Viable(sent[r], plan.dialect)
    BY DEF AcceptsTheDialect
  <2>1. PICK s, p, o, d, a : s = sent[r] /\ p = parser[r] /\ o = obs[r] /\ d = plan.dialect
                             /\ a = plan.authority
    OBVIOUS
  <2>2. s \in Seq(Pieces) /\ d \in Dialects /\ taken[r] = Len(s)
    BY <2>1, PlanDialect DEF IndInv, ReadInv, KnownOf, Known
  <2>3. \/ o = failed_observation("timeout") /\ r \notin eof
        \/ /\ o = failed_observation("request_failed")
           /\ Len(s) > MaxResponse \/ ~Beginning(s, Len(s), d)
        \/ r \in eof /\ Judged(s, p, o, d, a, r \in Measured)
    BY <2>1 DEF ReadInv, KnownOf, Known, Fresh
  <2>4. \A e : failed_observation(e).error = e
    BY DEF failed_observation
  <2>5. completed(p).error = None
    BY DEF completed
  <2>6. Len(s) > MaxResponse => ~(Len(s) <= MaxResponse)
    BY <2>2, BoundsAssumption
  <2>7. CASE o = failed_observation("timeout") /\ r \notin eof
    BY <2>1, <2>4, <2>7 DEF Verdict
  <2>8. CASE /\ o = failed_observation("request_failed")
             /\ Len(s) > MaxResponse \/ ~Beginning(s, Len(s), d)
    <3>1. ~Grammar(s, d) /\ ~Viable(s, d)
      BY <2>2, <2>6, <2>8, GrammarIsWhole, ViableBegins DEF Beginning
    <3>2. Verdict(r) = "request_failed"
      BY <2>1, <2>4, <2>8 DEF Verdict
    <3> QED
      BY <2>1, <3>1, <3>2 DEF None
  <2>9. CASE r \in eof /\ Judged(s, p, o, d, a, r \in Measured)
    <3>1. finish(p) <=> Grammar(s, d)
      BY <2>2, <2>9, FinishIsGrammar DEF Judged
    <3>2. /\ ~finish(p) => Verdict(r) = "request_failed"
          /\ finish(p) => Verdict(r) \in {None, "token_count_disagreement"}
      BY <2>1, <2>4, <2>5, <2>9 DEF Judged, Verdict
    <3> QED
      BY <2>1, <2>9, <3>1, <3>2 DEF None
  <2> QED
    BY <2>3, <2>7, <2>8, <2>9
<1> QED
  BY <1>1, Invariance, ReadInvariance, PTL

\* What a whole response reports, from its terminal and its usage chunk.
LEMMA WholeReports ==
    ASSUME NEW s \in Seq(Pieces), NEW d \in Dialects, NEW n, n = Len(s), Whole(s, n, d)
    PROVE  /\ \A k \in Finishes : k \in ToSet(s) <=> s[n - 2] = k
           /\ \A k \in Usages : k \in ToSet(s) <=> s[n - 1] = k
           /\ s[n - 2] \in Finishes /\ s[n - 1] \in Usages
<1>1. /\ n \in Nat /\ n >= 3 /\ Opening(s, n - 3, d)
      /\ s[n - 2] \in Terminals(d) /\ s[n - 1] \in Usages /\ s[n] = "done"
  <2>1. n \in Nat /\ (n - 1) - 1 = n - 2 /\ ((n - 1) - 1) - 1 = n - 3
    OBVIOUS
  <2> QED
    BY <2>1 DEF Whole, Counting, Ending
<1>2. DOMAIN s = 1..n /\ n - 2 \in 1..n /\ n - 1 \in 1..n
  BY <1>1
<1>3. \A i \in 1..n : i \in 1..(n - 3) \/ i = n - 2 \/ i = n - 1 \/ i = n
  BY <1>1
<1>4. \A i \in 1..(n - 3) : s[i] \in Heads(d)
  BY <1>1 DEF Opening
<1>5. \A k : /\ k \in Heads(d) => k \notin Finishes /\ k \notin Usages
             /\ k \in Finishes => k \notin Usages
             /\ k \in Terminals(d) => k \in Finishes
  BY DEF Heads, Outputs, Finishes, Usages, Terminals
<1>6. "done" \notin Finishes /\ "done" \notin Usages
  BY DEF Finishes, Usages
<1>7. \A k : k \in ToSet(s) <=> \E i \in 1..n : s[i] = k
  BY <1>2 DEF ToSet
<1> QED
  BY <1>1, <1>2, <1>3, <1>4, <1>5, <1>6, <1>7, SMTT(30)

\* The definition of a valid completion in terms of the stream alone.
Earned(s, t, closed, o, d, authority) ==
    LET contents == Cardinality({i \in DOMAIN s : s[i] = "content"})
        reports(k) == k \in ToSet(s)
    IN  /\ closed /\ t = Len(s) /\ o.error # "timeout"
        /\ Grammar(s, d) /\ contents > 0
        /\ authority # "server_usage" => contents = Required
        /\ authority = "server_usage" => ~reports("usage_short")
        /\ authority = "both" => reports("usage")
        /\ \/ reports("length") \/ reports("length_role")
           \/ reports("stop") /\ ~reports("usage_short")

\* Of a finished parser.
LEMMA EarnedByParser ==
    ASSUME NEW s \in Seq(Pieces), NEW d \in Dialects, NEW p, Follows(p, s, Len(s), d),
           finish(p), Len(s) <= MaxResponse, NEW o, o.error # "timeout",
           NEW a \in {"server_usage", "benchmark_tokenizer", "both"}
    PROVE  Earned(s, Len(s), TRUE, o, d, a) <=>
              /\ completion_valid(completed(p), a)
              /\ ~counts_raise(completed(p), a)
<1>1. PICK n : n = Len(s)
  OBVIOUS
<1>2. n \in Nat /\ p \in Parsers /\ Grammar(s, d) /\ Whole(s, n, d)
  BY <1>1, FinishIsGrammar, GrammarIsWhole DEF Follows
<1>3. Sound(p) /\ p.done
  BY <1>1, <1>2 DEF Follows, Beginning, finish
<1>4. /\ p.terminal = FinishReason(s[n - 2]) /\ Billed(p, s[n - 1])
      /\ Tallies(p, s, n)
  BY <1>1, <1>2, <1>3, Apart DEF Follows, At
<1>5. /\ \A k \in Finishes : k \in ToSet(s) <=> s[n - 2] = k
      /\ \A k \in Usages : k \in ToSet(s) <=> s[n - 1] = k
      /\ s[n - 2] \in Finishes /\ s[n - 1] \in Usages
  BY <1>1, <1>2, WholeReports
<1>6. /\ "usage" \in ToSet(s) <=> p.usage = Required /\ p.prompt
      /\ "usage_short" \in ToSet(s) <=> p.usage # Required
      /\ p.usage # NoCount /\ Required \in Nat \ {0}
  <2>1. /\ "usage" \in ToSet(s) <=> s[n - 1] = "usage"
        /\ "usage_short" \in ToSet(s) <=> s[n - 1] = "usage_short"
    BY <1>5 DEF Usages
  <2>2. s[n - 1] = "usage" \/ s[n - 1] = "usage_short" \/ s[n - 1] = "usage_input"
    BY <1>5 DEF Usages
  <2> QED
    BY <1>4, <2>1, <2>2, BoundsAssumption DEF Billed, UsageTokens, NoCount
<1>7. /\ ("length" \in ToSet(s) \/ "length_role" \in ToSet(s)) <=> p.terminal = "length"
      /\ "stop" \in ToSet(s) <=> p.terminal = "stop"
  BY <1>4, <1>5 DEF Finishes, FinishReason
<1>8. PICK c : c = Cardinality({i \in DOMAIN s : s[i] = "content"})
  OBVIOUS
<1>9. c = p.visible /\ p.visible \in Nat /\ (p.stamps = <<>> <=> p.visible = 0)
  <2>1. DOMAIN s = 1..n
    BY <1>1
  <2>2. p.visible = Count(s, n) /\ (p.stamps = <<>> <=> p.visible = 0)
    BY <1>4 DEF Tallies
  <2>3. p.visible \in Nat
    BY <1>2 DEF Parsers
  <2> QED
    BY <1>8, <2>1, <2>2, <2>3 DEF Count
<1>10. PICK x : x = completed(p)
  OBVIOUS
<1>11. /\ x.wire /\ x.error = None /\ x.server = p.usage /\ x.tokens = p.visible
       /\ x.stamps = p.stamps /\ x.prompt = p.prompt
       /\ x.finish_ok <=> p.terminal = "length" \/ (p.terminal = "stop" /\ p.usage = Required)
  BY <1>10 DEF completed
<1>12. completion_valid(x, a) <=>
         canonical_output(x, a) = Required /\ x.stamps # <<>> /\ x.finish_ok
  BY <1>11 DEF completion_valid, error_classes
<1>13. Earned(s, Len(s), TRUE, o, d, a) <=>
         /\ c > 0
         /\ a # "server_usage" => c = Required
         /\ a = "server_usage" => "usage_short" \notin ToSet(s)
         /\ a = "both" => "usage" \in ToSet(s)
         /\ \/ "length" \in ToSet(s) \/ "length_role" \in ToSet(s)
            \/ "stop" \in ToSet(s) /\ "usage_short" \notin ToSet(s)
  BY <1>2, <1>8 DEF Earned
<1>14. /\ counts_raise(x, a) <=> a = "both" /\ (p.usage # p.visible \/ ~p.prompt)
  BY <1>6, <1>11 DEF counts_raise
<1>15. canonical_output(x, a) = IF a = "server_usage" THEN p.usage ELSE p.visible
  BY <1>11 DEF canonical_output
<1>16. c > 0 <=> p.stamps # <<>>
  BY <1>9
<1>17. Earned(s, Len(s), TRUE, o, d, a) <=>
         /\ p.stamps # <<>>
         /\ a # "server_usage" => p.visible = Required
         /\ a = "server_usage" => p.usage = Required
         /\ a = "both" => p.usage = Required /\ p.prompt
         /\ p.terminal = "length" \/ (p.terminal = "stop" /\ p.usage = Required)
  BY <1>6, <1>7, <1>9, <1>13, <1>16
<1> QED
  BY <1>10, <1>11, <1>12, <1>14, <1>15, <1>17

\* Of a request that is done.
LEMMA EarnedByRequest ==
    ASSUME NEW s, NEW t, NEW closed, NEW p, NEW o, NEW d \in Dialects,
           NEW a \in {"server_usage", "benchmark_tokenizer", "both"},
           Known("done", s, t, closed, p, o, d, a, TRUE)
    PROVE  completion_valid(o, a) <=> Earned(s, t, closed, o, d, a)
<1>1. s \in Seq(Pieces) /\ Len(s) \in Nat
  BY DEF Known
<1>2. \/ Fresh(s, t, closed, o)
      \/ o = failed_observation("timeout") /\ ~closed
      \/ /\ t = Len(s) /\ o = failed_observation("request_failed")
         /\ Len(s) > MaxResponse \/ ~Beginning(s, Len(s), d)
      \/ closed /\ t = Len(s) /\ Judged(s, p, o, d, a, TRUE)
  BY DEF Known, Ended
<1>3. \A e : ~failed_observation(e).wire /\ failed_observation(e).error = e
  BY DEF failed_observation
<1>4. CASE Fresh(s, t, closed, o)
  BY <1>4 DEF Fresh, Earned, completion_valid
<1>5. CASE o = failed_observation("timeout") /\ ~closed
  BY <1>3, <1>5 DEF Earned, completion_valid
<1>6. CASE /\ t = Len(s) /\ o = failed_observation("request_failed")
           /\ Len(s) > MaxResponse \/ ~Beginning(s, Len(s), d)
  <2>1. ~(Len(s) <= MaxResponse) \/ ~Whole(s, Len(s), d)
    BY <1>1, <1>6, BoundsAssumption DEF Beginning
  <2>2. ~Grammar(s, d)
    BY <1>1, <2>1, GrammarIsWhole
  <2> QED
    BY <1>3, <1>6, <2>2 DEF Earned, completion_valid
<1>7. CASE closed /\ t = Len(s) /\ Judged(s, p, o, d, a, TRUE)
  <2>1. /\ Follows(p, s, Len(s), d) /\ Len(s) <= MaxResponse
        /\ Earned(s, t, closed, o, d, a) <=> Earned(s, Len(s), TRUE, o, d, a)
    BY <1>7 DEF Judged, Earned
  <2>2. CASE ~finish(p) /\ o = failed_observation("request_failed")
    <3>1. ~Grammar(s, d)
      BY <1>1, <2>1, <2>2, FinishIsGrammar
    <3> QED
      BY <1>3, <2>2, <3>1 DEF Earned, completion_valid
  <2>3. CASE /\ finish(p) /\ counts_raise(completed(p), a)
             /\ o = failed_observation("token_count_disagreement")
    <3>1. o.error # "timeout" /\ ~o.wire
      BY <1>3, <2>3
    <3>2. ~Earned(s, Len(s), TRUE, o, d, a)
      BY <1>1, <2>1, <2>3, <3>1, EarnedByParser
    <3> QED
      BY <1>7, <2>1, <3>1, <3>2 DEF completion_valid
  <2>4. CASE finish(p) /\ ~counts_raise(completed(p), a) /\ o = completed(p)
    <3>1. o.error # "timeout"
      BY <2>4 DEF completed, None
    <3>2. Earned(s, Len(s), TRUE, o, d, a) <=> completion_valid(completed(p), a)
      BY <1>1, <2>1, <2>4, <3>1, EarnedByParser
    <3> QED
      BY <1>7, <2>1, <2>4, <3>2
  <2> QED
    BY <1>7, <2>2, <2>3, <2>4 DEF Judged
<1> QED
  BY <1>2, <1>4, <1>5, <1>6, <1>7

\* The trial counts as valid exactly the requests whose stream was a whole
\* response of the dialect with the required output, whatever else went on.
\* Code: CommonServingExecutor._request, reduce_request_metrics,
\* reduce_trial_metrics.
THEOREM ValidEarned == Spec => []ValidIsEarned
<1>1. IndInv /\ ReadInv => ValidIsEarned
  <2> SUFFICES ASSUME IndInv, ReadInv, phase = "returned"
               PROVE  trial.valid =
                        Cardinality({r \in Measured \ broken :
                          Earned(sent[r], taken[r], r \in eof, obs[r], plan.dialect,
                                 plan.authority)})
    BY DEF ValidIsEarned, Earned, Verdict, Contents
  <2>1. trial = reduce_trial /\ TypeOK /\ \A r \in Measured : pc[r] = "done"
    BY DEF IndInv, TrialInv
  <2>2. plan.dialect \in Dialects
        /\ plan.authority \in {"server_usage", "benchmark_tokenizer", "both"}
    BY <2>1, PlanDialect, PlansAssumption DEF TypeOK
  <2>3. Measured \subseteq Requests
    BY <2>1, PlanRequests
  <2>4. ASSUME NEW r \in Measured \ broken
        PROVE  completion_valid(obs[r], plan.authority) <=>
                 Earned(sent[r], taken[r], r \in eof, obs[r], plan.dialect, plan.authority)
    <3>1. Known("done", sent[r], taken[r], r \in eof, parser[r], obs[r], plan.dialect,
                plan.authority, r \in Measured)
      BY <2>1, <2>3 DEF ReadInv, KnownOf
    <3>2. (r \in Measured) = TRUE
      BY Zenon
    <3>3. Known("done", sent[r], taken[r], r \in eof, parser[r], obs[r], plan.dialect,
                plan.authority, TRUE)
      BY <3>1, <3>2
    <3> QED
      BY <2>2, <3>3, EarnedByRequest
  <2>5. ASSUME NEW r \in Measured \cap broken PROVE ~completion_valid(obs[r], plan.authority)
    BY <2>3 DEF ReadInv, KnownOf, completion_valid, failed_observation
  <2>6. {r \in Measured : completion_valid(obs[r], plan.authority)} =
          {r \in Measured \ broken : Earned(sent[r], taken[r], r \in eof, obs[r], plan.dialect,
                                   plan.authority)}
    BY <2>4, <2>5
  <2>7. trial.valid = Cardinality({r \in Measured : completion_valid(obs[r], plan.authority)})
    BY <2>1 DEF reduce_trial
  <2> QED
    BY <2>6, <2>7
<1> QED
  BY <1>1, Invariance, ReadInvariance, PTL
=============================================================================
