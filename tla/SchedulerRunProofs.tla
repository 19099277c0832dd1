-------------------------- MODULE SchedulerRunProofs --------------------------
(***************************************************************************)
(* For any models, weights and scenarios, and any driver: the oracle that    *)
(* judges a scheduler keeps the abstract policy step by step and with it its *)
(* fairness, no driver process outlives its repetition, the metrics are the  *)
(* ones the trace shows, and the verdict is exact.                           *)
(***************************************************************************)
EXTENDS SchedulerRun, FiniteSetTheorems, TLAPS

-----------------------------------------------------------------------------
(* Least elements. *)

\* A finite set that is not empty has a minimal element of any strict order on
\* it: one below which the fewest elements lie.
LEMMA Minimal ==
    ASSUME NEW S, IsFiniteSet(S), S # {}, NEW R,
           \A x \in S : <<x, x>> \notin R,
           \A x, y, z \in S : <<x, y>> \in R /\ <<y, z>> \in R => <<x, z>> \in R
    PROVE  \E x \in S : \A y \in S : <<y, x>> \notin R
<1> DEFINE Below(x) == {y \in S : <<y, x>> \in R}
           Counts == {Cardinality(Below(x)) : x \in S}
<1>1. \A x \in S : IsFiniteSet(Below(x)) /\ Cardinality(Below(x)) \in Nat
  <2>1. \A x \in S : Below(x) \in SUBSET S
    OBVIOUS
  <2> QED
    BY <2>1, FS_Subset, FS_CardinalityType
<1>2. Counts \subseteq Nat /\ Counts # {}
  <2>1. PICK x \in S : TRUE
    OBVIOUS
  <2>2. Cardinality(Below(x)) \in Counts
    OBVIOUS
  <2> HIDE DEF Below
  <2> QED
    BY <1>1, <2>2
<1>3. PICK n \in Counts : \A m \in Counts : ~(<<m, n>> \in OpToRel(<, Nat))
  <2> HIDE DEF Counts
  <2> QED
    BY <1>2, WFMin, NatLessThanWellFounded
<1>4. PICK x \in S : n = Cardinality(Below(x))
  OBVIOUS
<1>5. ASSUME NEW y \in S, <<y, x>> \in R
      PROVE  FALSE
  <2>1. Below(y) \in SUBSET Below(x)
    BY <1>5
  <2>2. y \in Below(x) /\ y \notin Below(y)
    BY <1>5
  <2>3. Cardinality(Below(y)) \in Nat /\ Cardinality(Below(x)) \in Nat /\ IsFiniteSet(Below(x))
    BY <1>1
  <2>4. Cardinality(Below(y)) \in Counts
    OBVIOUS
  <2> HIDE DEF Below, Counts
  <2>5. /\ Cardinality(Below(y)) <= Cardinality(Below(x))
        /\ Cardinality(Below(x)) # Cardinality(Below(y))
    BY <2>1, <2>2, <2>3, FS_Subset
  <2>6. Cardinality(Below(y)) < n
    BY <1>4, <2>3, <2>5
  <2>7. <<Cardinality(Below(y)), n>> \in OpToRel(<, Nat)
    BY <1>4, <2>3, <2>6 DEF OpToRel
  <2> QED
    BY <1>3, <2>4, <2>7
<1> QED
  BY <1>5

\* A set of models that is not empty has a least ledger, and it is one of theirs.
LEMMA LeastExists ==
    ASSUME NEW l \in [Models -> Int], NEW S \in SUBSET Models, S # {}
    PROVE  /\ The(Least(l, S)) \in Least(l, S)
           /\ Least(l, S) \subseteq Int
<1> DEFINE R == {p \in S \X S : l[p[1]] < l[p[2]]}
<1>1. IsFiniteSet(S)
  BY ModelsAssumption, FS_Subset
<1>2. \A x \in S : l[x] \in Int
  OBVIOUS
<1>3. \A x, y \in S : <<x, y>> \in R <=> l[x] < l[y]
  OBVIOUS
<1> HIDE DEF R
<1>4. PICK x \in S : \A y \in S : <<y, x>> \notin R
  <2>1. \A x \in S : <<x, x>> \notin R
    BY <1>2, <1>3
  <2>2. \A x, y, z \in S : <<x, y>> \in R /\ <<y, z>> \in R => <<x, z>> \in R
    BY <1>2, <1>3
  <2> QED
    BY <1>1, <2>1, <2>2, Minimal
<1>5. ASSUME NEW y \in S PROVE l[x] <= l[y]
  <2>1. ~(l[y] < l[x]) /\ l[x] \in Int /\ l[y] \in Int
    BY <1>2, <1>3, <1>4
  <2> QED
    BY <2>1
<1>6. l[x] \in Least(l, S)
  BY <1>5 DEF Least
<1>7. Least(l, S) \subseteq Int
  BY <1>2 DEF Least
<1> QED
  BY <1>6, <1>7 DEF The

\* The order of keys of three numbers is the lexicographic one.
LEMMA BeforeKeys ==
    ASSUME NEW a1 \in Int, NEW a2 \in Int, NEW a3 \in Int,
           NEW b1 \in Int, NEW b2 \in Int, NEW b3 \in Int
    PROVE  Before(<<a1, a2, a3>>, <<b1, b2, b3>>) <=>
               a1 < b1 \/ (a1 = b1 /\ a2 < b2) \/ (a1 = b1 /\ a2 = b2 /\ a3 < b3)
<1> DEFINE a == <<a1, a2, a3>>
           b == <<b1, b2, b3>>
<1>1. Len(a) = 3 /\ a[1] = a1 /\ a[2] = a2 /\ a[3] = a3 /\ b[1] = b1 /\ b[2] = b2 /\ b[3] = b3
  OBVIOUS
<1> HIDE DEF a, b
<1>2. Before(a, b) <=> \E i \in 1..3 : a[i] < b[i] /\ \A j \in 1..(i - 1) : a[j] = b[j]
  BY <1>1 DEF Before
<1>3. \A i \in 1..3 : i = 1 \/ i = 2 \/ i = 3
  OBVIOUS
<1>4. /\ (\A j \in 1..(1 - 1) : a[j] = b[j])
      /\ (\A j \in 1..(2 - 1) : a[j] = b[j]) <=> a[1] = b[1]
      /\ (\A j \in 1..(3 - 1) : a[j] = b[j]) <=> a[1] = b[1] /\ a[2] = b[2]
  <2>1. 1..(1 - 1) = {} /\ 1..(2 - 1) = {1} /\ 1..(3 - 1) = {1, 2}
    OBVIOUS
  <2> QED
    BY <2>1
<1>5. Before(a, b) <=> \/ a[1] < b[1] \/ (a[2] < b[2] /\ a[1] = b[1])
                       \/ (a[3] < b[3] /\ a[1] = b[1] /\ a[2] = b[2])
  <2>1. 1 \in 1..3 /\ 2 \in 1..3 /\ 3 \in 1..3
    OBVIOUS
  <2> QED
    BY <1>2, <1>3, <1>4, <2>1
<1> QED
  BY <1>1, <1>5 DEF a, b

\* A finite set that is not empty has a first element by such a key, when no two
\* elements have the same third part.
LEMMA FirstExists ==
    ASSUME NEW S, IsFiniteSet(S), S # {},
           NEW f \in [S -> Int], NEW g \in [S -> Int], NEW h \in [S -> Int],
           \A c, d \in S : h[c] = h[d] => c = d
    PROVE  \E c \in S : \A d \in S :
              c = d \/ Before(<<f[c], g[c], h[c]>>, <<f[d], g[d], h[d]>>)
<1> DEFINE Lex(c, d) == \/ f[c] < f[d] \/ (f[c] = f[d] /\ g[c] < g[d])
                        \/ (f[c] = f[d] /\ g[c] = g[d] /\ h[c] < h[d])
           R == {p \in S \X S : Lex(p[1], p[2])}
<1>1. \A c \in S : f[c] \in Int /\ g[c] \in Int /\ h[c] \in Int
  OBVIOUS
<1>2. \A c, d \in S : <<c, d>> \in R <=> Lex(c, d)
  OBVIOUS
<1>3. \A c, d \in S : Before(<<f[c], g[c], h[c]>>, <<f[d], g[d], h[d]>>) <=> Lex(c, d)
  BY <1>1, BeforeKeys
<1> HIDE DEF R
<1>4. \A c \in S : <<c, c>> \notin R
  BY <1>1, <1>2
<1>5. \A x, y, z \in S : <<x, y>> \in R /\ <<y, z>> \in R => <<x, z>> \in R
  <2> TAKE x, y, z \in S
  <2>1. Lex(x, y) /\ Lex(y, z) => Lex(x, z)
    BY <1>1
  <2> QED
    BY <1>2, <2>1
<1>6. PICK c \in S : \A d \in S : <<d, c>> \notin R
  BY <1>4, <1>5, Minimal
<1>7. ASSUME NEW d \in S, c # d PROVE Lex(c, d)
  <2>1. ~Lex(d, c)
    BY <1>2, <1>6
  <2>2. h[c] # h[d]
    BY <1>7
  <2> QED
    BY <1>1, <2>1, <2>2
<1> HIDE DEF Lex
<1> QED
  BY <1>3, <1>7

-----------------------------------------------------------------------------
(* The oracle's turn. *)

\* The candidates a scenario may offer in a turn.
Offer(cands) ==
    /\ IsFiniteSet(cands)
    /\ \A c \in cands : /\ c.id \in Nat \ {0} /\ c.model \in Models /\ c.eligible \in BOOLEAN
                        /\ c.slack \in Int /\ charge(c) \in 1..MaxCharge
    /\ \A c, d \in cands : c.id = d.id \/ c.model = d.model => c = d

\* select takes an eligible candidate if there is one, and it is urgent or its
\* model has the least ledger.
LEMMA Selects ==
    ASSUME NEW s, s.ledgers \in [Models -> Int], NEW cands, Offer(cands)
    PROVE  /\ eligible(cands) = {} => select(s, cands) = NoCandidate
           /\ eligible(cands) # {} =>
                /\ select(s, cands) \in eligible(cands)
                /\ \/ is_urgent(select(s, cands))
                   \/ /\ ~is_urgent(select(s, cands))
                      /\ \A d \in eligible(cands) :
                            s.ledgers[select(s, cands).model] <= s.ledgers[d.model]
<1> DEFINE urgent == {c \in cands : is_urgent(c)}
           normal == eligible(cands)
           uf == [c \in urgent |-> c.slack]
           ug == [c \in urgent |-> s.ledgers[c.model]]
           uh == [c \in urgent |-> c.id]
           nf == [c \in normal |-> s.ledgers[c.model]]
           ng == [c \in normal |-> c.model]
           nh == [c \in normal |-> c.id]
<1>1. urgent \in SUBSET normal /\ normal \in SUBSET cands
  BY DEF eligible, is_urgent
<1>2. IsFiniteSet(urgent) /\ IsFiniteSet(normal)
  BY <1>1, FS_Subset DEF Offer
<1>3. \A c \in cands : c.slack \in Int /\ s.ledgers[c.model] \in Int /\ c.id \in Int
                       /\ c.model \in Int
  <2> TAKE c \in cands
  <2>1. c.slack \in Int /\ c.id \in Nat /\ c.model \in Models
    BY DEF Offer
  <2>2. c.model \in Nat
    BY <2>1, ModelsAssumption
  <2> QED
    BY <2>1, <2>2
<1>4. \A c, d \in cands : c.id = d.id => c = d
  BY DEF Offer
<1>5. CASE urgent # {}
  <2>1. /\ uf \in [urgent -> Int] /\ ug \in [urgent -> Int] /\ uh \in [urgent -> Int]
        /\ \A c, d \in urgent : uh[c] = uh[d] => c = d
    BY <1>1, <1>3, <1>4
  <2>2. \E c \in urgent : \A d \in urgent :
          c = d \/ Before(<<uf[c], ug[c], uh[c]>>, <<uf[d], ug[d], uh[d]>>)
    <3> HIDE DEF urgent, uf, ug, uh
    <3> QED
      BY <1>2, <1>5, <2>1, FirstExists
  <2>3. \E c \in urgent : \A d \in urgent :
          c = d \/ Before(<<c.slack, s.ledgers[c.model], c.id>>,
                          <<d.slack, s.ledgers[d.model], d.id>>)
    BY <2>2
  <2>4. select(s, cands) = CHOOSE c \in urgent : \A d \in urgent :
          c = d \/ Before(<<c.slack, s.ledgers[c.model], c.id>>,
                          <<d.slack, s.ledgers[d.model], d.id>>)
    BY <1>5 DEF select, FirstBy
  <2>5. select(s, cands) \in urgent
    BY <2>3, <2>4
  <2> QED
    BY <1>1, <2>5
<1>6. CASE urgent = {} /\ normal # {}
  <2>1. /\ nf \in [normal -> Int] /\ ng \in [normal -> Int] /\ nh \in [normal -> Int]
        /\ \A c, d \in normal : nh[c] = nh[d] => c = d
    BY <1>1, <1>3, <1>4
  <2>2. \E c \in normal : \A d \in normal :
          c = d \/ Before(<<nf[c], ng[c], nh[c]>>, <<nf[d], ng[d], nh[d]>>)
    <3> HIDE DEF normal, nf, ng, nh
    <3> QED
      BY <1>2, <1>6, <2>1, FirstExists
  <2>3. \E c \in normal : \A d \in normal :
          c = d \/ Before(<<s.ledgers[c.model], c.model, c.id>>,
                          <<s.ledgers[d.model], d.model, d.id>>)
    BY <2>2
  <2>4. select(s, cands) = CHOOSE c \in normal : \A d \in normal :
          c = d \/ Before(<<s.ledgers[c.model], c.model, c.id>>,
                          <<s.ledgers[d.model], d.model, d.id>>)
    BY <1>6 DEF select, FirstBy
  <2>5. PICK c \in normal :
          /\ c = select(s, cands)
          /\ \A d \in normal :
                c = d \/ Before(<<s.ledgers[c.model], c.model, c.id>>,
                                <<s.ledgers[d.model], d.model, d.id>>)
    BY <2>3, <2>4
  <2>6. ~is_urgent(c)
    BY <1>1, <1>6
  <2>7. ASSUME NEW d \in normal PROVE s.ledgers[c.model] <= s.ledgers[d.model]
    <3>1. /\ s.ledgers[c.model] \in Int /\ c.model \in Int /\ c.id \in Int
          /\ s.ledgers[d.model] \in Int /\ d.model \in Int /\ d.id \in Int
      BY <1>1, <1>3
    <3>2. c = d \/ Before(<<s.ledgers[c.model], c.model, c.id>>,
                          <<s.ledgers[d.model], d.model, d.id>>)
      BY <2>5
    <3> DEFINE x == s.ledgers[c.model]
               y == s.ledgers[d.model]
    <3>3. Before(<<x, c.model, c.id>>, <<y, d.model, d.id>>) => x < y \/ x = y
      <4> HIDE DEF x, y, normal
      <4>1. \A a1, a2, a3, b1, b2, b3 \in Int :
              Before(<<a1, a2, a3>>, <<b1, b2, b3>>) => a1 < b1 \/ a1 = b1
        BY BeforeKeys
      <4> QED
        BY <3>1, <4>1 DEF x, y
    <3> QED
      BY <3>1, <3>2, <3>3
  <2> QED
    BY <1>6, <2>5, <2>6, <2>7
<1>7. CASE normal = {}
  <2>1. urgent = {}
    BY <1>1, <1>7
  <2> QED
    BY <1>7, <2>1 DEF select
<1> QED
  BY <1>5, <1>6, <1>7

\* The candidates of all scenarios, and the states of a scheduler.
Offered == UNION {UNION {k.turns[t] : t \in 1..Len(k.turns)} : k \in Cases}
Schedulers == [ledgers : [Models -> Int], runnable : SUBSET Models, baseline : Int,
               pending : {NoCandidate} \cup Offered]

\* sync_runnable is the policy's alignment.
LEMMA Syncs ==
    ASSUME NEW s \in Schedulers, NEW current \in SUBSET Models
    PROVE  LET t == sync_runnable(s, current)
           IN  /\ t \in Schedulers /\ t.runnable = current /\ t.pending = s.pending
               /\ \E alignment \in IF current \cap s.runnable # {}
                                   THEN Least(s.ledgers, current \cap s.runnable)
                                   ELSE {s.baseline} :
                    t.ledgers = [m \in Models |-> IF m \in current \ s.runnable THEN alignment
                                                  ELSE s.ledgers[m]]
               /\ t.baseline \in IF current = {} THEN {s.baseline} ELSE Least(t.ledgers, current)
<1> DEFINE continuing == current \cap s.runnable
           alignment == IF continuing # {} THEN The(Least(s.ledgers, continuing)) ELSE s.baseline
           l == [m \in Models |-> IF m \in current \ s.runnable THEN alignment ELSE s.ledgers[m]]
           b == IF current = {} THEN s.baseline ELSE The(Least(l, current))
           t == sync_runnable(s, current)
<1>1. s.ledgers \in [Models -> Int] /\ s.baseline \in Int /\ s.runnable \in SUBSET Models
  BY DEF Schedulers
<1>2. /\ alignment \in IF continuing # {} THEN Least(s.ledgers, continuing) ELSE {s.baseline}
      /\ alignment \in Int
  <2>1. CASE continuing # {}
    <3>1. continuing \in SUBSET Models
      OBVIOUS
    <3> HIDE DEF continuing
    <3> QED
      BY <1>1, <2>1, <3>1, LeastExists
  <2>2. CASE continuing = {}
    BY <1>1, <2>2
  <2> QED
    BY <2>1, <2>2
<1>3. l \in [Models -> Int]
  <2> HIDE DEF alignment
  <2> QED
    BY <1>1, <1>2
<1>4. b \in Int /\ b \in IF current = {} THEN {s.baseline} ELSE Least(l, current)
  <2> HIDE DEF l
  <2> QED
    BY <1>1, <1>3, LeastExists
<1>5. t = [s EXCEPT !.ledgers = l, !.runnable = current, !.baseline = b]
  BY DEF sync_runnable
<1>6. /\ l = [m \in Models |-> IF m \in current \ s.runnable THEN alignment ELSE s.ledgers[m]]
      /\ continuing = current \cap s.runnable
  OBVIOUS
<1> HIDE DEF continuing, alignment, l, b, t
<1>7. /\ t \in Schedulers /\ t.runnable = current /\ t.pending = s.pending
      /\ t.ledgers = l /\ t.baseline = b
  BY <1>3, <1>4, <1>5 DEF Schedulers
<1>8. \E a \in IF current \cap s.runnable # {} THEN Least(s.ledgers, current \cap s.runnable)
               ELSE {s.baseline} :
        l = [m \in Models |-> IF m \in current \ s.runnable THEN a ELSE s.ledgers[m]]
  BY <1>2, <1>6
<1> QED
  BY <1>4, <1>7, <1>8 DEF t

\* schedule is sync_runnable and a selection from its ledgers.
LEMMA Schedules ==
    ASSUME NEW s \in Schedulers, NEW cands, Offer(cands), cands \subseteq Offered
    PROVE  LET current == ModelsOf(cands)
               u == schedule(s, cands)
           IN  /\ current \in SUBSET Models
               /\ u \in Schedulers /\ u.runnable = current
               /\ \E alignment \in IF current \cap s.runnable # {}
                                   THEN Least(s.ledgers, current \cap s.runnable)
                                   ELSE {s.baseline} :
                    u.ledgers = [m \in Models |-> IF m \in current \ s.runnable THEN alignment
                                                  ELSE s.ledgers[m]]
               /\ u.baseline \in IF current = {} THEN {s.baseline} ELSE Least(u.ledgers, current)
               /\ \/ current = {} /\ u.pending = NoCandidate /\ ~is_urgent(u.pending)
                  \/ /\ u.pending \in Offered /\ u.pending.model \in current
                     /\ \/ is_urgent(u.pending)
                        \/ /\ ~is_urgent(u.pending)
                           /\ u.ledgers[u.pending.model] \in Least(u.ledgers, current)
<1> DEFINE current == ModelsOf(cands)
           t == sync_runnable(s, current)
           p == select(t, cands)
           u == schedule(s, cands)
<1>1. current \in SUBSET Models
  BY DEF ModelsOf, eligible, Offer
<1>2. /\ t \in Schedulers /\ t.runnable = current /\ t.pending = s.pending
      /\ \E alignment \in IF current \cap s.runnable # {}
                          THEN Least(s.ledgers, current \cap s.runnable)
                          ELSE {s.baseline} :
           t.ledgers = [m \in Models |-> IF m \in current \ s.runnable THEN alignment
                                         ELSE s.ledgers[m]]
      /\ t.baseline \in IF current = {} THEN {s.baseline} ELSE Least(t.ledgers, current)
  <2> HIDE DEF current
  <2> QED
    BY <1>1, Syncs
<1>3. u = [t EXCEPT !.pending = p]
  BY DEF schedule
<1>4. /\ \A c \in eligible(cands) : c \in cands /\ c.model \in current
      /\ \A m \in current : \E c \in eligible(cands) : m = c.model
  BY DEF ModelsOf, eligible
<1> HIDE DEF current, t, u
<1>5. t.ledgers \in [Models -> Int]
  BY <1>2 DEF Schedulers
<1>6. /\ eligible(cands) = {} => p = NoCandidate
      /\ eligible(cands) # {} =>
           /\ p \in eligible(cands)
           /\ \/ is_urgent(p)
              \/ /\ ~is_urgent(p)
                 /\ \A d \in eligible(cands) : t.ledgers[p.model] <= t.ledgers[d.model]
  BY <1>5, Selects
<1> HIDE DEF p
<1>7. \/ current = {} /\ p = NoCandidate /\ ~is_urgent(p)
      \/ /\ p \in Offered /\ p.model \in current
         /\ \/ is_urgent(p)
            \/ ~is_urgent(p) /\ t.ledgers[p.model] \in Least(t.ledgers, current)
  <2>1. CASE eligible(cands) = {}
    BY <1>4, <1>6, <2>1 DEF NoCandidate, is_urgent
  <2>2. CASE eligible(cands) # {}
    <3>1. p \in Offered /\ p.model \in current
      BY <1>4, <1>6, <2>2
    <3>2. (\A d \in eligible(cands) : t.ledgers[p.model] <= t.ledgers[d.model])
            => t.ledgers[p.model] \in Least(t.ledgers, current)
      BY <1>4, <3>1 DEF Least
    <3> QED
      BY <1>6, <2>2, <3>1, <3>2
  <2> QED
    BY <2>1, <2>2
<1>8. p \in {NoCandidate} \cup Offered
  BY <1>7
<1>9. /\ u \in Schedulers /\ u.runnable = current /\ u.pending = p
      /\ u.ledgers = t.ledgers /\ u.baseline = t.baseline
  BY <1>2, <1>3, <1>8 DEF Schedulers
<1> QED
  BY <1>1, <1>2, <1>7, <1>9 DEF current, u

\* accept_receipt charges the selected model and takes the least ledger again.
LEMMA Charges ==
    ASSUME NEW s \in Schedulers, NEW c \in Offered, c.model \in s.runnable,
           charge(c) \in 1..MaxCharge
    PROVE  LET u == accept_receipt(s, c)
           IN  /\ u \in Schedulers /\ u.pending = NoCandidate /\ u.runnable = s.runnable
               /\ u.ledgers = [s.ledgers EXCEPT ![c.model] = @ + charge(c)]
               /\ u.baseline \in Least(u.ledgers, s.runnable)
<1> DEFINE l == [s.ledgers EXCEPT ![c.model] = @ + charge(c)]
           b == The(Least(l, s.runnable))
           u == accept_receipt(s, c)
<1>1. s.ledgers \in [Models -> Int] /\ s.runnable \in SUBSET Models
  BY DEF Schedulers
<1>2. l \in [Models -> Int]
  BY <1>1, ChargeAssumption
<1>3. u = [s EXCEPT !.ledgers = l, !.pending = NoCandidate, !.baseline = b]
  BY DEF accept_receipt
<1>4. l = [s.ledgers EXCEPT ![c.model] = @ + charge(c)]
  OBVIOUS
<1> HIDE DEF l, u
<1>5. b \in Least(l, s.runnable) /\ b \in Int
  BY <1>1, <1>2, LeastExists
<1> HIDE DEF b
<1>6. /\ u \in Schedulers /\ u.pending = NoCandidate /\ u.runnable = s.runnable
      /\ u.ledgers = l /\ u.baseline = b
  BY <1>1, <1>2, <1>3, <1>5 DEF Schedulers
<1> QED
  BY <1>4, <1>5, <1>6 DEF u

-----------------------------------------------------------------------------
(* The inductive invariant. *)

Asking == {"hello", "initialize", "schedule", "receipt", "shutdown", "close"}

TypeOK ==
    /\ case \in Cases /\ turn \in 1..Turns /\ rep \in Nat /\ requests \in Nat
    /\ pc \in Asking \cup {"spawn", "finish", "leave", "report", "reported", "aborted"} /\ awaiting \in BOOLEAN
    /\ oracle \in Schedulers /\ urgents \in Nat
    /\ process \in {"none", "running", "exited"}
    /\ exiting \in {"no", "eof", "term", "kill", "streams", "done"}
    /\ outcome \in {"passed", "contract", "conformance"}

\* A receipt is outstanding from the oracle's selection until the oracle has
\* charged it, which is before it is compared: at every other request none is.
PendingInv ==
    /\ oracle.pending # NoCandidate => oracle.pending.model \in oracle.runnable
    /\ pc = "schedule" /\ ~awaiting => oracle.pending = NoCandidate
    /\ pc \in {"spawn", "hello", "initialize", "receipt"} => oracle.pending = NoCandidate

\* __exit__ comes to the streams only when the driver is gone, and is about a
\* repetition that is over.
ExitInv ==
    ~Lane => /\ exiting \in {"streams", "done"} => process # "running"
             /\ exiting # "no" => pc \in {"leave", "aborted"}

IndInv == TypeOK /\ PendingInv /\ NoDriverLeft /\ ExitInv

\* A step of __exit__ changes where it is, or ends the run.
Exits == EnterExit \/ DriverGone \/ Escalate \/ CloseStreams
LEMMA ExitSteps ==
    ASSUME Exits
    PROVE  /\ InExit /\ Remains /\ (pc' = pc \/ pc' = "aborted")
           /\ exiting' = exiting \/ exiting' \in {"eof", "term", "kill", "streams", "done"}
BY DEF Exits, EnterExit, DriverGone, Escalate, CloseStreams

\* The candidates of the turn are as the loader admits them.
LEMMA TurnOffers ==
    ASSUME TypeOK
    PROVE  Turns \in Nat \ {0} /\ Offer(Cands) /\ Cands \subseteq Offered
<1>1. Turns \in Nat \ {0}
  BY CasesAssumption DEF TypeOK, Turns
<1>2. Offer(Cands)
  BY CasesAssumption DEF TypeOK, Turns, Cands, Offer
<1>3. Cands \subseteq Offered
  BY DEF TypeOK, Turns, Cands, Offered
<1> QED
  BY <1>1, <1>2, <1>3

\* A candidate that a scenario offers is charged within the bound, and is not
\* the absence of one.
LEMMA OfferedCharge ==
    ASSUME NEW c \in Offered
    PROVE  charge(c) \in 1..MaxCharge /\ c.model \in Models /\ c # NoCandidate
<1>1. PICK k \in Cases : \E t \in 1..Len(k.turns) : c \in k.turns[t]
  BY DEF Offered
<1>2. charge(c) \in 1..MaxCharge /\ c.model \in Models
  BY <1>1, CasesAssumption
<1>3. NoCandidate.model \notin Models
  BY ModelsAssumption DEF NoCandidate
<1> QED
  BY <1>2, <1>3

LEMMA InitInv == Init => IndInv
<1> SUFFICES ASSUME Init PROVE IndInv
  OBVIOUS
<1>1. case \in Cases /\ turn = 1 /\ Turns \in Nat \ {0}
  BY CasesAssumption DEF Init, Turns
<1>2. oracle \in Schedulers /\ oracle.pending = NoCandidate
  BY DEF Init, NewScheduler, Schedulers
<1>3. TypeOK
  <2>1. turn \in 1..Turns
    BY <1>1
  <2>2. pc \in Asking \cup {"spawn", "finish", "leave", "report", "reported", "aborted"}
    BY DEF Init, Asking
  <2>3. process \in {"none", "running", "exited"} /\ exiting = "no"
    BY DEF Init
  <2> QED
    BY <1>1, <1>2, <2>1, <2>2, <2>3 DEF Init, TypeOK
<1>4. PendingInv /\ NoDriverLeft /\ ExitInv
  BY <1>2 DEF Init, PendingInv, NoDriverLeft, ExitInv
<1> QED
  BY <1>3, <1>4 DEF IndInv

\* What a step does to the oracle: a new repetition, the schedule of a turn, the
\* charge of the selected candidate, or nothing.
Begins  == oracle' = NewScheduler /\ urgents' = 0 /\ pc = "leave"
Plans   == /\ pc = "schedule" /\ ~awaiting /\ oracle' = schedule(oracle, Cands)
           /\ urgents' = urgents + (IF is_urgent(oracle'.pending) THEN 1 ELSE 0)
           /\ (awaiting' = TRUE /\ UNCHANGED pc) \/ pc' \in {"report", "leave"}
Pays    == /\ pc = "schedule" /\ awaiting /\ oracle.pending # NoCandidate
           /\ oracle' = accept_receipt(oracle, oracle.pending) /\ UNCHANGED urgents
           /\ pc' = "receipt"
Keeps   == /\ UNCHANGED <<oracle, urgents>>
           /\ \/ UNCHANGED pc /\ (awaiting => awaiting')
              \/ pc' \in {"finish", "leave", "report", "reported", "aborted", "shutdown", "close"}
              \/ pc' \in {"hello", "initialize", "schedule"} /\ oracle.pending = NoCandidate

LEMMA OracleSteps ==
    ASSUME TypeOK, PendingInv, [Next]_vars
    PROVE  Begins \/ Plans \/ Pays \/ Keeps
<1>1. Next \/ UNCHANGED vars
  OBVIOUS
<1>2. CASE Spawn
  BY <1>2 DEF Spawn, ContractFails, PendingInv, Keeps
<1>3. CASE Ask
  <2>1. CASE pc = "schedule"
    BY <1>3, <2>1 DEF Ask, ContractFails, Plans
  <2>2. CASE pc # "schedule"
    BY <1>3, <2>2 DEF Ask, ContractFails, Keeps
  <2> QED
    BY <2>1, <2>2
<1>4. CASE Timeout \/ TakeHello \/ TakeInitialized \/ TakeClosed \/ Finish
  BY <1>4 DEF Timeout, TakeHello, TakeInitialized, TakeClosed, Finish, ContractFails, Disagrees,
              PendingInv, Keeps
<1>5. CASE TakePlan
  <2>1. pc = "schedule" /\ awaiting /\ UNCHANGED urgents
    BY <1>5 DEF TakePlan, Took
  <2>2. \/ UNCHANGED oracle /\ (ContractFails \/ Disagrees("selection"))
        \/ oracle.pending = NoCandidate /\ NextTurn /\ UNCHANGED oracle
        \/ /\ oracle.pending # NoCandidate /\ oracle' = accept_receipt(oracle, oracle.pending)
           /\ pc' = "receipt"
    BY <1>5 DEF TakePlan
  <2> QED
    BY <2>1, <2>2 DEF ContractFails, Disagrees, NextTurn, Pays, Keeps
<1>6. CASE TakeReceipt
  <2>1. pc = "receipt" /\ UNCHANGED <<oracle, urgents>>
    BY <1>6 DEF TakeReceipt
  <2>2. ContractFails \/ Disagrees("receipt") \/ NextTurn
    BY <1>6 DEF TakeReceipt
  <2> QED
    BY <2>1, <2>2 DEF ContractFails, Disagrees, NextTurn, PendingInv, Keeps
<1>7. CASE Leave
  BY <1>7 DEF Leave, Begins
<1>8. CASE Report
  BY <1>8 DEF Report, Keeps
<1>9. CASE DriverAnswers \/ DriverExits \/ DriverQuits \/ HeirEnds \/ UNCHANGED vars
  <2>1. UNCHANGED <<pc, awaiting, oracle, urgents>>
    BY <1>9 DEF DriverAnswers, DriverExits, DriverQuits, HeirEnds, benchVars, judgeVars, vars
  <2> QED
    BY <2>1 DEF Keeps
<1>10. CASE Exits
  BY <1>10, ExitSteps DEF Remains, judgeVars, Keeps
<1> QED
  BY ONLY <1>1, <1>2, <1>3, <1>4, <1>5, <1>6, <1>7, <1>8, <1>9, <1>10 DEF Next, Bench, Exits

\* Every step keeps the oracle's type and PendingInv.
LEMMA OracleStep ==
    ASSUME TypeOK, PendingInv, [Next]_vars
    PROVE  oracle' \in Schedulers /\ urgents' \in Nat /\ PendingInv'
<1>1. oracle \in Schedulers /\ urgents \in Nat
  BY DEF TypeOK
<1>2. CASE Begins
  <2>1. NewScheduler \in Schedulers /\ NewScheduler.pending = NoCandidate
    BY DEF NewScheduler, Schedulers
  <2> QED
    BY <1>2, <2>1 DEF Begins, PendingInv
<1>3. CASE Plans
  <2> DEFINE u == schedule(oracle, Cands)
  <2>1. /\ u \in Schedulers
        /\ \/ u.pending = NoCandidate
           \/ u.pending.model \in u.runnable
    <3>1. Offer(Cands) /\ Cands \subseteq Offered
      BY TurnOffers
    <3> DEFINE current == ModelsOf(Cands)
    <3>2. /\ u \in Schedulers /\ u.runnable = current
          /\ \/ current = {} /\ u.pending = NoCandidate /\ ~is_urgent(u.pending)
             \/ u.pending.model \in current
      BY <1>1, <3>1, Schedules
    <3> QED
      BY <3>2
  <2>2. oracle' = u
    BY <1>3 DEF Plans
  <2> HIDE DEF u
  <2>3. urgents' \in Nat
    BY <1>1, <1>3 DEF Plans
  <2>4. (awaiting' = TRUE /\ pc' = "schedule") \/ pc' \in {"report", "leave"}
    BY <1>3 DEF Plans
  <2> QED
    BY <2>1, <2>2, <2>3, <2>4 DEF PendingInv
<1>4. CASE Pays
  <2>1. oracle.pending \in Offered /\ oracle.pending.model \in oracle.runnable
    BY <1>1, <1>4 DEF Pays, PendingInv, Schedulers
  <2>2. charge(oracle.pending) \in 1..MaxCharge
    BY <2>1, OfferedCharge
  <2>3. oracle' \in Schedulers /\ oracle'.pending = NoCandidate
    BY <1>1, <1>4, <2>1, <2>2, Charges DEF Pays
  <2> QED
    BY <1>1, <1>4, <2>3 DEF Pays, PendingInv
<1>5. CASE Keeps
  BY <1>1, <1>5 DEF Keeps, PendingInv
<1> QED
  BY <1>2, <1>3, <1>4, <1>5, OracleSteps

\* Every step keeps TypeOK.
LEMMA TypeStep ==
    ASSUME TypeOK, PendingInv, [Next]_vars
    PROVE  TypeOK'
<1>1. Next \/ UNCHANGED vars
  OBVIOUS
<1>2. oracle' \in Schedulers /\ urgents' \in Nat
  BY OracleStep
<1>3. Turns \in Nat \ {0}
  BY TurnOffers
<1> DEFINE Rest == /\ case' = case /\ turn' \in 1..Turns /\ rep' \in Nat /\ requests' \in Nat
                   /\ pc' \in Asking \cup {"spawn", "finish", "leave", "report", "reported", "aborted"}
                   /\ awaiting' \in BOOLEAN /\ process' \in {"none", "running", "exited"}
                   /\ exiting' \in {"no", "eof", "term", "kill", "streams", "done"}
                   /\ outcome' \in {"passed", "contract", "conformance"}
<1>4. Rest => TypeOK'
  BY <1>2 DEF TypeOK, Turns
<1> USE DEF TypeOK, Asking
<1>5. CASE Spawn
  BY <1>4, <1>5 DEF Spawn, ContractFails
<1>6. CASE Ask
  <2>1. UNCHANGED <<case, rep, turn, process, exiting>> /\ requests' = requests + 1
    BY <1>6 DEF Ask
  <2>2. ContractFails \/ (awaiting' = TRUE /\ UNCHANGED <<pc, outcome>>)
    BY <1>6 DEF Ask
  <2>3. /\ pc' \in Asking \cup {"spawn", "finish", "leave", "report", "reported", "aborted"}
        /\ awaiting' \in BOOLEAN /\ outcome' \in {"passed", "contract", "conformance"}
    BY <2>2 DEF ContractFails
  <2>4. requests' \in Nat
    BY <2>1
  <2> QED
    BY <1>4, <2>1, <2>3, <2>4
<1>7. CASE Timeout \/ TakeHello \/ TakeClosed \/ Finish
  BY <1>4, <1>7 DEF Timeout, TakeHello, TakeClosed, Finish, Took, ContractFails, exitVars
<1>8. CASE TakeInitialized
  BY <1>4, <1>8 DEF TakeInitialized, Took, ContractFails, Disagrees, exitVars
<1>9. CASE TakePlan
  <2>1. UNCHANGED <<case, rep, requests, process, exiting>>
    BY <1>9 DEF TakePlan, Took, exitVars
  <2>2. \/ (ContractFails \/ Disagrees("selection")) /\ UNCHANGED turn
        \/ NextTurn /\ UNCHANGED outcome
        \/ pc' = "receipt" /\ awaiting' = FALSE /\ UNCHANGED <<turn, outcome>>
    BY <1>9 DEF TakePlan
  <2>3. turn' \in 1..Turns
    BY <1>3, <2>2 DEF NextTurn
  <2>4. /\ pc' \in Asking \cup {"spawn", "finish", "leave", "report", "reported", "aborted"}
        /\ awaiting' \in BOOLEAN /\ outcome' \in {"passed", "contract", "conformance"}
    BY <2>2 DEF ContractFails, Disagrees, NextTurn
  <2> QED
    BY <1>4, <2>1, <2>3, <2>4
<1>10. CASE TakeReceipt
  <2>1. UNCHANGED <<case, rep, requests, process, exiting>>
    BY <1>10 DEF TakeReceipt, Took, exitVars
  <2>2. \/ (ContractFails \/ Disagrees("receipt")) /\ UNCHANGED turn
        \/ NextTurn /\ UNCHANGED outcome
    BY <1>10 DEF TakeReceipt
  <2>3. turn' \in 1..Turns
    BY <1>3, <2>2 DEF NextTurn
  <2>4. /\ pc' \in Asking \cup {"spawn", "finish", "leave", "report", "reported", "aborted"}
        /\ awaiting' \in BOOLEAN /\ outcome' \in {"passed", "contract", "conformance"}
    BY <2>2 DEF ContractFails, Disagrees, NextTurn
  <2> QED
    BY <1>4, <2>1, <2>3, <2>4
<1>11. CASE Leave
  BY <1>3, <1>4, <1>11 DEF Leave
<1>12. CASE Report
  BY <1>4, <1>12 DEF Report, driverVars, exitVars
<1>13. CASE DriverAnswers \/ DriverExits \/ DriverQuits \/ HeirEnds
  BY <1>4, <1>13 DEF DriverAnswers, DriverExits, DriverQuits, HeirEnds, benchVars, judgeVars,
                     driverVars, exitVars
<1>14. CASE UNCHANGED vars
  BY <1>4, <1>14 DEF vars, benchVars, judgeVars, driverVars, exitVars
<1>15. CASE Exits
  BY <1>4, <1>15, ExitSteps DEF Remains, judgeVars, driverVars
<1> QED
  BY ONLY <1>1, <1>5, <1>6, <1>7, <1>8, <1>9, <1>10, <1>11, <1>12, <1>13, <1>14, <1>15
     DEF Next, Bench, Exits

\* Every step keeps NoDriverLeft and ExitInv.
LEMMA DriverStep ==
    ASSUME TypeOK, NoDriverLeft, ExitInv, [Next]_vars
    PROVE  NoDriverLeft' /\ ExitInv'
<1>1. Next \/ UNCHANGED vars
  OBVIOUS
<1> USE DEF NoDriverLeft, ExitInv, Lane
<1>2. CASE Spawn \/ Leave \/ Report
  BY <1>2 DEF Spawn, Leave, Report, ContractFails, driverVars, exitVars
<1>3. ASSUME UNCHANGED <<case, process, exiting>>, pc \in Asking \cup {"finish"},
             ~Lane => pc' \in Asking \cup {"finish", "leave"}
      PROVE  NoDriverLeft' /\ ExitInv'
  BY <1>3 DEF Asking
<1>4. CASE Ask
  <2>1. pc \in Asking /\ UNCHANGED <<case, process, exiting>> /\ (ContractFails \/ UNCHANGED pc)
    BY <1>4 DEF Ask, Asking
  <2> QED
    BY <1>3, <2>1 DEF ContractFails
<1>5. CASE TakeHello \/ TakeInitialized \/ TakeClosed \/ Finish
  BY <1>3, <1>5 DEF TakeHello, TakeInitialized, TakeClosed, Finish, Took, ContractFails,
              Disagrees, exitVars, Asking
<1>6. CASE TakePlan \/ TakeReceipt
  <2>1. UNCHANGED <<case, process, exiting>> /\ pc \in Asking
    BY <1>6 DEF TakePlan, TakeReceipt, Took, exitVars, Asking
  <2>2. \/ ContractFails \/ NextTurn \/ pc' = "receipt"
        \/ Disagrees("selection") \/ Disagrees("receipt")
    BY <1>6 DEF TakePlan, TakeReceipt
  <2> QED
    BY <1>3, <2>1, <2>2 DEF ContractFails, NextTurn, Disagrees, Asking
<1>7. CASE Timeout
  BY <1>7 DEF Timeout, ContractFails, exitVars
<1>8. CASE DriverAnswers \/ DriverExits \/ DriverQuits \/ HeirEnds \/ UNCHANGED vars
  BY <1>8 DEF DriverAnswers, DriverExits, DriverQuits, HeirEnds, benchVars, driverVars, exitVars,
              vars
<1>9. CASE Exits
  BY <1>9 DEF Exits, EnterExit, DriverGone, Escalate, CloseStreams, InExit, Remains, driverVars
<1> QED
  BY ONLY <1>1, <1>2, <1>4, <1>5, <1>6, <1>7, <1>8, <1>9 DEF Next, Bench, Exits

LEMMA StepInv == IndInv /\ [Next]_vars => IndInv'
BY TypeStep, OracleStep, DriverStep DEF IndInv

\* Every reachable state satisfies the inductive invariant.
THEOREM Invariance == Spec => []IndInv
BY InitInv, StepInv, PTL DEF Spec

\* No driver process is left when its repetition is over, whatever ended it: the
\* end of its input, terminate and kill are tried in turn until it is gone, and
\* a run that __exit__ itself ends has a reason (DriverProcess.__exit__).
THEOREM DriversAreEnded == Spec => []NoDriverLeft
<1>1. IndInv => NoDriverLeft
  BY DEF IndInv
<1> QED
  BY <1>1, Invariance, PTL

-----------------------------------------------------------------------------
(* The oracle implements the policy. *)

LEMMA PolicyInit == Init => Policy!Init
BY DEF Init, NewScheduler, NoCandidate, Policy!Init, NoModel, Policy!NoModel

LEMMA PolicyStep == IndInv /\ [Next]_vars => [Policy!Next]_(Policy!vars)
<1> SUFFICES ASSUME TypeOK, PendingInv, [Next]_vars
             PROVE  [Policy!Next]_(Policy!vars)
  BY DEF IndInv
<1>1. oracle \in Schedulers
  BY DEF TypeOK
<1>2. CASE Begins
  <2>1. Policy!Fresh
    BY <1>2 DEF Begins, NewScheduler, NoCandidate, Policy!Fresh, NoModel, Policy!NoModel
  <2> QED
    BY <2>1 DEF Policy!Next
<1>3. CASE Plans
  <2> DEFINE current == ModelsOf(Cands)
  <2>1. Offer(Cands) /\ Cands \subseteq Offered
    BY TurnOffers
  <2>2. oracle' = schedule(oracle, Cands)
    BY <1>3 DEF Plans
  <2>3. /\ current \in SUBSET Models
        /\ oracle'.runnable = current
        /\ \E alignment \in IF current \cap oracle.runnable # {}
                            THEN Least(oracle.ledgers, current \cap oracle.runnable)
                            ELSE {oracle.baseline} :
             oracle'.ledgers = [m \in Models |-> IF m \in current \ oracle.runnable
                                                 THEN alignment ELSE oracle.ledgers[m]]
        /\ oracle'.baseline \in IF current = {} THEN {oracle.baseline}
                                ELSE Least(oracle'.ledgers, current)
        /\ \/ current = {} /\ oracle'.pending = NoCandidate /\ ~is_urgent(oracle'.pending)
           \/ /\ oracle'.pending \in Offered /\ oracle'.pending.model \in current
              /\ \/ is_urgent(oracle'.pending)
                 \/ /\ ~is_urgent(oracle'.pending)
                    /\ oracle'.ledgers[oracle'.pending.model] \in Least(oracle'.ledgers, current)
    <3> DEFINE u == schedule(oracle, Cands)
    <3>1. /\ current \in SUBSET Models
          /\ u.runnable = current
          /\ \E alignment \in IF current \cap oracle.runnable # {}
                              THEN Least(oracle.ledgers, current \cap oracle.runnable)
                              ELSE {oracle.baseline} :
               u.ledgers = [m \in Models |-> IF m \in current \ oracle.runnable
                                             THEN alignment ELSE oracle.ledgers[m]]
          /\ u.baseline \in IF current = {} THEN {oracle.baseline}
                            ELSE Least(u.ledgers, current)
          /\ \/ current = {} /\ u.pending = NoCandidate /\ ~is_urgent(u.pending)
             \/ /\ u.pending \in Offered /\ u.pending.model \in current
                /\ \/ is_urgent(u.pending)
                   \/ /\ ~is_urgent(u.pending)
                      /\ u.ledgers[u.pending.model] \in Least(u.ledgers, current)
      BY <1>1, <2>1, Schedules
    <3>2. oracle' = u
      BY <2>2
    <3> HIDE DEF u, current
    <3> QED
      BY <3>1, <3>2
  <2> HIDE DEF current
  <2>4. oracle.pending = NoCandidate /\ NoCandidate.model = NoModel
    BY <1>3 DEF Plans, PendingInv, NoCandidate
  <2>5. urgents' = urgents + (IF is_urgent(oracle'.pending) THEN 1 ELSE 0) /\ urgents \in Nat
    BY <1>3 DEF Plans, TypeOK
  <2>6. Policy!_sync_runnable(current)
    <3> DEFINE Alignments == IF current \cap oracle.runnable # {}
                             THEN Least(oracle.ledgers, current \cap oracle.runnable)
                             ELSE {oracle.baseline}
    <3>1. PICK a \in Alignments :
            oracle'.ledgers = [m \in Models |-> IF m \in current \ oracle.runnable
                                                THEN a ELSE oracle.ledgers[m]]
      BY <2>3
    <3>2. \A l, S : Policy!Least(l, S) = Least(l, S)
      BY DEF Least, Policy!Least
    <3>3. a \in IF current \cap oracle.runnable # {}
               THEN Policy!Least(oracle.ledgers, current \cap oracle.runnable)
               ELSE {oracle.baseline}
      BY <3>2
    <3>4. oracle'.baseline \in IF current = {} THEN {oracle.baseline}
                              ELSE Policy!Least(oracle'.ledgers, current)
      BY <2>3, <3>2
    <3> QED
      BY <2>3, <3>1, <3>3, <3>4 DEF Policy!_sync_runnable
  <2>7. Policy!Schedule(current)
    <3>1. oracle.pending.model = Policy!NoModel
      BY <2>4 DEF NoModel, Policy!NoModel
    <3>2. CASE current = {} /\ oracle'.pending = NoCandidate /\ ~is_urgent(oracle'.pending)
      <4>1. oracle'.pending.model = oracle.pending.model /\ urgents' = urgents
        BY <2>4, <2>5, <3>2
      <4> QED
        BY <2>6, <3>1, <3>2, <4>1 DEF Policy!Schedule
    <3>3. CASE oracle'.pending.model \in current /\ is_urgent(oracle'.pending)
      <4>1. urgents' = urgents + 1
        BY <2>5, <3>3
      <4> QED
        BY <2>6, <3>1, <3>3, <4>1 DEF Policy!Schedule
    <3>4. CASE /\ oracle'.pending.model \in current /\ ~is_urgent(oracle'.pending)
               /\ oracle'.ledgers[oracle'.pending.model] \in Least(oracle'.ledgers, current)
      <4>1. urgents' = urgents
        BY <2>5, <3>4
      <4> QED
        BY <2>6, <3>1, <3>4, <4>1 DEF Policy!Schedule, Least, Policy!Least
    <3> QED
      BY <2>3, <3>2, <3>3, <3>4
  <2> QED
    BY <2>3, <2>7 DEF Policy!Next
<1>4. CASE Pays
  <2> DEFINE c == oracle.pending
  <2>1. c \in Offered /\ c.model \in oracle.runnable
    BY <1>1, <1>4 DEF Pays, PendingInv, Schedulers
  <2>2. charge(c) \in 1..MaxCharge /\ c.model # NoModel
    BY <2>1, OfferedCharge, ModelsAssumption
  <2>3. oracle' = accept_receipt(oracle, c) /\ urgents' = urgents
    BY <1>4 DEF Pays
  <2>4. /\ oracle'.pending = NoCandidate /\ oracle'.runnable = oracle.runnable
        /\ oracle'.ledgers = [oracle.ledgers EXCEPT ![c.model] = @ + charge(c)]
        /\ oracle'.baseline \in Least(oracle'.ledgers, oracle.runnable)
    BY <1>1, <2>1, <2>2, <2>3, Charges
  <2>5. NoCandidate.model = NoModel
    BY DEF NoCandidate
  <2>6. Policy!accept_receipt(charge(c))
    BY <2>2, <2>3, <2>4, <2>5 DEF Policy!accept_receipt, NoModel, Policy!NoModel, Least,
       Policy!Least
  <2> QED
    BY <2>2, <2>6 DEF Policy!Next
<1>5. CASE Keeps
  BY <1>5 DEF Keeps, Policy!vars
<1> QED
  BY <1>2, <1>3, <1>4, <1>5, OracleSteps

\* The oracle that judges a scheduler implements the abstract policy, for any
\* scenario the loader admits: a repetition starts afresh, a turn aligns the
\* models that join and goes to an urgent model or to one with the least ledger,
\* and a receipt charges it (SchedulerOracle.schedule and accept_receipt).
THEOREM OracleKeepsPolicy == Spec => PolicyKept
<1>1. Init => Policy!Init
  BY PolicyInit
<1>2. IndInv /\ [Next]_vars => [Policy!Next]_(Policy!vars)
  BY PolicyStep
<1> QED
  BY <1>1, <1>2, Invariance, PTL DEF Spec, PolicyKept, Policy!Spec

-----------------------------------------------------------------------------
(* The metrics of a repetition: the longest stretch of turns, turn by turn. *)

\* A part of 1..n is finite, and so is what an interval has of it.
LEMMA PartFinite ==
    ASSUME NEW n \in Nat, NEW C, C \subseteq 1..n, NEW I
    PROVE  IsFiniteSet(C \cap I) /\ Cardinality(C \cap I) \in Nat
<1>1. IsFiniteSet(1..n)
  BY FS_Interval
<1>2. C \cap I \subseteq 1..n
  OBVIOUS
<1> QED
  BY <1>1, <1>2, FS_Subset, FS_CardinalityType

\* What Longest is, if it is known.
LEMMA LongestIs ==
    ASSUME NEW n, NEW W, NEW C, NEW x \in Int, x \in Lengths(n, W, C),
           \A y \in Lengths(n, W, C) : y \in Int /\ y <= x
    PROVE  Longest(n, W, C) = x
<1> DEFINE L == Lengths(n, W, C)
           z == CHOOSE x1 \in L : \A y \in L : y <= x1
<1>1. z \in L /\ \A y \in L : y <= z
  <2> HIDE DEF L
  <2>1. \E x1 \in L : \A y \in L : y <= x1
    BY DEF L
  <2> QED
    BY <2>1
<1>2. z \in Int /\ z <= x /\ x <= z
  BY <1>1
<1>3. z = x
  BY <1>2
<1> QED
  BY <1>3 DEF Longest

\* The lengths are numbers, and one of them is the longest.
LEMMA LongestExists ==
    ASSUME NEW n \in Nat, NEW W, NEW C, C \subseteq 1..n
    PROVE  /\ Lengths(n, W, C) \subseteq 0..n
           /\ Longest(n, W, C) \in Lengths(n, W, C)
           /\ \A y \in Lengths(n, W, C) : y <= Longest(n, W, C)
<1> DEFINE L == Lengths(n, W, C)
           R == {p \in L \X L : p[1] > p[2]}
<1>1. L \subseteq 0..n
  <2>1. ASSUME NEW p \in (1..n) \X (1..n) PROVE Cardinality(C \cap (p[1]..p[2])) \in 0..n
    <3>1. Cardinality(C \cap (p[1]..p[2])) \in Nat
      BY PartFinite
    <3>2. C \cap (p[1]..p[2]) \subseteq 1..n /\ IsFiniteSet(1..n) /\ Cardinality(1..n) = n
      <4>1. IsFiniteSet(1..n) /\ Cardinality(1..n) = IF 1 > n THEN 0 ELSE n - 1 + 1
        BY FS_Interval
      <4> QED
        BY <4>1
    <3>3. Cardinality(C \cap (p[1]..p[2])) <= n
      BY <3>2, FS_Subset
    <3> QED
      BY <3>1, <3>3
  <2>2. 0 \in 0..n
    OBVIOUS
  <2> QED
    BY <2>1, <2>2 DEF Lengths
<1>2. 0 \in L /\ IsFiniteSet(L)
  <2>1. IsFiniteSet(0..n)
    BY FS_Interval
  <2> QED
    BY <1>1, <2>1, FS_Subset DEF Lengths
<1>3. \A x, y \in L : x \in Int /\ y \in Int /\ (<<x, y>> \in R <=> x > y)
  BY <1>1
<1> HIDE DEF L, R
<1>4. PICK x \in L : \A y \in L : <<y, x>> \notin R
  <2>1. \A x \in L : <<x, x>> \notin R
    BY <1>3
  <2>2. \A x, y, z \in L : <<x, y>> \in R /\ <<y, z>> \in R => <<x, z>> \in R
    BY <1>3
  <2> QED
    BY <1>2, <2>1, <2>2, Minimal
<1>5. x \in Int /\ \A y \in L : y \in Int /\ y <= x
  <2>1. ASSUME NEW y \in L PROVE y \in Int /\ x \in Int /\ ~(y > x)
    BY <1>3, <1>4
  <2> QED
    BY <2>1, <1>4
<1>6. Longest(n, W, C) = x
  BY <1>4, <1>5, LongestIs DEF L
<1> QED
  BY <1>1, <1>4, <1>5, <1>6 DEF L

\* The stretch of W that reaches up to n, from s on: what it has of C is v.
Reaches(n, W, C, s, v) ==
    /\ s \in 1..(n + 1) /\ s..n \subseteq W
    /\ s = 1 \/ s - 1 \notin W
    /\ Cardinality(C \cap (s..n)) = v

\* One more turn, outside W: nothing grows.
LEMMA TurnOutside ==
    ASSUME NEW n \in Nat, NEW W, NEW C, W \subseteq 1..n, C \subseteq W
    PROVE  /\ Longest(n + 1, W, C) = Longest(n, W, C)
           /\ Reaches(n + 1, W, C, n + 2, 0)
<1>1. Lengths(n + 1, W, C) = Lengths(n, W, C)
  <2>1. ASSUME NEW p \in (1..(n + 1)) \X (1..(n + 1)), p[1]..p[2] \subseteq W
        PROVE  Cardinality(C \cap (p[1]..p[2])) \in Lengths(n, W, C)
    <3>1. CASE p[1] > p[2]
      <4>1. C \cap (p[1]..p[2]) = {}
        BY <3>1
      <4> QED
        BY <4>1, FS_EmptySet DEF Lengths
    <3>2. CASE p[1] <= p[2]
      <4>1. p[2] \in W /\ p[1] \in W
        BY <2>1, <3>2
      <4>2. p \in (1..n) \X (1..n)
        BY <4>1
      <4> QED
        BY <2>1, <4>2 DEF Lengths
    <3> QED
      BY <3>1, <3>2
  <2>2. ASSUME NEW p \in (1..n) \X (1..n) PROVE p \in (1..(n + 1)) \X (1..(n + 1))
    OBVIOUS
  <2>3. Lengths(n + 1, W, C) \subseteq Lengths(n, W, C)
    BY <2>1 DEF Lengths
  <2>4. Lengths(n, W, C) \subseteq Lengths(n + 1, W, C)
    BY <2>2 DEF Lengths
  <2> QED
    BY <2>3, <2>4
<1>2. C \cap ((n + 2)..(n + 1)) = {} /\ (n + 2)..(n + 1) \subseteq W
  OBVIOUS
<1>3. n + 2 \in 1..(n + 1 + 1) /\ n + 2 - 1 \notin W
  OBVIOUS
<1>4. Longest(n + 1, W, C) = Longest(n, W, C)
  BY <1>1 DEF Longest
<1>5. Cardinality(C \cap ((n + 2)..(n + 1))) = 0
  BY <1>2, FS_EmptySet
<1> QED
  BY <1>2, <1>3, <1>4, <1>5 DEF Reaches

\* One more turn within W: a stretch that reaches it starts at s or later, and
\* it counts if it is in C.
LEMMA TurnWithin ==
    ASSUME NEW n \in Nat, NEW W, NEW C, NEW D, NEW s, NEW v \in Nat, NEW w \in Nat,
           W \subseteq 1..n, C \subseteq W, Reaches(n, W, C, s, v),
           (D = C /\ w = v) \/ (D = C \cup {n + 1} /\ w = v + 1)
    PROVE  /\ Longest(n + 1, W \cup {n + 1}, D) = More(Longest(n, W, C), w)
           /\ Reaches(n + 1, W \cup {n + 1}, D, s, w)
<1> DEFINE V == W \cup {n + 1}
           x == More(Longest(n, W, C), w)
<1>1. /\ s \in 1..(n + 1) /\ s..n \subseteq W /\ (s = 1 \/ s - 1 \notin W)
      /\ v = Cardinality(C \cap (s..n)) /\ v \in Nat
  BY PartFinite DEF Reaches
<1>2. D \subseteq 1..(n + 1) /\ s..(n + 1) \subseteq V /\ (D = C \/ D = C \cup {n + 1})
  <2>1. 1..(n + 1) = (1..n) \cup {n + 1} /\ s..(n + 1) = (s..n) \cup {n + 1}
    BY <1>1
  <2> QED
    BY <1>1, <2>1
<1>3. Cardinality(D \cap (s..(n + 1))) = w
  <2>1. CASE D = C /\ w = v
    <3>1. D \cap (s..(n + 1)) = C \cap (s..n)
      BY <2>1
    <3> QED
      BY <1>1, <2>1, <3>1
  <2>2. CASE D = C \cup {n + 1} /\ w = v + 1
    <3>1. D \cap (s..(n + 1)) = (C \cap (s..n)) \cup {n + 1} /\ n + 1 \notin C \cap (s..n)
      BY <1>1, <2>2
    <3>2. Cardinality((C \cap (s..n)) \cup {n + 1}) = Cardinality(C \cap (s..n)) + 1
      BY <3>1, PartFinite, FS_AddElement
    <3> QED
      BY <1>1, <2>2, <3>1, <3>2
  <2> QED
    BY <2>1, <2>2
<1>4. Reaches(n + 1, V, D, s, w)
  <2>1. s - 1 \notin W => s - 1 \notin V
    BY <1>1
  <2> QED
    BY <1>1, <1>2, <1>3, <2>1 DEF Reaches
<1>5. /\ Lengths(n, W, C) \subseteq Int /\ Longest(n, W, C) \in Lengths(n, W, C)
      /\ Longest(n, W, C) \in Int
      /\ \A y \in Lengths(n, W, C) : y \in Int /\ y <= Longest(n, W, C)
  <2>1. C \subseteq 1..n
    OBVIOUS
  <2>2. /\ Lengths(n, W, C) \subseteq 0..n
        /\ Longest(n, W, C) \in Lengths(n, W, C)
        /\ \A y \in Lengths(n, W, C) : y <= Longest(n, W, C)
    BY <2>1, LongestExists
  <2> QED
    BY <2>2
<1>6. w \in Nat /\ x \in Int
  BY <1>1, <1>5 DEF More
<1>7. w \in Lengths(n + 1, V, D)
  <2> DEFINE p == <<s, n + 1>>
  <2>1. p \in (1..(n + 1)) \X (1..(n + 1)) /\ p[1] = s /\ p[2] = n + 1
    BY <1>1
  <2> HIDE DEF p, V
  <2>2. p[1]..p[2] \subseteq V /\ w = Cardinality(D \cap (p[1]..p[2]))
    BY <1>2, <1>3, <2>1
  <2> QED
    BY <2>1, <2>2 DEF Lengths
<1>8. Lengths(n, W, C) \subseteq Lengths(n + 1, V, D)
  <2>1. ASSUME NEW p \in (1..n) \X (1..n), p[1]..p[2] \subseteq W
        PROVE  Cardinality(C \cap (p[1]..p[2])) \in Lengths(n + 1, V, D)
    <3>1. C \cap (p[1]..p[2]) = D \cap (p[1]..p[2])
      OBVIOUS
    <3>2. p \in (1..(n + 1)) \X (1..(n + 1)) /\ p[1]..p[2] \subseteq V
      BY <2>1
    <3> QED
      BY <3>1, <3>2 DEF Lengths
  <2>2. 0 \in Lengths(n + 1, V, D)
    BY DEF Lengths
  <2> QED
    BY <2>1, <2>2 DEF Lengths
<1>9. ASSUME NEW y \in Lengths(n + 1, V, D) PROVE y \in Int /\ y <= x
  <2>1. CASE y = 0
    BY <1>1, <1>5, <1>6, <2>1 DEF More
  <2>2. ASSUME NEW p \in (1..(n + 1)) \X (1..(n + 1)), p[1]..p[2] \subseteq V,
               y = Cardinality(D \cap (p[1]..p[2]))
        PROVE  y \in Int /\ y <= x
    <3>1. CASE p[2] = n + 1
      <4>1. p[1] >= s
        <5> SUFFICES ASSUME p[1] < s PROVE FALSE
          BY <1>1
        <5>1. s - 1 \in p[1]..p[2] /\ s - 1 # n + 1 /\ s # 1
          BY <1>1, <3>1
        <5> QED
          BY <1>1, <2>2, <5>1
      <4>2. D \cap (p[1]..p[2]) \subseteq D \cap (s..(n + 1))
        BY <1>1, <3>1, <4>1
      <4>3. IsFiniteSet(D \cap (s..(n + 1))) /\ Cardinality(D \cap (p[1]..p[2])) \in Nat
        <5>1. n + 1 \in Nat
          OBVIOUS
        <5> QED
          BY <1>2, <5>1, PartFinite
      <4>4. Cardinality(D \cap (p[1]..p[2])) <= Cardinality(D \cap (s..(n + 1)))
        BY <4>2, <4>3, FS_Subset
      <4>5. y \in Nat /\ y <= w
        BY <1>3, <2>2, <4>3, <4>4
      <4> QED
        BY <1>5, <1>6, <4>5 DEF More
    <3>2. CASE p[2] # n + 1
      <4>1. D \cap (p[1]..p[2]) = C \cap (p[1]..p[2])
        BY <3>2
      <4>2. y \in Lengths(n, W, C)
        <5>1. CASE p[1] = n + 1
          <6>1. C \cap (p[1]..p[2]) = {}
            BY <3>2, <5>1
          <6> QED
            BY <2>2, <4>1, <6>1, FS_EmptySet DEF Lengths
        <5>2. CASE p[1] # n + 1
          <6>1. p \in (1..n) \X (1..n) /\ p[1]..p[2] \subseteq W
            BY <2>2, <3>2, <5>2
          <6> QED
            BY <2>2, <4>1, <6>1 DEF Lengths
        <5> QED
          BY <5>1, <5>2
      <4> QED
        BY <1>5, <1>6, <4>2 DEF More
    <3> QED
      BY <3>1, <3>2
  <2>3. \/ y = 0
        \/ \E p \in (1..(n + 1)) \X (1..(n + 1)) :
              p[1]..p[2] \subseteq V /\ y = Cardinality(D \cap (p[1]..p[2]))
    BY <1>9 DEF Lengths
  <2> HIDE DEF x, V
  <2> QED
    BY <2>1, <2>2, <2>3
<1>10. x \in Lengths(n + 1, V, D)
  BY <1>5, <1>7, <1>8 DEF More
<1>11. Longest(n + 1, V, D) = x
  <2> HIDE DEF x, V
  <2> QED
    BY <1>6, <1>9, <1>10, LongestIs
<1> QED
  BY <1>1, <1>4, <1>11

\* What reaches up to n is one of the lengths.
LEMMA ReachesLength ==
    ASSUME NEW n \in Nat, NEW W, NEW C, W \subseteq 1..n, C \subseteq W,
           NEW s, NEW v, Reaches(n, W, C, s, v)
    PROVE  v \in Nat /\ Longest(n, W, C) \in Nat /\ v <= Longest(n, W, C)
<1>1. s \in 1..(n + 1) /\ s..n \subseteq W /\ v = Cardinality(C \cap (s..n)) /\ C \subseteq 1..n
  BY DEF Reaches
<1>2. /\ Lengths(n, W, C) \subseteq 0..n
      /\ Longest(n, W, C) \in Lengths(n, W, C)
      /\ \A y \in Lengths(n, W, C) : y <= Longest(n, W, C)
  BY <1>1, LongestExists
<1>3. v \in Lengths(n, W, C)
  <2>1. CASE s = n + 1
    <3>1. C \cap (s..n) = {}
      BY <2>1
    <3> QED
      BY <1>1, <3>1, FS_EmptySet DEF Lengths
  <2>2. CASE s # n + 1
    <3> DEFINE p == <<s, n>>
    <3>1. p \in (1..n) \X (1..n) /\ p[1] = s /\ p[2] = n
      BY <1>1, <2>2
    <3> HIDE DEF p
    <3>2. p[1]..p[2] \subseteq W /\ v = Cardinality(C \cap (p[1]..p[2]))
      BY <1>1, <3>1
    <3> QED
      BY <3>1, <3>2 DEF Lengths
  <2> QED
    BY <2>1, <2>2
<1> QED
  BY <1>2, <1>3

\* A trace of n turns, and what the metrics read of it.
IsTrace(trace, n) == n \in Nat /\ trace = [k \in 1..n |-> trace[k]]
SameTurns(a, b, n) ==
    \A k \in 1..n : a[k].runnable = b[k].runnable /\ a[k].selected = b[k].selected

LEMMA TraceLen ==
    ASSUME NEW trace, NEW n, IsTrace(trace, n)
    PROVE  Len(trace) = n /\ DOMAIN trace = 1..n /\ trace \in Seq({trace[k] : k \in 1..n})
<1>1. trace \in Seq({trace[k] : k \in 1..n})
  BY DEF IsTrace
<1> QED
  BY <1>1 DEF IsTrace

\* One more turn, x, at the end of a trace.
Prolongs(after, trace, n, x) ==
    /\ IsTrace(after, n + 1) /\ after[n + 1] = x
    /\ \A k \in 1..n : after[k] = trace[k]

LEMMA TraceAppend ==
    ASSUME NEW n \in Nat, NEW trace, IsTrace(trace, n), NEW x
    PROVE  Prolongs(Append(trace, x), trace, n, x)
<1> DEFINE after == Append(trace, x)
<1> DEFINE S == {trace[k] : k \in 1..n} \cup {x}
<1>1. n \in Nat /\ Len(trace) = n
  BY TraceLen DEF IsTrace
<1>2. trace \in Seq(S) /\ x \in S
  <2>1. \A k \in 1..n : trace[k] \in S
    OBVIOUS
  <2> QED
    BY <1>1, <2>1 DEF IsTrace
<1> HIDE DEF S
<1>3. /\ Append(trace, x) \in Seq(S) /\ Len(Append(trace, x)) = n + 1
      /\ Append(trace, x)[n + 1] = x
      /\ \A k \in 1..n : Append(trace, x)[k] = trace[k]
  BY <1>1, <1>2
<1>4. after \in Seq(S) /\ Len(after) = n + 1
  BY <1>3
<1> HIDE DEF after
<1>5. after = [k \in 1..(n + 1) |-> after[k]]
  <2>1. \A q \in Seq(S) : Len(q) = n + 1 => q = [k \in 1..(n + 1) |-> q[k]]
    OBVIOUS
  <2> QED
    BY <1>4, <2>1
<1>6. IsTrace(after, n + 1)
  BY <1>1, <1>5 DEF IsTrace
<1> QED
  BY <1>3, <1>6 DEF after, Prolongs

\* The two kinds of turn within W: one that counts, and one that does not.
LEMMA TurnCounts ==
    ASSUME NEW n \in Nat, NEW W, NEW C, NEW s, NEW v \in Nat,
           W \subseteq 1..n, C \subseteq W, Reaches(n, W, C, s, v)
    PROVE  /\ Longest(n + 1, W \cup {n + 1}, C \cup {n + 1}) = More(Longest(n, W, C), v + 1)
           /\ Reaches(n + 1, W \cup {n + 1}, C \cup {n + 1}, s, v + 1)
<1>1. v + 1 \in Nat
  OBVIOUS
<1> QED
  BY <1>1, TurnWithin, Zenon

LEMMA TurnPasses ==
    ASSUME NEW n \in Nat, NEW W, NEW C, NEW s, NEW v \in Nat,
           W \subseteq 1..n, C \subseteq W, Reaches(n, W, C, s, v)
    PROVE  /\ Longest(n + 1, W \cup {n + 1}, C) = More(Longest(n, W, C), v)
           /\ Reaches(n + 1, W \cup {n + 1}, C, s, v)
BY TurnWithin

\* What one more turn adds to what is read of a trace.
LEMMA TraceTurn ==
    ASSUME NEW n \in Nat, NEW trace, NEW after, IsTrace(trace, n), IsTrace(after, n + 1),
           SameTurns(after, trace, n), NEW m
    PROVE  /\ Waits(trace, m) \subseteq 1..n /\ Selections(trace, m) \subseteq 1..n
           /\ Waits(after, m) = Waits(trace, m) \cup
                IF m \in after[n + 1].runnable /\ after[n + 1].selected # m THEN {n + 1} ELSE {}
           /\ Selections(after, m) = Selections(trace, m) \cup
                IF after[n + 1].selected = m THEN {n + 1} ELSE {}
<1>1. Len(trace) = n /\ Len(after) = n + 1 /\ n \in Nat
  <2>1. n + 1 \in Nat
    BY DEF IsTrace
  <2> QED
    BY <2>1, TraceLen DEF IsTrace
<1>2. 1..(n + 1) = (1..n) \cup {n + 1}
  BY <1>1
<1>3. \A k \in 1..n : after[k].runnable = trace[k].runnable /\ after[k].selected = trace[k].selected
  BY DEF SameTurns
<1> QED
  BY <1>1, <1>2, <1>3 DEF Waits, Selections

\* The tally of a trace: its metrics, the wait of a model up to now, and the run
\* of the model selected last.
Run(t, m) == IF t.last = m THEN t.consecutive ELSE 0
TallyOf(trace, t, m) ==
    /\ t.selected[m] = TraceCount(trace, m)
    /\ t.max_wait[m] = TraceMaxWait(trace, m)
    /\ \E s : Reaches(Len(trace), Waits(trace, m), Waits(trace, m), s, t.wait[m])
    /\ t.max_consecutive[m] = TraceMaxConsecutive(trace, m)
    /\ \E s : Reaches(Len(trace), Selections(trace, m) \cup Selections(trace, NoModel),
                      Selections(trace, m), s, Run(t, m))
Tallies(t) ==
    /\ DOMAIN t = DOMAIN NewTally
    /\ DOMAIN t.selected = Models /\ DOMAIN t.max_consecutive = Models

\* A turn is tallied as the trace that it ends shows it.
LEMMA TallyTurn ==
    ASSUME NEW n \in Nat, NEW trace, NEW after, IsTrace(trace, n), IsTrace(after, n + 1),
           SameTurns(after, trace, n), NEW t, Tallies(t),
           NEW cands, NEW c, c.model \in Models \/ c = NoCandidate,
           after[n + 1].runnable = ModelsOf(cands), after[n + 1].selected = c.model,
           NEW m \in Models, TallyOf(trace, t, m)
    PROVE  TallyOf(after, tally_selection(tally_waits(t, cands, c), c), m)
<1> DEFINE W == Waits(trace, m)
           C == Selections(trace, m)
           N == Selections(trace, NoModel)
           u == tally_waits(t, cands, c)
           v == tally_selection(u, c)
           run == IF t.last = c.model THEN t.consecutive + 1 ELSE 1
           waiting == m \in ModelsOf(cands) /\ m # c.model
<1>1. n \in Nat /\ Len(trace) = n /\ Len(after) = n + 1 /\ m # NoModel
  <2>1. n + 1 \in Nat
    BY DEF IsTrace
  <2> QED
    BY <2>1, TraceLen, ModelsAssumption DEF IsTrace
<1>2. /\ W \subseteq 1..n /\ C \subseteq 1..n /\ N \subseteq 1..n
      /\ Waits(after, m) = W \cup IF waiting THEN {n + 1} ELSE {}
      /\ Selections(after, m) = C \cup IF c.model = m THEN {n + 1} ELSE {}
      /\ Selections(after, NoModel) = N \cup IF c.model = NoModel THEN {n + 1} ELSE {}
  BY TraceTurn
<1>3. c.model = NoModel <=> c = NoCandidate
  BY ModelsAssumption DEF NoCandidate
<1>4. /\ v.wait[m] = IF waiting THEN t.wait[m] + 1 ELSE 0
      /\ v.max_wait[m] = More(t.max_wait[m], v.wait[m])
      /\ v.selected[m] = IF c.model = m THEN t.selected[m] + 1 ELSE t.selected[m]
      /\ Run(v, m) = IF c = NoCandidate THEN Run(t, m)
                     ELSE IF c.model = m THEN run ELSE 0
      /\ v.max_consecutive[m] = IF c.model = m THEN More(t.max_consecutive[m], run)
                                ELSE t.max_consecutive[m]
  <2>1. /\ DOMAIN u = DOMAIN t
        /\ u.wait[m] = IF waiting THEN t.wait[m] + 1 ELSE 0
        /\ u.max_wait[m] = More(t.max_wait[m], u.wait[m])
        /\ u.selected = t.selected /\ u.last = t.last /\ u.consecutive = t.consecutive
        /\ u.max_consecutive = t.max_consecutive
    BY DEF tally_waits, Tallies, NewTally
  <2> HIDE DEF u
  <2>2. /\ v.wait = u.wait /\ v.max_wait = u.max_wait
        /\ v.selected[m] = IF c.model = m THEN u.selected[m] + 1 ELSE u.selected[m]
        /\ v.last = IF c = NoCandidate THEN u.last ELSE c.model
        /\ v.consecutive = IF c = NoCandidate THEN u.consecutive ELSE run
        /\ v.max_consecutive[m] = IF c.model = m THEN More(u.max_consecutive[m], run)
                                  ELSE u.max_consecutive[m]
    <3>1. CASE c = NoCandidate
      BY <1>1, <1>3, <3>1 DEF tally_selection
    <3>2. CASE c # NoCandidate
      BY <2>1, <3>2 DEF tally_selection, Tallies, NewTally
    <3> QED
      BY <3>1, <3>2
  <2> HIDE DEF v
  <2> QED
    BY <1>1, <2>1, <2>2 DEF Run
<1> HIDE DEF u, v, waiting
<1>5. v.selected[m] = TraceCount(after, m)
  <2>1. t.selected[m] = Cardinality(C) /\ TraceCount(after, m) = Cardinality(Selections(after, m))
    BY DEF TallyOf, TraceCount
  <2>2. CASE c.model = m
    <3>1. IsFiniteSet(C) /\ n + 1 \notin C
      <4>1. IsFiniteSet(1..n)
        BY <1>1, FS_Interval
      <4> QED
        BY <1>1, <1>2, <4>1, FS_Subset
    <3>2. Cardinality(C \cup {n + 1}) = Cardinality(C) + 1
      BY <3>1, FS_AddElement
    <3> QED
      BY <1>2, <1>4, <2>1, <2>2, <3>2
  <2>3. CASE c.model # m
    BY <1>2, <1>4, <2>1, <2>3
  <2> QED
    BY <2>2, <2>3
<1>6. /\ v.max_wait[m] = TraceMaxWait(after, m)
      /\ \E s : Reaches(Len(after), Waits(after, m), Waits(after, m), s, v.wait[m])
  <2>1. PICK s : Reaches(n, W, W, s, t.wait[m])
    BY <1>1 DEF TallyOf
  <2>0. t.wait[m] \in Nat
    BY <1>1, <1>2, <2>1, ReachesLength
  <2>2. t.max_wait[m] = Longest(n, W, W)
    BY <1>1 DEF TallyOf, TraceMaxWait
  <2>3. CASE waiting
    <3>1. Waits(after, m) = W \cup {n + 1} /\ W \cup {n + 1} # W
      BY <1>1, <1>2, <2>3
    <3>2. /\ Longest(n + 1, W \cup {n + 1}, W \cup {n + 1}) = More(Longest(n, W, W), t.wait[m] + 1)
          /\ Reaches(n + 1, W \cup {n + 1}, W \cup {n + 1}, s, t.wait[m] + 1)
      <4> DEFINE a == t.wait[m]
      <4>1. a \in Nat /\ Reaches(n, W, W, s, a) /\ W \subseteq 1..n /\ W \subseteq W /\ n \in Nat
        BY <1>1, <1>2, <2>0, <2>1
      <4> HIDE DEF W, a
      <4>2. /\ Longest(n + 1, W \cup {n + 1}, W \cup {n + 1}) = More(Longest(n, W, W), a + 1)
            /\ Reaches(n + 1, W \cup {n + 1}, W \cup {n + 1}, s, a + 1)
        BY ONLY <4>1, TurnCounts
      <4> QED
        BY <4>2 DEF a
    <3> QED
      BY <1>1, <1>4, <2>2, <2>3, <3>1, <3>2 DEF TraceMaxWait
  <2>4. CASE ~waiting
    <3>1. Waits(after, m) = W
      BY <1>2, <2>4
    <3>2. /\ Longest(n + 1, W, W) = Longest(n, W, W)
          /\ Reaches(n + 1, W, W, n + 2, 0)
      BY <1>1, <1>2, TurnOutside
    <3>3. More(t.max_wait[m], 0) = t.max_wait[m]
      <4>1. t.max_wait[m] \in Nat
        BY <1>1, <1>2, <2>1, <2>2, ReachesLength
      <4> QED
        BY <4>1 DEF More
    <3> QED
      BY <1>1, <1>4, <2>2, <2>4, <3>1, <3>2, <3>3 DEF TraceMaxWait
  <2> QED
    BY <2>3, <2>4
<1>7. /\ v.max_consecutive[m] = TraceMaxConsecutive(after, m)
      /\ \E s : Reaches(Len(after), Selections(after, m) \cup Selections(after, NoModel),
                        Selections(after, m), s, Run(v, m))
  <2> DEFINE V == C \cup N
  <2>1. PICK s : Reaches(n, V, C, s, Run(t, m))
    BY <1>1 DEF TallyOf
  <2>2. t.max_consecutive[m] = Longest(n, V, C)
    BY <1>1 DEF TallyOf, TraceMaxConsecutive
  <2>3. V \subseteq 1..n /\ C \subseteq V /\ n + 1 \notin V
    BY <1>1, <1>2
  <2>0. Run(t, m) \in Nat
    <3> HIDE DEF V, C
    <3> QED
      BY <1>1, <2>1, <2>3, ReachesLength
  <2>4. CASE c.model = m
    <3>1. /\ Selections(after, m) = C \cup {n + 1}
          /\ Selections(after, m) \cup Selections(after, NoModel) = V \cup {n + 1}
      BY <1>1, <1>2, <2>4
    <3>2. /\ Longest(n + 1, V \cup {n + 1}, C \cup {n + 1}) = More(Longest(n, V, C), Run(t, m) + 1)
          /\ Reaches(n + 1, V \cup {n + 1}, C \cup {n + 1}, s, Run(t, m) + 1)
      <4> DEFINE a == Run(t, m)
      <4>1. a \in Nat /\ Reaches(n, V, C, s, a) /\ V \subseteq 1..n /\ C \subseteq V /\ n \in Nat
        BY <1>1, <2>0, <2>1, <2>3
      <4> HIDE DEF V, C, a
      <4>2. /\ Longest(n + 1, V \cup {n + 1}, C \cup {n + 1}) = More(Longest(n, V, C), a + 1)
            /\ Reaches(n + 1, V \cup {n + 1}, C \cup {n + 1}, s, a + 1)
        BY ONLY <4>1, TurnCounts
      <4> QED
        BY <4>2 DEF a
    <3>3. run = Run(t, m) + 1 /\ c # NoCandidate
      BY <1>1, <1>3, <2>4 DEF Run
    <3> QED
      BY <1>1, <1>4, <2>2, <2>4, <3>1, <3>2, <3>3 DEF TraceMaxConsecutive
  <2>5. CASE c = NoCandidate
    <3>1. /\ Selections(after, m) = C
          /\ Selections(after, m) \cup Selections(after, NoModel) = V \cup {n + 1}
      BY <1>1, <1>2, <1>3, <2>5
    <3>2. /\ Longest(n + 1, V \cup {n + 1}, C) = More(Longest(n, V, C), Run(t, m))
          /\ Reaches(n + 1, V \cup {n + 1}, C, s, Run(t, m))
      <4> DEFINE a == Run(t, m)
      <4>1. a \in Nat /\ Reaches(n, V, C, s, a) /\ V \subseteq 1..n /\ C \subseteq V /\ n \in Nat
        BY <1>1, <2>0, <2>1, <2>3
      <4> HIDE DEF V, C, a
      <4>2. /\ Longest(n + 1, V \cup {n + 1}, C) = More(Longest(n, V, C), a)
            /\ Reaches(n + 1, V \cup {n + 1}, C, s, a)
        BY ONLY <4>1, TurnPasses
      <4> QED
        BY <4>2 DEF a
    <3>3. More(Longest(n, V, C), Run(t, m)) = Longest(n, V, C)
      <4>1. /\ Run(t, m) \in Nat /\ Longest(n, V, C) \in Nat /\ Run(t, m) <= Longest(n, V, C)
        <5> HIDE DEF V, C
        <5> QED
          BY <1>1, <2>1, <2>3, ReachesLength
      <4> QED
        BY <4>1 DEF More
    <3> QED
      BY <1>1, <1>3, <1>4, <2>2, <2>5, <3>1, <3>2, <3>3 DEF TraceMaxConsecutive
  <2>6. CASE c.model # m /\ c # NoCandidate
    <3>1. /\ Selections(after, m) = C
          /\ Selections(after, m) \cup Selections(after, NoModel) = V
      BY <1>1, <1>2, <1>3, <2>6
    <3>2. /\ Longest(n + 1, V, C) = Longest(n, V, C)
          /\ Reaches(n + 1, V, C, n + 2, 0)
      <4> HIDE DEF V, C
      <4> QED
        BY <1>1, <2>3, TurnOutside
    <3> QED
      BY <1>1, <1>4, <2>2, <2>6, <3>1, <3>2 DEF TraceMaxConsecutive
  <2> QED
    BY <2>4, <2>5, <2>6
<1> QED
  BY <1>5, <1>6, <1>7 DEF TallyOf, u, v

\* The tally of a trace reads only who was runnable and who was selected.
LEMMA SameTally ==
    ASSUME NEW a, NEW b, NEW n, IsTrace(a, n), IsTrace(b, n), SameTurns(b, a, n),
           NEW t, NEW m, TallyOf(a, t, m)
    PROVE  TallyOf(b, t, m)
<1>1. Len(a) = n /\ Len(b) = n
  BY TraceLen
<1>2. /\ Waits(b, m) = Waits(a, m) /\ Selections(b, m) = Selections(a, m)
      /\ Selections(b, NoModel) = Selections(a, NoModel)
  BY <1>1 DEF Waits, Selections, SameTurns
<1>3. TraceCount(b, m) = TraceCount(a, m) /\ TraceMaxWait(b, m) = TraceMaxWait(a, m)
  BY <1>1, <1>2 DEF TraceCount, TraceMaxWait
<1>4. TraceMaxConsecutive(b, m) = TraceMaxConsecutive(a, m)
  BY <1>1, <1>2 DEF TraceMaxConsecutive
<1> QED
  BY <1>1, <1>2, <1>3, <1>4 DEF TallyOf

\* Before the first turn everything is zero.
LEMMA NewTallies ==
    ASSUME NEW m \in Models
    PROVE  Tallies(NewTally) /\ TallyOf(<<>>, NewTally, m)
<1>1. Len(<<>>) = 0 /\ \A x : Waits(<<>>, x) = {} /\ Selections(<<>>, x) = {}
  <2>1. Len(<<>>) = 0 /\ 1..0 = {}
    OBVIOUS
  <2> QED
    BY <2>1 DEF Waits, Selections
<1>2. Lengths(0, {}, {}) = {0}
  <2>1. 1..0 = {}
    OBVIOUS
  <2> QED
    BY <2>1 DEF Lengths
<1>3. Longest(0, {}, {}) = 0
  BY <1>2, LongestIs
<1>4. Reaches(0, {}, {}, 1, 0)
  <2>1. {} \cap (1..0) = {} /\ 1..0 \subseteq {} /\ 1 \in 1..(0 + 1)
    OBVIOUS
  <2> QED
    BY <2>1, FS_EmptySet DEF Reaches
<1>5. /\ NewTally.selected[m] = 0 /\ NewTally.max_wait[m] = 0 /\ NewTally.wait[m] = 0
      /\ NewTally.max_consecutive[m] = 0 /\ Run(NewTally, m) = 0
  BY ModelsAssumption DEF NewTally, Zeros, Run
<1>6. Tallies(NewTally)
  BY DEF Tallies, NewTally, Zeros
<1>7. {} \cup {} = {} /\ Cardinality({}) = 0
  BY FS_EmptySet
<1> QED
  BY <1>1, <1>3, <1>4, <1>5, <1>6, <1>7 DEF TallyOf, TraceCount, TraceMaxWait, TraceMaxConsecutive

\* The metrics are those of the records so far, until the repetition ends in the
\* lane or fails; while a plan is awaited the oracle has the turn's models.
Counting == pc \in {"leave", "aborted"} => ~Lane /\ outcome = "passed"
MetricsInv ==
    /\ IsTrace(records, Len(records))
    /\ \A k \in 1..Len(records) : {"runnable", "selected"} \subseteq DOMAIN records[k]
    /\ awaiting => pc \in Asking
    /\ pc = "schedule" /\ awaiting => oracle.runnable = ModelsOf(Cands)
    /\ Tallies(tally)
    /\ Counting => \A m \in Models : TallyOf(records, tally, m)

LEMMA MetricsInit == Init => MetricsInv
<1> SUFFICES ASSUME Init PROVE MetricsInv
  OBVIOUS
<1>1. records = <<>> /\ tally = NewTally /\ awaiting = FALSE
  BY DEF Init
<1>2. IsTrace(<<>>, 0) /\ Len(<<>>) = 0 /\ 1..0 = {}
  BY DEF IsTrace
<1>3. Tallies(NewTally)
  BY DEF Tallies, NewTally, Zeros
<1> QED
  BY <1>1, <1>2, <1>3, NewTallies DEF MetricsInv

\* A step that leaves the records and the tally alone.
LEMMA MetricsKept ==
    ASSUME MetricsInv, UNCHANGED <<records, tally, case>>,
           Counting' => Counting,
           awaiting' => pc' \in Asking,
           pc' = "schedule" /\ awaiting' => oracle'.runnable = ModelsOf(Cands)'
    PROVE  MetricsInv'
<1>1. (Counting => \A m \in Models : TallyOf(records, tally, m))
        => (Counting => \A m \in Models : TallyOf(records, tally, m)')
  OBVIOUS
<1> QED
  BY <1>1 DEF MetricsInv, Tallies

\* An agreed plan is recorded and tallied together.
LEMMA MetricsPlan ==
    ASSUME TypeOK, PendingInv, MetricsInv, TakePlan
    PROVE  MetricsInv'
<1> DEFINE n == Len(records)
           x == Record(Head0)
           c == oracle.pending
<1>1. /\ pc = "schedule" /\ awaiting /\ UNCHANGED case /\ Counting
      /\ \/ ContractFails /\ UNCHANGED <<records, tally>>
         \/ records' = Append(records, x) /\ Disagrees("selection") /\ UNCHANGED tally
         \/ /\ records' = Append(records, x) /\ UNCHANGED outcome
            /\ tally' = tally_selection(tally_waits(tally, Cands, c), c)
            /\ NextTurn \/ (pc' = "receipt" /\ awaiting' = FALSE)
  BY DEF TakePlan, Took, Counting
<1>2. awaiting' = FALSE
  BY <1>1 DEF ContractFails, Disagrees, NextTurn
<1>3. CASE ContractFails /\ UNCHANGED <<records, tally>>
  BY <1>1, <1>2, <1>3, MetricsKept
<1>4. CASE records' = Append(records, x)
  <2>1. IsTrace(records, n) /\ n \in Nat
    BY DEF MetricsInv, IsTrace
  <2>2. /\ IsTrace(records', n + 1) /\ records'[n + 1] = x
        /\ \A k \in 1..n : records'[k] = records[k]
    <3> HIDE DEF n, x
    <3>1. Prolongs(Append(records, x), records, n, x)
      BY <2>1, TraceAppend
    <3> QED
      BY <1>4, <3>1 DEF Prolongs
  <2>3. /\ Len(records') = n + 1
        /\ x.runnable = oracle.runnable /\ x.selected = c.model
        /\ {"runnable", "selected"} \subseteq DOMAIN x
    <3>1. Len(records') = n + 1
      <4> HIDE DEF n
      <4> QED
        BY <2>2, TraceLen
    <3> QED
      BY <3>1 DEF Record
  <2>4. \A k \in 1..(n + 1) : {"runnable", "selected"} \subseteq DOMAIN records'[k]
    <3> HIDE DEF x
    <3>1. \A k \in 1..(n + 1) : k \in 1..n \/ k = n + 1
      BY <2>1
    <3> QED
      BY <2>2, <2>3, <3>1 DEF MetricsInv
  <2>5. IsTrace(records', Len(records'))
    BY <2>2, <2>3
  <2>6. CASE Disagrees("selection") /\ UNCHANGED tally
    <3>1. ~Counting'
      BY <1>1, <2>6 DEF Counting, Disagrees, Lane
    <3> QED
      BY <1>2, <2>3, <2>4, <2>5, <2>6, <3>1 DEF MetricsInv, Tallies
  <2>7. CASE tally' = tally_selection(tally_waits(tally, Cands, c), c)
    <3>1. c.model \in Models \/ c = NoCandidate
      BY OfferedCharge DEF TypeOK, Schedulers
    <3>2. SameTurns(records', records, n)
      BY <2>2 DEF SameTurns
    <3>3. records'[n + 1].runnable = ModelsOf(Cands) /\ records'[n + 1].selected = c.model
      BY <1>1, <2>2, <2>3 DEF MetricsInv
    <3>4. ASSUME NEW m \in Models PROVE TallyOf(records', tally', m)
      <4>1. TallyOf(records, tally, m) /\ Tallies(tally)
        BY <1>1 DEF MetricsInv
      <4> HIDE DEF n, c
      <4> QED
        BY <2>1, <2>2, <2>7, <3>1, <3>2, <3>3, <4>1, TallyTurn
    <3>5. Tallies(tally')
      <4>1. DOMAIN tally = DOMAIN NewTally /\ DOMAIN tally.selected = Models
            /\ DOMAIN tally.max_consecutive = Models
        BY DEF MetricsInv, Tallies
      <4> DEFINE u == tally_waits(tally, Cands, c)
      <4>2. DOMAIN u = DOMAIN NewTally /\ DOMAIN u.selected = Models
            /\ DOMAIN u.max_consecutive = Models
        BY <4>1 DEF tally_waits, NewTally
      <4> HIDE DEF u
      <4>3. CASE c = NoCandidate
        BY <2>7, <4>2, <4>3 DEF tally_selection, Tallies, NewTally, u
      <4>4. CASE c # NoCandidate
        BY <2>7, <4>2, <4>4 DEF tally_selection, Tallies, NewTally, u
      <4> QED
        BY <4>3, <4>4
    <3> QED
      BY <1>2, <2>3, <2>4, <2>5, <3>4, <3>5 DEF MetricsInv
  <2> QED
    BY <1>1, <1>4, <2>6, <2>7
<1> QED
  BY <1>1, <1>3, <1>4

\* A receipt is filled into the record of its turn; the metrics do not read it.
LEMMA MetricsReceipt ==
    ASSUME TypeOK, MetricsInv, TakeReceipt
    PROVE  MetricsInv'
<1> DEFINE n == Len(records)
<1>1. /\ pc = "receipt" /\ Counting /\ UNCHANGED <<case, tally>>
      /\ \/ ContractFails /\ UNCHANGED records
         \/ /\ records' = [records EXCEPT ![n].receipt = Head0.ledgers]
            /\ Disagrees("receipt") \/ (NextTurn /\ UNCHANGED outcome)
  BY DEF TakeReceipt, Took, Counting
<1>2. awaiting' = FALSE
  BY <1>1 DEF ContractFails, Disagrees, NextTurn
<1>3. CASE UNCHANGED records
  BY <1>1, <1>2, <1>3, MetricsKept
<1>4. CASE records' = [records EXCEPT ![n].receipt = Head0.ledgers]
  <2>1. IsTrace(records, n) /\ n \in Nat
    BY DEF MetricsInv, IsTrace
  <2>2. /\ IsTrace(records', n) /\ SameTurns(records', records, n)
        /\ \A k \in 1..n : {"runnable", "selected"} \subseteq DOMAIN records'[k]
    <3>1. DOMAIN records = 1..n
      BY <2>1, TraceLen
    <3>2. DOMAIN records' = 1..n /\ records' = [k \in 1..n |-> records'[k]]
      BY <1>4, <3>1
    <3>3. ASSUME NEW k \in 1..n
          PROVE  /\ records'[k].runnable = records[k].runnable
                 /\ records'[k].selected = records[k].selected
                 /\ {"runnable", "selected"} \subseteq DOMAIN records'[k]
      <4>1. {"runnable", "selected"} \subseteq DOMAIN records[k]
        BY DEF MetricsInv
      <4>2. records'[k] = IF k = n THEN [records[k] EXCEPT !.receipt = Head0.ledgers]
                          ELSE records[k]
        BY <1>4, <3>1
      <4> QED
        BY <4>1, <4>2
    <3> QED
      BY <2>1, <3>2, <3>3 DEF IsTrace, SameTurns
  <2>3. Len(records') = n
    <3> HIDE DEF n
    <3> QED
      BY <2>2, TraceLen
  <2>4. ASSUME NEW m \in Models PROVE TallyOf(records', tally', m)
    <3>1. TallyOf(records, tally, m)
      BY <1>1 DEF MetricsInv
    <3> HIDE DEF n
    <3>2. TallyOf(records', tally, m)
      BY <2>1, <2>2, <3>1, SameTally
    <3> QED
      BY <1>1, <3>2
  <2> QED
    BY <1>1, <1>2, <2>2, <2>3, <2>4 DEF MetricsInv, Tallies
<1> QED
  BY <1>1, <1>3, <1>4

LEMMA MetricsStep ==
    ASSUME TypeOK, PendingInv, MetricsInv, [Next]_vars
    PROVE  MetricsInv'
<1>1. Next \/ UNCHANGED vars
  OBVIOUS
<1> USE DEF Asking
<1>3. CASE Spawn
  BY <1>3, MetricsKept DEF Spawn, ContractFails, Counting, MetricsInv
<1>4. CASE Ask
  <2>1. /\ pc \in Asking /\ UNCHANGED <<case, turn, records, tally>> /\ Counting
        /\ ContractFails \/ (awaiting' = TRUE /\ UNCHANGED <<pc, outcome>>)
        /\ pc = "schedule" => oracle' = schedule(oracle, Cands)
    BY <1>4 DEF Ask, Counting
  <2>2. pc = "schedule" => oracle'.runnable = ModelsOf(Cands)
    <3>1. Offer(Cands) /\ Cands \subseteq Offered /\ oracle \in Schedulers
      BY TurnOffers DEF TypeOK
    <3>2. schedule(oracle, Cands).runnable = ModelsOf(Cands)
      BY <3>1, Schedules
    <3> QED
      BY <2>1, <3>2
  <2>3. awaiting' => pc' = pc
    BY <2>1 DEF ContractFails
  <2>4. Cands' = Cands
    BY <2>1 DEF Cands
  <2> QED
    BY <2>1, <2>2, <2>3, <2>4, MetricsKept
<1>5. CASE Timeout \/ TakeHello \/ TakeInitialized \/ TakeClosed
  <2>1. /\ UNCHANGED <<case, records, tally>> /\ awaiting
        /\ awaiting' = FALSE
    BY <1>5 DEF Timeout, Expires, TakeHello, TakeInitialized, TakeClosed, Took, ContractFails,
                Disagrees
  <2>2. Counting
    BY <2>1 DEF Counting, MetricsInv
  <2> QED
    BY <2>1, <2>2, MetricsKept
<1>6. CASE TakePlan
  BY <1>6, MetricsPlan
<1>7. CASE TakeReceipt
  BY <1>7, MetricsReceipt
<1>8. CASE Leave
  <2>1. records' = <<>> /\ tally' = NewTally /\ awaiting' = awaiting /\ pc = "leave"
    BY <1>8 DEF Leave
  <2>2. ~awaiting
    BY <2>1 DEF MetricsInv
  <2>3. IsTrace(<<>>, 0) /\ Len(<<>>) = 0 /\ 1..0 = {}
    BY DEF IsTrace
  <2>4. Tallies(NewTally)
    BY DEF Tallies, NewTally, Zeros
  <2> QED
    BY <2>1, <2>2, <2>3, <2>4, NewTallies DEF MetricsInv
<1>9. CASE Report
  BY <1>9, MetricsKept DEF Report, Counting, MetricsInv
<1>11. CASE Finish
  <2>1. /\ pc = "finish" /\ pc' \in {"leave", "report"} /\ UNCHANGED <<case, records, tally>>
        /\ awaiting' = FALSE \/ UNCHANGED awaiting
    BY <1>11 DEF Finish, ContractFails
  <2> QED
    BY <2>1, MetricsKept DEF Counting, MetricsInv
<1>12. CASE Exits
  <2>1. /\ ~Lane /\ pc = "leave" /\ (pc' = "leave" \/ pc' = "aborted")
        /\ UNCHANGED <<case, records, tally, awaiting, outcome>>
    BY <1>12, ExitSteps DEF InExit, Remains, judgeVars
  <2> QED
    BY <2>1, MetricsKept DEF Counting, MetricsInv, Lane
<1>10. CASE DriverAnswers \/ DriverExits \/ DriverQuits \/ HeirEnds \/ UNCHANGED vars
  <2>1. UNCHANGED <<case, turn, pc, awaiting, oracle, records, tally, outcome>>
    BY <1>10 DEF DriverAnswers, DriverExits, DriverQuits, HeirEnds, benchVars, judgeVars, vars
  <2>2. Cands' = Cands /\ (Counting' <=> Counting)
    BY <2>1 DEF Cands, Counting, Lane
  <2> QED
    BY <2>1, <2>2, MetricsKept DEF MetricsInv
<1> QED
  BY ONLY <1>1, <1>3, <1>4, <1>5, <1>6, <1>7, <1>8, <1>9, <1>10, <1>11, <1>12
     DEF Next, Bench, Exits

\* The metrics of a passed repetition, kept turn by turn, are the ones its trace
\* shows, for any scenario: how often a model was selected, its longest wait and
\* its longest run (the waits and selections of BenchmarkRunner._run_repetition).
THEOREM MetricsAreOfTrace == Spec => []MetricsMatchTrace
<1>1. IndInv /\ MetricsInv /\ [Next]_vars => MetricsInv'
  BY MetricsStep DEF IndInv
<1>2. MetricsInv => MetricsMatchTrace
  BY DEF MetricsInv, MetricsMatchTrace, TallyOf, Counting
<1> QED
  BY <1>1, <1>2, MetricsInit, Invariance, PTL DEF Spec

-----------------------------------------------------------------------------
(* The driver's own implementation of the policy. *)

\* The candidate that min() takes, given the ledgers.
Urgent(cands) == {c \in cands : is_urgent(c)}
FirstUrgent(l, cands) ==
    CHOOSE c \in Urgent(cands) : \A d \in Urgent(cands) :
        c = d \/ Before(<<c.slack, l[c.model], c.id>>, <<d.slack, l[d.model], d.id>>)
FirstNormal(l, cands) ==
    CHOOSE c \in eligible(cands) : \A d \in eligible(cands) :
        c = d \/ Before(<<l[c.model], c.model, c.id>>, <<l[d.model], d.model, d.id>>)
Pick(l, cands) ==
    IF Urgent(cands) # {} THEN FirstUrgent(l, cands)
    ELSE IF eligible(cands) # {} THEN FirstNormal(l, cands)
    ELSE NoCandidate

\* The two implementations agree on a turn.
LEMMA DriverSchedules ==
    ASSUME NEW s \in Schedulers, NEW cands
    PROVE  driver_schedule(s, cands) = schedule(s, cands)
<1> DEFINE current == ModelsOf(cands)
           continuing == current \cap s.runnable
           alignment == IF continuing # {} THEN The(Least(s.ledgers, continuing)) ELSE s.baseline
           l == [m \in Models |-> IF m \in current \ s.runnable THEN alignment ELSE s.ledgers[m]]
           b == IF current = {} THEN s.baseline ELSE The(Least(l, current))
           t == sync_runnable(s, current)
           u == schedule(s, cands)
           v == driver_schedule(s, cands)
<1>1. t = [s EXCEPT !.ledgers = l, !.runnable = current, !.baseline = b]
  BY DEF sync_runnable
<1>2. select(t, cands) = Pick(t.ledgers, cands)
  BY DEF select, FirstBy, Pick, FirstUrgent, FirstNormal, Urgent
<1>3. u = [t EXCEPT !.pending = Pick(t.ledgers, cands)]
  BY <1>2 DEF schedule
<1>4. current # {} <=> eligible(cands) # {}
  BY DEF ModelsOf
<1>5. v = [s EXCEPT !.ledgers = l, !.runnable = current, !.baseline = b, !.pending = Pick(l, cands)]
  <2> DEFINE q == IF Urgent(cands) # {} THEN FirstUrgent(l, cands)
                  ELSE IF current # {} THEN FirstNormal(l, cands)
                  ELSE NoCandidate
  <2>1. v = [s EXCEPT !.ledgers = l, !.runnable = current, !.baseline = b, !.pending = q]
    BY DEF driver_schedule, FirstBy, FirstUrgent, FirstNormal, Urgent, is_urgent
  <2>2. q = Pick(l, cands)
    BY <1>4 DEF Pick
  <2> QED
    BY <2>1, <2>2
<1> HIDE DEF l, b, t, u, v, current
<1>6. t.ledgers = l
  BY <1>1 DEF Schedulers
<1>7. u = [t EXCEPT !.pending = Pick(l, cands)]
  BY <1>3, <1>6
<1>8. u = v
  BY <1>1, <1>5, <1>7 DEF Schedulers
<1> QED
  BY <1>8 DEF u, v

\* And on a receipt.
LEMMA DriverCharges ==
    ASSUME NEW s \in Schedulers, NEW c, c.model \in s.runnable
    PROVE  driver_receipt(s, c) = accept_receipt(s, c)
<1>1. s.runnable # {}
  OBVIOUS
<1> QED
  BY <1>1 DEF driver_receipt, accept_receipt, charge

LEMMA Queue ==
    ASSUME NEW l
    PROVE  /\ Head(<<l>>) = l /\ Tail(<<l>>) = <<>> /\ <<l>> # <<>>
           /\ Head(<<l, l>>) = l /\ Tail(<<l, l>>) = <<l>> /\ <<l, l>> # <<>>
OBVIOUS
-----------------------------------------------------------------------------
(* Where the benchmark stands, and what is on its way to it. *)

\* Where a repetition begins nothing has happened yet, a repetition goes on only
\* while nothing has failed, and each harness keeps to its own requests.
PlaceInv ==
    /\ struck \subseteq {"contract", "conformance"}
    /\ awaiting => pc \in Asking
    /\ pc \in {"spawn", "hello", "initialize"} =>
          oracle = NewScheduler /\ turn = 1 /\ records = <<>>
    /\ pc \notin {"leave", "report", "reported", "aborted"} => outcome = "passed"
    /\ Lane => /\ pc \notin {"spawn", "hello", "shutdown", "finish", "aborted"} /\ outcome # "conformance"
               /\ pc = "leave" => outcome = "passed"
    /\ ~Lane => pc # "close" /\ (pc \in {"report", "reported"} => outcome = "passed")

\* What has been counted: the lane's repetitions all count as passed, and the
\* runner counts no mismatch.
CountInv ==
    /\ IsTrace(results, Len(results))
    /\ mismatches \in [selection : Nat, receipt : Nat, replay : Nat]
    /\ Lane => \A k \in 1..Len(results) : results[k].outcome = "passed"
    /\ ~Lane => /\ mismatches.selection = 0 /\ mismatches.receipt = 0
                /\ pc \in {"report", "reported"} => Len(results) > 0
    /\ \A k \in 1..Len(results) : results[k].outcome \in {"passed", "contract", "conformance"}

Kind(p) == IF p = "hello" THEN "hello_ack" ELSE IF p = "initialize" THEN "initialized"
           ELSE IF p = "schedule" THEN "plan" ELSE IF p = "receipt" THEN "receipt_accepted"
           ELSE "closed"

\* A line that answers the request: right, or wrong in one value.
Answer(l) ==
    /\ awaiting /\ pc \in Asking /\ process = "running" /\ l.kind = Kind(pc)
    /\ pc = "initialize" => driver = NewScheduler
    /\ pc \in {"schedule", "receipt"} => l.sequence = turn /\ driver = oracle
    /\ pc = "schedule" => DOMAIN l.ledgers = oracle.runnable
Wrong(l) ==
    \/ pc = "initialize" /\ l.ledgers # Zeros
    \/ /\ pc = "schedule"
       /\ l.id # oracle.pending.id \/ l.ledgers # Restrict(oracle.ledgers, oracle.runnable)
    \/ pc = "receipt" /\ l.ledgers # oracle.ledgers

\* A line that will not do as an answer to the next request.
Unfit(l) ==
    \/ /\ pc \in Asking /\ (awaiting \/ process = "running")
       /\ l.kind # Kind(pc) \/ (pc \in {"schedule", "receipt"} /\ l.sequence # turn)
    \/ pc = "schedule" /\ awaiting /\ DOMAIN l.ledgers # oracle.runnable
    \/ Lane /\ pc = "leave" /\ process = "running" /\ l.kind \in {"plan", "receipt_accepted"}

\* The driver has not charged the receipt yet that the oracle has.
Owes ==
    /\ driver \in Schedulers /\ driver.pending.model \in driver.runnable
    /\ oracle = accept_receipt(driver, driver.pending)

\* Nothing is on its way: the driver runs, and is where the oracle is or was.
Quiet ==
    /\ lines = <<>>
    /\ pc \in Asking \/ (Lane /\ pc = "leave") => process = "running"
    /\ pc = "schedule" /\ ~awaiting => driver = oracle
    /\ pc = "schedule" /\ awaiting => driver \in Schedulers /\ oracle = schedule(driver, Cands)
    /\ pc = "receipt" => Owes

Over == pc \in {"finish", "report", "reported", "aborted"} \/ (~Lane /\ pc = "leave")

Known(kind) == outcome = kind \/ \E k \in 1..Len(results) : results[k].outcome = kind
Counted == mismatches.selection > 0 \/ mismatches.receipt > 0
\* The benchmark knows of each fault, but for the ones of an answer on its way.
Told(contract, conformance) ==
    /\ "contract" \in struck <=> Known("contract") \/ contract
    /\ "contract" \notin struck =>
          ("conformance" \in struck <=> Known("conformance") \/ Counted \/ conformance)

AtRest == (Over \/ Quiet) /\ Told(FALSE, FALSE)
Answered(l) ==
    /\ lines = <<l>> \/ (Closing /\ lines = <<l, l>>)
    /\ Answer(l) /\ Told(FALSE, Wrong(l))
Doubled(l) == lines = <<l, l>> /\ Answer(l) /\ ~Wrong(l) /\ ~Closing /\ "contract" \in struck
Stray(l) == lines = <<l>> /\ Unfit(l) /\ "contract" \in struck

ChannelInv == AtRest \/ \E l : Answered(l) \/ Doubled(l) \/ Stray(l)

-----------------------------------------------------------------------------
LEMMA CaseKept ==
    ASSUME [Next]_vars
    PROVE  UNCHANGED case /\ (Lane' <=> Lane) /\ Turns' = Turns
<1>1. UNCHANGED case
  BY DEF Next, Bench, Spawn, Ask, Timeout, TakeHello, TakeInitialized, TakePlan, TakeReceipt,
     TakeClosed, Finish, EnterExit, DriverGone, Escalate, CloseStreams, Remains, Leave, Report,
     DriverAnswers, DriverExits, DriverQuits, HeirEnds, benchVars, vars
<1> QED
  BY <1>1 DEF Lane, Turns

LEMMA PlaceStep ==
    ASSUME TypeOK, PlaceInv, [Next]_vars
    PROVE  PlaceInv'
<1>1. Next \/ UNCHANGED vars
  OBVIOUS
<1>2. (Lane' <=> Lane) /\ pc \in Asking \cup {"spawn", "finish", "leave", "report", "reported", "aborted"}
  BY CaseKept DEF TypeOK
<1> USE DEF PlaceInv, Asking
<1>3. CASE Spawn
  BY <1>2, <1>3 DEF Spawn, ContractFails
<1>4. CASE Ask
  <2>1. /\ pc \in Asking /\ UNCHANGED <<turn, records>>
        /\ struck' = struck \/ struck' = struck \cup {"contract"}
        /\ pc # "schedule" => UNCHANGED oracle
        /\ ContractFails \/ UNCHANGED <<pc, outcome>>
    BY <1>4 DEF Ask
  <2> QED
    BY <1>2, <2>1 DEF ContractFails
<1>5. CASE Timeout \/ Finish
  BY <1>2, <1>5 DEF Timeout, Finish, Expires, ContractFails
<1>6. CASE TakeHello \/ TakeClosed
  BY <1>2, <1>6 DEF TakeHello, TakeClosed, Took, ContractFails
<1>7. CASE TakeInitialized
  BY <1>2, <1>7 DEF TakeInitialized, Took, ContractFails, Disagrees
<1>8. CASE TakePlan
  <2>1. pc = "schedule" /\ UNCHANGED struck
    BY <1>8 DEF TakePlan, Took
  <2>2. \/ ContractFails \/ Disagrees("selection")
        \/ NextTurn /\ UNCHANGED outcome
        \/ pc' = "receipt" /\ awaiting' = FALSE /\ UNCHANGED outcome
    BY <1>8 DEF TakePlan
  <2> QED
    BY <1>2, <2>1, <2>2 DEF ContractFails, Disagrees, NextTurn
<1>9. CASE TakeReceipt
  <2>1. pc = "receipt" /\ UNCHANGED struck
    BY <1>9 DEF TakeReceipt, Took
  <2>2. \/ ContractFails \/ Disagrees("receipt")
        \/ NextTurn /\ UNCHANGED outcome
    BY <1>9 DEF TakeReceipt
  <2> QED
    BY <1>2, <2>1, <2>2 DEF ContractFails, Disagrees, NextTurn
<1>10. CASE Leave
  BY <1>2, <1>10 DEF Leave
<1>11. CASE Report
  BY <1>2, <1>11 DEF Report, driverVars
<1>12. CASE DriverAnswers \/ DriverExits \/ DriverQuits \/ HeirEnds
  <2>1. UNCHANGED <<pc, awaiting, turn, oracle, records, outcome>>
    BY <1>12 DEF DriverAnswers, DriverExits, DriverQuits, HeirEnds, benchVars, judgeVars
  <2>2. struck' \subseteq {"contract", "conformance"}
    BY <1>12 DEF DriverAnswers, DriverExits, DriverQuits, HeirEnds, driverVars, Class
  <2> QED
    BY <1>2, <2>1, <2>2
<1>13. CASE UNCHANGED vars
  BY <1>2, <1>13 DEF vars, benchVars, judgeVars, driverVars
<1>14. CASE Exits
  <2>1. /\ ~Lane /\ pc = "leave" /\ (pc' = "leave" \/ pc' = "aborted")
        /\ UNCHANGED <<awaiting, outcome, struck>>
    BY <1>14, ExitSteps DEF InExit, Remains, judgeVars, driverVars
  <2> QED
    BY <1>2, <2>1
<1> QED
  BY ONLY <1>1, <1>3, <1>4, <1>5, <1>6, <1>7, <1>8, <1>9, <1>10, <1>11, <1>12, <1>13,
     <1>14 DEF Next, Bench, Exits

\* Only the end of a repetition adds to the results, and only a disagreement in
\* the lane, the start of a repetition there included, to the counts.
Mismatches == [selection : Nat, receipt : Nat, replay : Nat]
LEMMA CountStep ==
    ASSUME TypeOK, PlaceInv, CountInv, [Next]_vars
    PROVE  CountInv'
<1>1. Next \/ UNCHANGED vars
  OBVIOUS
<1>2. (Lane' <=> Lane) /\ pc \in Asking \cup {"spawn", "finish", "leave", "report", "reported", "aborted"}
  BY CaseKept DEF TypeOK
<1>3. ASSUME UNCHANGED results, mismatches' \in Mismatches,
             Lane \/ UNCHANGED mismatches,
             ~Lane /\ pc' \in {"report", "reported"} => pc \in {"report", "reported"}
      PROVE  CountInv'
  BY <1>2, <1>3 DEF CountInv, Mismatches
<1>4. /\ \A f \in {"selection", "receipt"} : [mismatches EXCEPT ![f] = @ + 1] \in Mismatches
      /\ \A n \in Nat : [mismatches EXCEPT !.replay = n] \in Mismatches
      /\ mismatches \in Mismatches
  BY DEF CountInv, Mismatches
<1> USE DEF Asking
<1>5. CASE Spawn \/ Timeout \/ TakeHello \/ TakeClosed \/ Finish
  <2>1. UNCHANGED <<results, mismatches>>
    BY <1>5 DEF Spawn, Timeout, TakeHello, TakeClosed, Finish
  <2>2. ~Lane => pc' \notin {"report", "reported"}
    BY <1>5 DEF Spawn, Timeout, TakeHello, TakeClosed, Finish, ContractFails
  <2> QED
    BY <1>3, <1>4, <2>1, <2>2
<1>6. CASE Ask
  <2>1. UNCHANGED <<results, mismatches>> /\ (ContractFails \/ UNCHANGED pc)
    BY <1>6 DEF Ask
  <2> QED
    BY <1>3, <1>4, <2>1 DEF ContractFails
<1>7. CASE TakeInitialized \/ TakePlan \/ TakeReceipt
  <2>1. UNCHANGED results
    BY <1>7 DEF TakeInitialized, TakePlan, TakeReceipt
  <2>2. /\ \/ UNCHANGED mismatches
           \/ Lane /\ \E f \in {"selection", "receipt"} : mismatches' = [mismatches EXCEPT ![f] = @ + 1]
        /\ ~Lane => pc' \notin {"report", "reported"}
    <3>1. CASE TakeInitialized
      BY <3>1 DEF TakeInitialized, ContractFails, Disagrees
    <3>2. CASE TakePlan
      <4>1. \/ ContractFails /\ UNCHANGED mismatches
            \/ Disagrees("selection")
            \/ NextTurn /\ UNCHANGED mismatches
            \/ pc' = "receipt" /\ UNCHANGED mismatches
        BY <3>2 DEF TakePlan
      <4> QED
        BY <4>1 DEF ContractFails, Disagrees, NextTurn
    <3>3. CASE TakeReceipt
      <4>1. \/ ContractFails /\ UNCHANGED mismatches
            \/ Disagrees("receipt")
            \/ NextTurn /\ UNCHANGED mismatches
        BY <3>3 DEF TakeReceipt
      <4> QED
        BY <4>1 DEF ContractFails, Disagrees, NextTurn
    <3> QED
      BY <1>7, <3>1, <3>2, <3>3
  <2> QED
    BY <1>3, <1>4, <2>1, <2>2
<1>8. CASE Leave
  <2> DEFINE n == Len(results)
             x == [outcome |-> outcome, hash |-> PlanHash]
  <2>1. results' = Append(results, x) /\ pc = "leave" /\ UNCHANGED mismatches
    BY <1>8 DEF Leave
  <2>2. IsTrace(results, n) /\ n \in Nat
    BY DEF CountInv, IsTrace
  <2>3. x.outcome = outcome /\ outcome \in {"passed", "contract", "conformance"}
    BY DEF TypeOK
  <2>4. Lane => outcome = "passed"
    BY <2>1 DEF PlaceInv
  <2> HIDE DEF n, x
  <2>5. Prolongs(Append(results, x), results, n, x)
    BY <2>2, TraceAppend
  <2>6. /\ IsTrace(results', n + 1) /\ results'[n + 1] = x
        /\ \A k \in 1..n : results'[k] = results[k]
    BY <2>1, <2>5 DEF Prolongs
  <2>7. Len(results') = n + 1
    BY <2>6, TraceLen
  <2>8. \A k \in 1..(n + 1) : k \in 1..n \/ k = n + 1
    BY <2>2
  <2>9. ASSUME NEW k \in 1..(n + 1)
        PROVE  /\ results'[k].outcome \in {"passed", "contract", "conformance"}
               /\ Lane => results'[k].outcome = "passed"
    <3>1. CASE k = n + 1
      BY <2>3, <2>4, <2>6, <3>1
    <3>2. CASE k \in 1..n
      BY <2>6, <3>2 DEF CountInv, n
    <3> QED
      BY <2>8, <3>1, <3>2
  <2>10. n + 1 > 0
    BY <2>2
  <2> QED
    BY <1>2, <2>1, <2>6, <2>7, <2>9, <2>10 DEF CountInv
<1>9. CASE Report
  <2> DEFINE S == {k \in DOMAIN results : results[k].hash # results[1].hash}
  <2>1. /\ pc = "report" /\ UNCHANGED results
        /\ mismatches' = [mismatches EXCEPT !.replay = Cardinality(S)]
    BY <1>9 DEF Report
  <2>2. Cardinality(S) \in Nat
    <3>1. DOMAIN results = 1..Len(results) /\ Len(results) \in Nat
      BY TraceLen DEF CountInv, IsTrace
    <3>2. IsFiniteSet(1..Len(results))
      BY <3>1, FS_Interval
    <3>3. S \subseteq 1..Len(results)
      BY <3>1
    <3> QED
      BY <3>2, <3>3, FS_Subset, FS_CardinalityType
  <2> HIDE DEF S
  <2>3. /\ mismatches' \in Mismatches
        /\ mismatches'.selection = mismatches.selection /\ mismatches'.receipt = mismatches.receipt
    BY <1>4, <2>1, <2>2 DEF Mismatches
  <2> QED
    BY <1>2, <2>1, <2>3 DEF CountInv, Mismatches
<1>10. CASE Exits \/ DriverAnswers \/ DriverExits \/ DriverQuits \/ HeirEnds \/ UNCHANGED vars
  <2>1. UNCHANGED <<results, mismatches>> /\ (UNCHANGED pc \/ pc' = "aborted")
    BY <1>10, ExitSteps DEF Remains, DriverAnswers, DriverExits, DriverQuits, HeirEnds,
       benchVars, judgeVars, vars
  <2> QED
    BY <1>3, <1>4, <2>1
<1> QED
  BY ONLY <1>1, <1>5, <1>6, <1>7, <1>8, <1>9, <1>10 DEF Next, Bench, Exits

\* What the reference scheduler answers where the benchmark waits for it.
IsReply(d, r) ==
    /\ r = [kind |-> r.kind, sequence |-> r.sequence, id |-> r.id, ledgers |-> r.ledgers]
    /\ r.kind = Kind(pc)
    /\ pc = "initialize" => d = NewScheduler /\ r.ledgers = Zeros
    /\ pc \in {"schedule", "receipt"} => d = oracle /\ r.sequence = turn
    /\ pc = "schedule" => /\ r.id = oracle.pending.id
                          /\ r.ledgers = Restrict(oracle.ledgers, oracle.runnable)
    /\ pc = "receipt" => r.ledgers = oracle.ledgers

LEMMA ReplyIs ==
    ASSUME TypeOK, PlaceInv, Quiet, awaiting
    PROVE  IsReply(Reply[1], Reply[2])
<1> USE DEF IsReply, Kind, Line
<1>1. pc \in Asking
  BY DEF PlaceInv
<1>2. CASE pc = "hello"
  BY <1>2 DEF Reply
<1>3. CASE pc = "initialize"
  BY <1>3 DEF Reply
<1>4. CASE pc = "schedule"
  <2>1. driver \in Schedulers /\ oracle = schedule(driver, Cands)
    BY <1>4 DEF Quiet
  <2>2. driver_schedule(driver, Cands) = oracle
    BY <2>1, DriverSchedules
  <2>3. Reply = <<oracle, Line("plan", turn, oracle.pending.id,
                               Restrict(oracle.ledgers, oracle.runnable))>>
    BY <1>4, <2>2 DEF Reply
  <2> QED
    BY <1>4, <2>3
<1>5. CASE pc = "receipt"
  <2>1. /\ driver \in Schedulers /\ driver.pending.model \in driver.runnable
        /\ oracle = accept_receipt(driver, driver.pending)
    BY <1>5 DEF Quiet, Owes
  <2>2. driver_receipt(driver, driver.pending) = oracle
    BY <2>1, DriverCharges
  <2>3. Reply = <<oracle, Line("receipt_accepted", turn, 0, oracle.ledgers)>>
    BY <1>5, <2>2 DEF Reply
  <2> QED
    BY <1>5, <2>3
<1>6. CASE pc \in {"shutdown", "close"}
  BY <1>6 DEF Reply
<1> QED
  BY <1>1, <1>2, <1>3, <1>4, <1>5, <1>6 DEF Asking

\* The driver answers: rightly, wrongly in one value, twice, or with no answer.
LEMMA AnswerStep ==
    ASSUME TypeOK, PlaceInv, CountInv, AtRest, DriverAnswers
    PROVE  ChannelInv'
<1>0. PICK d, r : d = Reply[1] /\ r = Reply[2]
  OBVIOUS
<1>1. /\ awaiting /\ lines = <<>> /\ process = "running" /\ driver' = d /\ lines' = Answers
      /\ struck' = struck \cup Class
      /\ UNCHANGED <<process, case, rep, pc, awaiting, turn, requests, oracle, outcome, results,
                     mismatches>>
  BY <1>0 DEF DriverAnswers, Asked, benchVars, judgeVars
<1>2. pc \in Asking /\ Quiet /\ Told(FALSE, FALSE)
  BY <1>1 DEF PlaceInv, AtRest, Over, Asking
<1>3. IsReply(d, r)
  BY <1>0, <1>1, <1>2, ReplyIs
<1>4. Answers = CASE Strikes("garbled") -> <<Line("garbled", 0, 0, <<>>)>>
                  [] Strikes("twice")   -> <<r, r>>
                  [] Strikes("selection") /\ pc = "schedule" ->
                        <<[r EXCEPT !.id = IF @ = 0 THEN 1 ELSE 0]>>
                  [] Strikes("ledger") /\ pc \in {"initialize", "schedule", "receipt"} ->
                        <<[r EXCEPT !.ledgers = Raised(@, case.fault.model)]>>
                  [] Strikes("keys") /\ pc = "schedule" ->
                        <<[r EXCEPT !.ledgers = d.ledgers]>>
                  [] OTHER -> <<r>>
  BY <1>0 DEF Answers
<1>5. Class = IF \/ Strikes("garbled")
                 \/ Strikes("twice") /\ ~Closing
                 \/ Strikes("keys") /\ Answers # <<r>> THEN {"contract"}
              ELSE IF Answers # <<r>> /\ ~Strikes("twice") THEN {"conformance"}
              ELSE {}
  BY <1>0 DEF Class
<1>6. /\ Known("contract")' <=> Known("contract")
      /\ Known("conformance")' <=> Known("conformance")
      /\ Counted' <=> Counted
  BY <1>1 DEF Known, Counted
<1>7. ASSUME NEW l, l.kind = r.kind, l.sequence = r.sequence,
             pc = "schedule" => DOMAIN l.ledgers = oracle.runnable
      PROVE  Answer(l)'
  BY <1>1, <1>2, <1>3, <1>7 DEF Answer, IsReply
<1>8. CASE Strikes("garbled")
  <2> DEFINE l == Line("garbled", 0, 0, <<>>)
  <2>0. ~Strikes("twice") /\ ~Strikes("selection") /\ ~Strikes("ledger") /\ ~Strikes("keys")
    BY <1>8 DEF Strikes, StrikesAt
  <2>1. lines' = <<l>> /\ "contract" \in struck'
    BY <1>1, <1>4, <1>5, <1>8, <2>0
  <2>2. l.kind = "garbled"
    BY DEF Line
  <2>3. Unfit(l)'
    BY <1>1, <1>2, <2>2 DEF Unfit, Kind
  <2> QED
    BY <2>1, <2>3 DEF ChannelInv, Stray
<1>9. CASE Strikes("twice")
  <2>1. lines' = <<r, r>> /\ ~Strikes("garbled") /\ ~Strikes("keys")
    <3>1. ~Strikes("garbled") /\ ~Strikes("selection") /\ ~Strikes("ledger") /\ ~Strikes("keys")
      BY <1>9 DEF Strikes, StrikesAt
    <3> QED
      BY <1>1, <1>4, <1>9, <3>1
  <2>2. Answer(r)' /\ ~Wrong(r)'
    <3>1. ~Wrong(r)'
      BY <1>1, <1>3 DEF Wrong, IsReply
    <3>2. pc = "schedule" => DOMAIN r.ledgers = oracle.runnable
      BY <1>3 DEF IsReply, Restrict
    <3> QED
      BY <1>7, <3>1, <3>2
  <2>3. CASE Closing
    <3>1. struck' = struck /\ Closing'
      BY <1>1, <1>5, <1>9, <2>1, <2>3 DEF Closing
    <3>2. Told(FALSE, Wrong(r))'
      BY <1>2, <1>6, <2>2, <3>1 DEF Told
    <3> QED
      BY <2>1, <2>2, <3>1, <3>2 DEF ChannelInv, Answered
  <2>4. CASE ~Closing
    <3>1. "contract" \in struck' /\ ~Closing'
      BY <1>1, <1>5, <1>9, <2>4 DEF Closing
    <3> QED
      BY <2>1, <2>2, <3>1 DEF ChannelInv, Doubled
  <2> QED
    BY <2>3, <2>4
<1>10. ASSUME NEW l, ~Strikes("garbled"), ~Strikes("twice"), Answers = <<l>>,
              l.kind = r.kind, l.sequence = r.sequence, Strikes("keys") => l = r,
              pc = "schedule" => DOMAIN l.ledgers = oracle.runnable, l # r <=> Wrong(l)
       PROVE  ChannelInv'
  <2>1. Answer(l)' /\ (Wrong(l)' <=> Wrong(l))
    <3>1. Wrong(l)' <=> Wrong(l)
      BY <1>1 DEF Wrong
    <3> QED
      BY <1>7, <1>10, <3>1
  <2>2. <<l>> = <<r>> <=> l = r
    OBVIOUS
  <2>3. Class = IF Wrong(l) THEN {"conformance"} ELSE {}
    BY <1>5, <1>10, <2>2
  <2>4. Told(FALSE, Wrong(l))'
    BY <1>1, <1>2, <1>6, <2>1, <2>3 DEF Told
  <2> QED
    BY <1>1, <1>10, <2>1, <2>4 DEF ChannelInv, Answered
<1>14. pc = "schedule" => /\ r.ledgers = Restrict(oracle.ledgers, oracle.runnable)
                          /\ DOMAIN r.ledgers = oracle.runnable
  BY <1>3 DEF IsReply, Restrict
<1>11. CASE Strikes("selection") /\ pc = "schedule"
  <2> DEFINE l == [r EXCEPT !.id = IF @ = 0 THEN 1 ELSE 0]
  <2>1. ~Strikes("garbled") /\ ~Strikes("twice") /\ ~Strikes("ledger") /\ ~Strikes("keys")
    BY <1>11 DEF Strikes, StrikesAt
  <2>2. Answers = <<l>>
    BY <1>4, <1>11, <2>1
  <2>3. /\ l.kind = r.kind /\ l.sequence = r.sequence /\ l.ledgers = r.ledgers
        /\ l.id = IF r.id = 0 THEN 1 ELSE 0
    BY <1>3 DEF IsReply
  <2>4. l # r /\ Wrong(l)
    <3>1. l.id # r.id
      BY <2>3
    <3> QED
      BY <1>3, <1>11, <3>1 DEF Wrong, IsReply
  <2> HIDE DEF l
  <2> QED
    BY <1>10, <1>14, <2>1, <2>2, <2>3, <2>4
<1>12. CASE Strikes("ledger") /\ pc \in {"initialize", "schedule", "receipt"}
  <2> DEFINE x == Raised(r.ledgers, case.fault.model)
             l == [r EXCEPT !.ledgers = Raised(@, case.fault.model)]
  <2>1. ~Strikes("garbled") /\ ~Strikes("twice") /\ ~Strikes("selection") /\ ~Strikes("keys")
    BY <1>12 DEF Strikes, StrikesAt
  <2>2. Answers = <<l>>
    BY <1>4, <1>12, <2>1
  <2>3. l = [r EXCEPT !.ledgers = x] /\ DOMAIN x = DOMAIN r.ledgers
    BY DEF Raised
  <2> HIDE DEF x, l
  <2>4. /\ l.kind = r.kind /\ l.sequence = r.sequence /\ l.ledgers = x /\ l.id = r.id
        /\ x = r.ledgers => l = r
    BY <1>3, <2>3 DEF IsReply
  <2>5. l # r <=> Wrong(l)
    BY <1>3, <1>12, <2>4 DEF Wrong, IsReply
  <2> QED
    BY <1>10, <1>12, <1>14, <2>1, <2>2, <2>3, <2>4, <2>5
<1>15. CASE Strikes("keys") /\ pc = "schedule"
  <2> DEFINE l == [r EXCEPT !.ledgers = d.ledgers]
  <2>1. ~Strikes("garbled") /\ ~Strikes("twice") /\ ~Strikes("selection") /\ ~Strikes("ledger")
    BY <1>15 DEF Strikes, StrikesAt
  <2>2. Answers = <<l>>
    BY <1>4, <1>15, <2>1
  <2>3. d = oracle /\ oracle.ledgers \in [Models -> Int]
    BY <1>3, <1>15 DEF IsReply, TypeOK, Schedulers
  <2>4. /\ l.kind = r.kind /\ l.sequence = r.sequence /\ l.ledgers = oracle.ledgers
        /\ l.id = r.id /\ (oracle.ledgers = r.ledgers => l = r)
    BY <1>3, <2>3 DEF IsReply
  <2> HIDE DEF l
  <2>5. CASE oracle.runnable = Models
    <3>1. Restrict(oracle.ledgers, Models) = oracle.ledgers
      BY <2>3 DEF Restrict
    <3>2. l = r
      BY <1>14, <1>15, <2>4, <2>5, <3>1
    <3>3. ~Wrong(r)
      BY <1>3 DEF Wrong, IsReply
    <3> QED
      BY <1>10, <1>14, <2>1, <2>2, <3>2, <3>3
  <2>6. CASE oracle.runnable # Models
    <3>1. DOMAIN l.ledgers # oracle.runnable
      BY <2>3, <2>4, <2>6
    <3>2. <<l>> # <<r>>
      <4>1. l # r
        BY <1>14, <1>15, <3>1
      <4> QED
        BY <4>1
    <3>3. "contract" \in struck' /\ lines' = <<l>>
      BY <1>1, <1>5, <1>15, <2>2, <3>2
    <3>4. Unfit(l)'
      BY <1>1, <1>15, <3>1 DEF Unfit
    <3> QED
      BY <3>3, <3>4 DEF ChannelInv, Stray
  <2> QED
    BY <2>5, <2>6
<1>13. CASE /\ ~Strikes("garbled") /\ ~Strikes("twice")
            /\ ~(Strikes("selection") /\ pc = "schedule")
            /\ ~(Strikes("ledger") /\ pc \in {"initialize", "schedule", "receipt"})
            /\ ~(Strikes("keys") /\ pc = "schedule")
  <2>1. Answers = <<r>>
    BY <1>4, <1>13
  <2>2. ~Wrong(r)
    BY <1>3 DEF Wrong, IsReply
  <2> QED
    BY <1>10, <1>13, <1>14, <2>1, <2>2
<1> QED
  BY <1>8, <1>9, <1>11, <1>12, <1>13, <1>15

\* What the benchmark knows after a right answer, a wrong one, and a failure.
LEMMA ToldRight ==
    ASSUME NEW l, Told(FALSE, Wrong(l)), ~Wrong(l),
           UNCHANGED <<outcome, results, mismatches, struck>>
    PROVE  Told(FALSE, FALSE)'
BY DEF Told, Known, Counted

LEMMA ToldWrong ==
    ASSUME CountInv, NEW l, Told(FALSE, Wrong(l)), Wrong(l), outcome = "passed",
           UNCHANGED <<results, struck>>, NEW f \in {"selection", "receipt"},
           \/ mismatches' = [mismatches EXCEPT ![f] = @ + 1] /\ UNCHANGED outcome
           \/ outcome' = "conformance" /\ UNCHANGED mismatches
    PROVE  Told(FALSE, FALSE)'
<1>1. Known("contract")' <=> Known("contract")
  BY DEF Known
<1>2. Known("conformance")' \/ Counted'
  <2>1. CASE mismatches' = [mismatches EXCEPT ![f] = @ + 1]
    BY <2>1 DEF CountInv, Counted
  <2>2. CASE outcome' = "conformance"
    BY <2>2 DEF Known
  <2> QED
    BY <2>1, <2>2
<1> QED
  BY <1>1, <1>2 DEF Told

LEMMA ToldFails ==
    ASSUME "contract" \in struck', ContractFails, Lane' <=> Lane
    PROVE  ChannelInv'
<1>1. Known("contract")'
  BY DEF ContractFails, Known
<1>2. Over'
  BY DEF ContractFails, Over
<1> QED
  BY <1>1, <1>2 DEF ChannelInv, AtRest, Told

\* What the benchmark takes is an answer, the first of two, or unfit.
LEMMA Taken ==
    ASSUME PlaceInv, ChannelInv, Took
    PROVE  \E l : /\ Head0 = l
                  /\ \/ Answered(l) /\ (lines' = <<>> \/ Closing)
                     \/ Doubled(l) /\ lines' = <<l>>
                     \/ Stray(l) /\ lines' = <<>>
<1>1. lines # <<>> /\ awaiting /\ lines' = Tail(lines)
  BY DEF Took
<1>2. ~AtRest
  BY <1>1 DEF AtRest, Over, Quiet, PlaceInv, Asking
<1>3. PICK l : Answered(l) \/ Doubled(l) \/ Stray(l)
  BY <1>2 DEF ChannelInv
<1>4. lines = <<l>> \/ lines = <<l, l>>
  BY <1>3 DEF Answered, Doubled, Stray
<1>5. Head0 = l
  BY <1>4 DEF Head0
<1>6. (lines = <<l>> => lines' = <<>>) /\ (lines = <<l, l>> => lines' = <<l>>)
  BY <1>1, Queue
<1> QED
  BY <1>3, <1>5, <1>6 DEF Answered, Doubled, Stray

LEMMA HelloStep ==
    ASSUME PlaceInv, CountInv, ChannelInv, TakeHello, Lane' <=> Lane
    PROVE  ChannelInv'
<1>1. /\ pc = "hello" /\ awaiting /\ Took
      /\ UNCHANGED <<process, driver, struck, turn, oracle, results, mismatches>>
  BY DEF TakeHello, Took
<1>2. PICK l : /\ Head0 = l
               /\ \/ Answered(l) /\ (lines' = <<>> \/ Closing)
                  \/ Doubled(l) /\ lines' = <<l>>
                  \/ Stray(l) /\ lines' = <<>>
  BY <1>1, Taken
<1>3. CASE Answered(l) /\ (lines' = <<>> \/ Closing)
  <2>1. /\ l.kind = "hello_ack" /\ process = "running" /\ ~Wrong(l) /\ ~Closing
        /\ Told(FALSE, Wrong(l))
    BY <1>1, <1>3 DEF Answered, Answer, Kind, Wrong, Closing
  <2>2. pc' = "initialize" /\ UNCHANGED outcome
    BY <1>2, <2>1 DEF TakeHello
  <2>3. Told(FALSE, FALSE)'
    BY <1>1, <2>1, <2>2, ToldRight
  <2>4. Quiet'
    BY <1>1, <1>3, <2>1, <2>2 DEF Quiet
  <2> QED
    BY <2>3, <2>4 DEF ChannelInv, AtRest
<1>4. CASE Doubled(l) /\ lines' = <<l>>
  <2>1. l.kind = "hello_ack" /\ process = "running" /\ "contract" \in struck
    BY <1>1, <1>4 DEF Doubled, Answer, Kind
  <2>2. pc' = "initialize"
    BY <1>2, <2>1 DEF TakeHello
  <2>3. Stray(l)'
    BY <1>1, <1>4, <2>1, <2>2 DEF Stray, Unfit, Kind, Asking
  <2> QED
    BY <2>3 DEF ChannelInv
<1>5. CASE Stray(l) /\ lines' = <<>>
  <2>1. l.kind # "hello_ack" /\ "contract" \in struck
    BY <1>1, <1>5 DEF Stray, Unfit, Kind
  <2>2. ContractFails
    BY <1>2, <2>1 DEF TakeHello
  <2> QED
    BY <1>1, <2>1, <2>2, ToldFails
<1> QED
  BY <1>2, <1>3, <1>4, <1>5

LEMMA InitializedStep ==
    ASSUME PlaceInv, CountInv, ChannelInv, TakeInitialized, Lane' <=> Lane
    PROVE  ChannelInv'
<1>1. /\ pc = "initialize" /\ awaiting /\ Took /\ outcome = "passed" /\ oracle = NewScheduler
      /\ UNCHANGED <<process, driver, struck, turn, oracle, results>>
  BY DEF TakeInitialized, Took, PlaceInv
<1>2. PICK l : /\ Head0 = l
               /\ \/ Answered(l) /\ (lines' = <<>> \/ Closing)
                  \/ Doubled(l) /\ lines' = <<l>>
                  \/ Stray(l) /\ lines' = <<>>
  BY <1>1, Taken
<1>3. CASE Answered(l) /\ (lines' = <<>> \/ Closing)
  <2>1. /\ l.kind = "initialized" /\ process = "running" /\ driver = NewScheduler
        /\ ~Closing /\ (Wrong(l) <=> l.ledgers # Zeros)
        /\ Told(FALSE, Wrong(l))
    BY <1>1, <1>3 DEF Answered, Answer, Kind, Wrong, Closing
  <2>2. CASE l.ledgers = Zeros
    <3>1. pc' = "schedule" /\ awaiting' = FALSE /\ UNCHANGED <<outcome, mismatches>>
      BY <1>2, <2>1, <2>2 DEF TakeInitialized
    <3>2. Told(FALSE, FALSE)'
      BY <1>1, <2>1, <2>2, <3>1, ToldRight
    <3>3. Quiet'
      BY <1>1, <1>3, <2>1, <3>1 DEF Quiet
    <3> QED
      BY <3>2, <3>3 DEF ChannelInv, AtRest
  <2>3. CASE l.ledgers # Zeros /\ Lane
    <3>1. /\ pc' = "schedule" /\ awaiting' = FALSE /\ UNCHANGED outcome
          /\ mismatches' = [mismatches EXCEPT !["receipt"] = @ + 1]
      BY <1>2, <2>1, <2>3 DEF TakeInitialized
    <3>2. Told(FALSE, FALSE)'
      BY <1>1, <2>1, <2>3, <3>1, ToldWrong
    <3>3. Quiet'
      BY <1>1, <1>3, <2>1, <3>1 DEF Quiet
    <3> QED
      BY <3>2, <3>3 DEF ChannelInv, AtRest
  <2>4. CASE l.ledgers # Zeros /\ ~Lane
    <3>1. pc' = "leave" /\ outcome' = "conformance" /\ UNCHANGED mismatches
      BY <1>2, <2>1, <2>4 DEF TakeInitialized, Disagrees
    <3>2. Told(FALSE, FALSE)'
      BY <1>1, <2>1, <2>4, <3>1, ToldWrong
    <3> QED
      BY <2>4, <3>1, <3>2 DEF ChannelInv, AtRest, Over
  <2> QED
    BY <2>2, <2>3, <2>4
<1>4. CASE Doubled(l) /\ lines' = <<l>>
  <2>1. /\ l.kind = "initialized" /\ l.ledgers = Zeros /\ process = "running"
        /\ "contract" \in struck
    BY <1>1, <1>4 DEF Doubled, Answer, Kind, Wrong
  <2>2. pc' = "schedule"
    BY <1>2, <2>1 DEF TakeInitialized
  <2>3. Stray(l)'
    BY <1>1, <1>4, <2>1, <2>2 DEF Stray, Unfit, Kind, Asking
  <2> QED
    BY <2>3 DEF ChannelInv
<1>5. CASE Stray(l) /\ lines' = <<>>
  <2>1. l.kind # "initialized" /\ "contract" \in struck
    BY <1>1, <1>5 DEF Stray, Unfit, Kind
  <2>2. ContractFails
    BY <1>2, <2>1 DEF TakeInitialized
  <2> QED
    BY <1>1, <2>1, <2>2, ToldFails
<1> QED
  BY <1>2, <1>3, <1>4, <1>5

\* After a turn the driver is where the oracle is, or the repetition is over.
LEMMA NextTurnQuiet ==
    ASSUME TypeOK, NextTurn, lines' = <<>>, process' = "running",
           driver' = oracle', Lane' <=> Lane
    PROVE  Quiet' \/ Over'
<1>1. /\ awaiting' = FALSE
      /\ pc' = "schedule" \/ (pc' = "leave" /\ Lane) \/ pc' = "shutdown"
  BY DEF NextTurn
<1> QED
  BY <1>1 DEF Quiet, Over, Asking

\* The second of two lines does not fit the next turn, nor the next request.
LEMMA NextTurnStray ==
    ASSUME TypeOK, NextTurn, NEW l, lines' = <<l>>, process' = "running", "contract" \in struck',
           \/ l.kind = "plan" /\ l.sequence = turn
           \/ l.kind = "receipt_accepted",
           Lane' <=> Lane
    PROVE  ChannelInv'
<1>1. \/ turn' = turn + 1 /\ pc' = "schedule"
      \/ (pc' = "leave" /\ Lane) \/ pc' = "shutdown"
  BY DEF NextTurn
<1>2. turn' = turn + 1 => turn' # turn
  BY DEF TypeOK
<1>3. Unfit(l)'
  BY <1>1, <1>2 DEF Unfit, Kind, Asking
<1> QED
  BY <1>3 DEF ChannelInv, Stray

\* A disagreement ends the repetition.
LEMMA DisagreesRest ==
    ASSUME CountInv, NEW l, Told(FALSE, Wrong(l)), Wrong(l), outcome = "passed",
           UNCHANGED <<results, struck, process>>, NEW f \in {"selection", "receipt"}, Disagrees(f),
           lines' = <<>>, process = "running", Lane' <=> Lane
    PROVE  ChannelInv'
<1>1. /\ pc' = "leave" /\ awaiting' = FALSE
      /\ \/ mismatches' = [mismatches EXCEPT ![f] = @ + 1] /\ UNCHANGED outcome
         \/ outcome' = "conformance" /\ UNCHANGED mismatches
  BY DEF Disagrees
<1>2. Told(FALSE, FALSE)'
  BY <1>1, ToldWrong
<1>3. Quiet' \/ Over'
  BY <1>1 DEF Quiet, Over, Asking
<1> QED
  BY <1>2, <1>3 DEF ChannelInv, AtRest

LEMMA PlanStep ==
    ASSUME TypeOK, PendingInv, PlaceInv, CountInv, ChannelInv, TakePlan, Lane' <=> Lane
    PROVE  ChannelInv'
<1> DEFINE c == oracle.pending
<1>1. /\ pc = "schedule" /\ awaiting /\ Took /\ outcome = "passed"
      /\ UNCHANGED <<process, driver, struck, results>>
  BY DEF TakePlan, Took, PlaceInv
<1>2. PICK l : /\ Head0 = l
               /\ \/ Answered(l) /\ (lines' = <<>> \/ Closing)
                  \/ Doubled(l) /\ lines' = <<l>>
                  \/ Stray(l) /\ lines' = <<>>
  BY <1>1, Taken
<1>3. ASSUME Answer(l)
      PROVE  /\ process = "running" /\ driver = oracle /\ ~Closing
             /\ l.kind = "plan" /\ l.sequence = turn
             /\ Wrong(l) => Disagrees("selection")
             /\ ~Wrong(l) =>
                   /\ UNCHANGED <<outcome, mismatches>>
                   /\ \/ NextTurn /\ UNCHANGED oracle
                      \/ /\ c # NoCandidate /\ oracle' = accept_receipt(oracle, c)
                         /\ pc' = "receipt" /\ awaiting' = FALSE
  <2>1. /\ process = "running" /\ driver = oracle /\ ~Closing
        /\ l.kind = "plan" /\ l.sequence = turn /\ DOMAIN l.ledgers = oracle.runnable
        /\ Wrong(l) <=> l.id # c.id \/ l.ledgers # Restrict(oracle.ledgers, oracle.runnable)
    BY <1>1, <1>3 DEF Answer, Kind, Closing, Wrong
  <2> QED
    BY <1>2, <2>1 DEF TakePlan
<1>4. CASE Answered(l) /\ (lines' = <<>> \/ Closing)
  <2>1. Answer(l) /\ Told(FALSE, Wrong(l))
    BY <1>4 DEF Answered
  <2>2. lines' = <<>>
    BY <1>3, <1>4, <2>1
  <2>3. CASE Wrong(l)
    BY <1>1, <1>3, <2>1, <2>2, <2>3, DisagreesRest
  <2>4. CASE ~Wrong(l) /\ NextTurn /\ UNCHANGED oracle
    <3>1. Told(FALSE, FALSE)'
      BY <1>1, <1>3, <2>1, <2>4, ToldRight
    <3>2. Quiet' \/ Over'
      BY <1>1, <1>3, <2>1, <2>2, <2>4, NextTurnQuiet
    <3> QED
      BY <3>1, <3>2 DEF ChannelInv, AtRest
  <2>5. CASE /\ ~Wrong(l) /\ c # NoCandidate /\ oracle' = accept_receipt(oracle, c)
             /\ pc' = "receipt" /\ awaiting' = FALSE
    <3>1. Told(FALSE, FALSE)'
      BY <1>1, <1>3, <2>1, <2>5, ToldRight
    <3>2. Owes'
      BY <1>1, <1>3, <2>1, <2>5 DEF Owes, TypeOK, PendingInv
    <3>3. Quiet'
      BY <1>1, <1>3, <2>1, <2>2, <2>5, <3>2 DEF Quiet
    <3> QED
      BY <3>1, <3>3 DEF ChannelInv, AtRest
  <2> QED
    BY <1>3, <2>1, <2>3, <2>4, <2>5
<1>5. CASE Doubled(l) /\ lines' = <<l>>
  <2>1. Answer(l) /\ ~Wrong(l) /\ "contract" \in struck
    BY <1>5 DEF Doubled
  <2>2. CASE NextTurn
    BY <1>1, <1>3, <1>5, <2>1, <2>2, NextTurnStray
  <2>3. CASE pc' = "receipt"
    <3>1. Stray(l)'
      BY <1>1, <1>3, <1>5, <2>1, <2>3 DEF Stray, Unfit, Kind, Asking
    <3> QED
      BY <3>1 DEF ChannelInv
  <2> QED
    BY <1>3, <2>1, <2>2, <2>3
<1>6. CASE Stray(l) /\ lines' = <<>>
  <2>1. /\ l.kind # "plan" \/ l.sequence # turn \/ DOMAIN l.ledgers # oracle.runnable
        /\ "contract" \in struck
    BY <1>1, <1>6 DEF Stray, Unfit, Kind
  <2>2. ContractFails
    BY <1>2, <2>1 DEF TakePlan
  <2> QED
    BY <1>1, <2>1, <2>2, ToldFails
<1> QED
  BY <1>2, <1>4, <1>5, <1>6

LEMMA ReceiptStep ==
    ASSUME TypeOK, PlaceInv, CountInv, ChannelInv, TakeReceipt, Lane' <=> Lane
    PROVE  ChannelInv'
<1>1. /\ pc = "receipt" /\ awaiting /\ Took /\ outcome = "passed"
      /\ UNCHANGED <<process, driver, struck, results, oracle>>
  BY DEF TakeReceipt, Took, PlaceInv
<1>2. PICK l : /\ Head0 = l
               /\ \/ Answered(l) /\ (lines' = <<>> \/ Closing)
                  \/ Doubled(l) /\ lines' = <<l>>
                  \/ Stray(l) /\ lines' = <<>>
  BY <1>1, Taken
<1>3. ASSUME Answer(l)
      PROVE  /\ process = "running" /\ driver = oracle /\ ~Closing
             /\ l.kind = "receipt_accepted" /\ l.sequence = turn
             /\ Wrong(l) => Disagrees("receipt")
             /\ ~Wrong(l) => NextTurn /\ UNCHANGED <<outcome, mismatches>>
  <2>1. /\ process = "running" /\ driver = oracle /\ ~Closing
        /\ l.kind = "receipt_accepted" /\ l.sequence = turn
        /\ (Wrong(l) <=> l.ledgers # oracle.ledgers)
    BY <1>1, <1>3 DEF Answer, Kind, Closing, Wrong
  <2> QED
    BY <1>2, <2>1 DEF TakeReceipt, ReceiptAgrees
<1>4. CASE Answered(l) /\ (lines' = <<>> \/ Closing)
  <2>1. Answer(l) /\ Told(FALSE, Wrong(l))
    BY <1>4 DEF Answered
  <2>2. lines' = <<>>
    BY <1>3, <1>4, <2>1
  <2>3. CASE Wrong(l)
    BY <1>1, <1>3, <2>1, <2>2, <2>3, DisagreesRest
  <2>4. CASE ~Wrong(l)
    <3>1. Told(FALSE, FALSE)'
      BY <1>1, <1>3, <2>1, <2>4, ToldRight
    <3>2. Quiet' \/ Over'
      BY <1>1, <1>3, <2>1, <2>2, <2>4, NextTurnQuiet
    <3> QED
      BY <3>1, <3>2 DEF ChannelInv, AtRest
  <2> QED
    BY <2>3, <2>4
<1>5. CASE Doubled(l) /\ lines' = <<l>>
  <2>1. Answer(l) /\ ~Wrong(l) /\ "contract" \in struck
    BY <1>5 DEF Doubled
  <2> QED
    BY <1>1, <1>3, <1>5, <2>1, NextTurnStray
<1>6. CASE Stray(l) /\ lines' = <<>>
  <2>1. (l.kind # "receipt_accepted" \/ l.sequence # turn) /\ "contract" \in struck
    BY <1>1, <1>6 DEF Stray, Unfit, Kind
  <2>2. ContractFails
    BY <1>2, <2>1 DEF TakeReceipt
  <2> QED
    BY <1>1, <2>1, <2>2, ToldFails
<1> QED
  BY <1>2, <1>4, <1>5, <1>6

LEMMA ClosedStep ==
    ASSUME PlaceInv, CountInv, ChannelInv, TakeClosed, Lane' <=> Lane
    PROVE  ChannelInv'
<1>1. /\ pc \in {"shutdown", "close"} /\ awaiting /\ Took
      /\ UNCHANGED <<process, struck, results, mismatches>>
  BY DEF TakeClosed, Took
<1>2. PICK l : /\ Head0 = l
               /\ \/ Answered(l) /\ (lines' = <<>> \/ Closing)
                  \/ Doubled(l) /\ lines' = <<l>>
                  \/ Stray(l) /\ lines' = <<>>
  BY <1>1, Taken
<1>3. CASE Answered(l)
  <2>1. l.kind = "closed" /\ ~Wrong(l) /\ Told(FALSE, Wrong(l))
    BY <1>1, <1>3 DEF Answered, Answer, Kind, Wrong
  <2>2. pc' = (IF Lane THEN "report" ELSE "finish") /\ UNCHANGED outcome
    BY <1>2, <2>1 DEF TakeClosed
  <2>3. Told(FALSE, FALSE)'
    BY <1>1, <2>1, <2>2, ToldRight
  <2> QED
    BY <2>2, <2>3 DEF ChannelInv, AtRest, Over
<1>4. CASE Stray(l)
  <2>1. l.kind # "closed" /\ "contract" \in struck
    BY <1>1, <1>4 DEF Stray, Unfit, Kind
  <2>2. ContractFails
    BY <1>2, <2>1 DEF TakeClosed
  <2> QED
    BY <1>1, <2>1, <2>2, ToldFails
<1>5. ~Doubled(l)
  BY <1>1 DEF Doubled, Closing
<1> QED
  BY <1>2, <1>3, <1>4, <1>5

LEMMA ChannelStep ==
    ASSUME TypeOK, PendingInv, PlaceInv, CountInv, ChannelInv, [Next]_vars
    PROVE  ChannelInv'
<1>1. Next \/ UNCHANGED vars
  OBVIOUS
<1>2. (Lane' <=> Lane) /\ UNCHANGED case
  BY CaseKept
<1>3. \A l : Answered(l) \/ Doubled(l) => awaiting /\ pc \in Asking /\ lines # <<>>
  BY Queue DEF Answered, Doubled, Answer
<1>4. \A l : Stray(l) => lines # <<>> /\ (pc \in Asking \/ (pc = "leave" /\ Lane))
  BY Queue DEF Stray, Unfit, Asking
<1>5. CASE Spawn
  <2>1. pc = "spawn" /\ ~Lane /\ lines' = <<>> /\ UNCHANGED <<results, mismatches>>
    BY <1>5 DEF Spawn, PlaceInv
  <2>2. Told(FALSE, FALSE)
    BY <1>3, <1>4, <2>1 DEF ChannelInv, AtRest, Asking
  <2>3. CASE ContractFails /\ struck' = {"contract"}
    BY <1>2, <2>3, ToldFails
  <2>4. CASE /\ pc' = "hello" /\ process' = "running"
             /\ UNCHANGED <<awaiting, outcome, struck>>
    <3>1. Told(FALSE, FALSE)'
      BY <2>1, <2>2, <2>4 DEF Told, Known, Counted
    <3>2. Quiet'
      BY <2>1, <2>4 DEF Quiet
    <3> QED
      BY <3>1, <3>2 DEF ChannelInv, AtRest
  <2> QED
    BY <1>5, <2>3, <2>4 DEF Spawn
<1>6. CASE Ask
  <2>0. SUFFICES ASSUME ~(ContractFails /\ "contract" \in struck') PROVE ChannelInv'
    BY <1>2, ToldFails
  <2>1. /\ pc \in Asking /\ ~awaiting
        /\ UNCHANGED <<turn, results, mismatches, driver, process, lines, struck>>
        /\ process = "running" => awaiting' = TRUE /\ UNCHANGED <<pc, outcome>>
        /\ pc = "schedule" => oracle' = schedule(oracle, Cands)
        /\ pc # "schedule" => UNCHANGED oracle
    BY <1>6, <2>0 DEF Ask, Asking
  <2>2. CASE AtRest
    <3>1. Quiet /\ process = "running"
      BY <2>1, <2>2 DEF AtRest, Over, Quiet, Asking
    <3>2. Told(FALSE, FALSE)'
      BY <2>1, <2>2, <3>1 DEF AtRest, Told, Known, Counted
    <3>3. Cands' = Cands
      BY <1>2, <2>1 DEF Cands
    <3>4. pc = "schedule" => driver \in Schedulers /\ oracle' = schedule(driver, Cands)
      BY <2>1, <3>1 DEF Quiet, TypeOK
    <3>5. pc = "receipt" => Owes'
      BY <2>1, <3>1 DEF Quiet, Owes
    <3>6. Quiet'
      BY <1>2, <2>1, <3>1, <3>3, <3>4, <3>5 DEF Quiet
    <3> QED
      BY <3>2, <3>6 DEF ChannelInv, AtRest
  <2>3. ASSUME NEW l, Stray(l) PROVE ChannelInv'
    <3>1. process = "running"
      BY <2>1, <2>3 DEF Stray, Unfit
    <3>2. Stray(l)'
      BY <1>2, <2>1, <2>3, <3>1 DEF Stray, Unfit, Asking
    <3> QED
      BY <3>2 DEF ChannelInv
  <2> QED
    BY <1>3, <2>1, <2>2, <2>3 DEF ChannelInv
<1>7. CASE Timeout
  BY <1>2, <1>7, ToldFails DEF Timeout
<1>8. CASE TakeHello \/ TakeInitialized \/ TakePlan \/ TakeReceipt \/ TakeClosed
  BY <1>2, <1>8, HelloStep, InitializedStep, PlanStep, ReceiptStep, ClosedStep
<1>9. CASE Leave
  <2> DEFINE n == Len(results)
             x == [outcome |-> outcome, hash |-> PlanHash]
  <2>1. /\ pc = "leave" /\ results' = Append(results, x) /\ outcome' = "passed"
        /\ lines' = (IF Lane THEN lines ELSE <<>>)
        /\ UNCHANGED process
        /\ pc' \in (IF Lane THEN {"initialize", "close"} ELSE {"spawn", "report"})
        /\ UNCHANGED <<driver, mismatches, struck, awaiting>>
    BY <1>9 DEF Leave
  <2>2. /\ Known("contract")' <=> Known("contract")
        /\ Known("conformance")' <=> Known("conformance")
        /\ Counted' <=> Counted
    <3>1. IsTrace(results, n) /\ n \in Nat /\ x.outcome = outcome
      BY DEF CountInv, IsTrace
    <3> HIDE DEF n, x
    <3>2. Prolongs(Append(results, x), results, n, x)
      BY <3>1, TraceAppend
    <3>3. /\ IsTrace(results', n + 1) /\ results'[n + 1] = x
          /\ \A k \in 1..n : results'[k] = results[k]
      BY <2>1, <3>2 DEF Prolongs
    <3>4. Len(results') = n + 1 /\ 1..(n + 1) = (1..n) \cup {n + 1}
      <4>1. Len(results') = n + 1
        BY <3>3, TraceLen
      <4> QED
        BY <3>1, <4>1
    <3>5. ASSUME NEW kind, kind # "passed" PROVE Known(kind)' <=> Known(kind)
      BY <2>1, <3>1, <3>3, <3>4, <3>5 DEF Known, n
    <3> QED
      BY <2>1, <3>5 DEF Counted
  <2>3. CASE AtRest
    <3>1. Told(FALSE, FALSE)'
      BY <2>1, <2>2, <2>3 DEF AtRest, Told
    <3>2. CASE Lane
      <4>1. Quiet /\ lines = <<>> /\ process = "running"
        BY <2>1, <2>3, <3>2 DEF AtRest, Over, Quiet
      <4>2. Quiet'
        BY <2>1, <3>2, <4>1 DEF Quiet
      <4> QED
        BY <3>1, <4>2 DEF ChannelInv, AtRest
    <3>3. CASE ~Lane
      <4>1. Quiet' \/ Over'
        BY <1>2, <2>1, <3>3 DEF Quiet, Over, Asking
      <4> QED
        BY <3>1, <4>1 DEF ChannelInv, AtRest
    <3> QED
      BY <3>2, <3>3
  <2>4. ASSUME NEW l, Stray(l) PROVE ChannelInv'
    <3>1. /\ Lane /\ process = "running" /\ l.kind \in {"plan", "receipt_accepted"}
          /\ lines = <<l>> /\ "contract" \in struck
      BY <2>1, <2>4 DEF Stray, Unfit, Asking
    <3>2. Unfit(l)'
      BY <2>1, <3>1 DEF Unfit, Kind, Asking
    <3> QED
      BY <2>1, <3>1, <3>2 DEF ChannelInv, Stray
  <2> QED
    BY <1>3, <2>1, <2>3, <2>4 DEF ChannelInv, Asking
<1>10. CASE Report
  <2>1. /\ pc = "report" /\ pc' = "reported" /\ UNCHANGED <<outcome, results, struck>>
        /\ \E n : mismatches' = [mismatches EXCEPT !.replay = n]
    BY <1>10 DEF Report, driverVars
  <2>2. Told(FALSE, FALSE)
    BY <1>3, <1>4, <2>1 DEF ChannelInv, AtRest, Asking
  <2>3. /\ mismatches'.selection = mismatches.selection
        /\ mismatches'.receipt = mismatches.receipt
    BY <2>1 DEF CountInv
  <2>4. Told(FALSE, FALSE)'
    BY <2>1, <2>2, <2>3 DEF Told, Known, Counted
  <2> QED
    BY <2>1, <2>4 DEF ChannelInv, AtRest, Over
<1>11. CASE DriverAnswers
  <2>1. AtRest
    BY <1>3, <1>4, <1>11 DEF DriverAnswers, Asked, ChannelInv
  <2> QED
    BY <1>11, <2>1, AnswerStep
<1>12. CASE DriverExits
  <2>1. /\ awaiting /\ lines' = <<Eof>> /\ "contract" \in struck' /\ UNCHANGED <<pc, awaiting>>
        /\ Eof.kind = "eof" /\ pc \in Asking
    BY <1>12 DEF DriverExits, Asked, benchVars, Eof, Line, PlaceInv
  <2>2. PICK l : l = Eof
    OBVIOUS
  <2>3. Stray(l)'
    BY <2>1, <2>2 DEF Stray, Unfit, Kind
  <2> QED
    BY <2>3 DEF ChannelInv
<1>14. CASE Finish
  <2>1. pc = "finish" /\ UNCHANGED <<results, mismatches>>
    BY <1>14 DEF Finish
  <2>2. Told(FALSE, FALSE) /\ ~Lane
    BY <1>3, <1>4, <2>1 DEF ChannelInv, AtRest, Asking, PlaceInv
  <2>3. CASE ContractFails /\ struck' = struck \cup {"contract"}
    BY <1>2, <2>3, ToldFails
  <2>4. CASE pc' = "leave" /\ UNCHANGED <<awaiting, outcome, struck>>
    <3>1. Told(FALSE, FALSE)'
      BY <2>1, <2>2, <2>4 DEF Told, Known, Counted
    <3> QED
      BY <1>2, <2>2, <2>4, <3>1 DEF ChannelInv, AtRest, Over
  <2> QED
    BY <1>14, <2>3, <2>4 DEF Finish
<1>15. CASE Exits \/ DriverQuits
  <2>1. /\ ~Lane /\ pc \in {"finish", "leave"} /\ (UNCHANGED pc \/ pc' = "aborted")
        /\ UNCHANGED <<results, mismatches, outcome, struck>>
    BY <1>15, ExitSteps DEF InExit, Remains, DriverQuits, benchVars, judgeVars, driverVars
  <2>2. Told(FALSE, FALSE)
    BY <1>3, <1>4, <2>1 DEF ChannelInv, AtRest, Asking
  <2>3. Told(FALSE, FALSE)'
    BY <2>1, <2>2 DEF Told, Known, Counted
  <2> QED
    BY <1>2, <2>1, <2>3 DEF ChannelInv, AtRest, Over
<1>13. CASE HeirEnds \/ UNCHANGED vars
  <2>1. UNCHANGED <<case, pc, awaiting, turn, requests, rep, oracle, outcome, results, mismatches,
                    driver, process, lines, struck>>
    BY <1>13 DEF HeirEnds, vars, benchVars, judgeVars, driverVars
  <2>2. /\ Over' <=> Over
        /\ Quiet' <=> Quiet
        /\ Told(FALSE, FALSE)' <=> Told(FALSE, FALSE)
    BY <1>2, <2>1 DEF Over, Quiet, Owes, Cands, Told, Known, Counted
  <2>3. ASSUME NEW l
        PROVE  /\ Answered(l)' <=> Answered(l)
               /\ Doubled(l)' <=> Doubled(l)
               /\ Stray(l)' <=> Stray(l)
    <3>1. /\ Answer(l)' <=> Answer(l)
          /\ Wrong(l)' <=> Wrong(l)
          /\ Unfit(l)' <=> Unfit(l)
          /\ Closing' <=> Closing
      BY <1>2, <2>1 DEF Answer, Wrong, Unfit, Closing
    <3>2. Told(FALSE, Wrong(l))' <=> Told(FALSE, Wrong(l))
      BY <2>1, <3>1 DEF Told, Known, Counted
    <3> QED
      BY <2>1, <3>1, <3>2 DEF Answered, Doubled, Stray
  <2> QED
    BY <2>2, <2>3 DEF ChannelInv, AtRest
<1> QED
  BY ONLY <1>1, <1>5, <1>6, <1>7, <1>8, <1>9, <1>10, <1>11, <1>12, <1>13, <1>14, <1>15
     DEF Next, Bench, Exits

-----------------------------------------------------------------------------
(* The verdict. *)

\* A turn of scenario k from the state s of the oracle: the state after it, and
\* what is recorded of it when the driver is right.
TurnEnd(k, s, t) ==
    LET u == schedule(s, k.turns[t])
    IN  IF u.pending = NoCandidate THEN u ELSE accept_receipt(u, u.pending)
TurnRecord(k, s, t) ==
    LET u == schedule(s, k.turns[t])
    IN  [runnable |-> u.runnable, selected |-> u.pending.model,
         expected |-> u.pending.id, observed |-> u.pending.id,
         ledgers |-> Restrict(u.ledgers, u.runnable),
         receipt |-> IF u.pending = NoCandidate THEN Zeros
                     ELSE accept_receipt(u, u.pending).ledgers]

\* The states of the oracle at the turns of a scenario.
IsHistory(k, h, n) == h[0] = NewScheduler /\ \A t \in 1..n : h[t] = TurnEnd(k, h[t - 1], t)
History(k) == CHOOSE h : IsHistory(k, h, Len(k.turns))

\* A scenario has such a history: there is no first turn that it cannot reach.
LEMMA HistoryExists ==
    ASSUME NEW k, Len(k.turns) \in Nat
    PROVE  IsHistory(k, History(k), Len(k.turns))
<1> DEFINE Unreached == {n \in Nat : ~\E h : IsHistory(k, h, n)}
<1>1. Unreached = {}
  <2> SUFFICES ASSUME Unreached # {} PROVE FALSE
    OBVIOUS
  <2>1. PICK n \in Unreached : \A m \in Unreached : ~(<<m, n>> \in OpToRel(<, Nat))
    <3>1. Unreached \subseteq Nat
      OBVIOUS
    <3> HIDE DEF Unreached
    <3> QED
      BY <3>1, WFMin, NatLessThanWellFounded
  <2>2. n # 0
    <3> SUFFICES \E h : IsHistory(k, h, 0)
      OBVIOUS
    <3> DEFINE h == [t \in {0} |-> NewScheduler]
    <3>1. h[0] = NewScheduler /\ \A t \in 1..0 : FALSE
      OBVIOUS
    <3> HIDE DEF h
    <3>2. IsHistory(k, h, 0)
      BY <3>1 DEF IsHistory
    <3> QED
      BY <3>2
  <2>3. n - 1 \in Nat /\ n \in Nat
    BY <2>2
  <2>4. PICK h : IsHistory(k, h, n - 1)
    <3>1. <<n - 1, n>> \in OpToRel(<, Nat)
      BY <2>3 DEF OpToRel
    <3> QED
      BY <2>1, <2>3, <3>1
  <2> DEFINE g == [t \in 0..n |-> IF t = n THEN TurnEnd(k, h[n - 1], n) ELSE h[t]]
  <2>5. g[0] = NewScheduler
    BY <2>2, <2>3, <2>4 DEF IsHistory
  <2>6. ASSUME NEW t \in 1..n PROVE g[t] = TurnEnd(k, g[t - 1], t)
    <3>1. g[t - 1] = h[t - 1]
      BY <2>3
    <3>2. CASE t = n
      BY <2>3, <3>1, <3>2
    <3>3. CASE t # n
      <4>1. t \in 1..(n - 1)
        BY <2>3, <3>3
      <4>2. g[t] = h[t]
        BY <2>3, <3>3
      <4> HIDE DEF g
      <4>3. h[t] = TurnEnd(k, h[t - 1], t)
        BY <2>4, <4>1 DEF IsHistory
      <4> QED
        BY <3>1, <4>2, <4>3
    <3> QED
      BY <3>2, <3>3
  <2> HIDE DEF g
  <2>7. IsHistory(k, g, n)
    BY <2>5, <2>6 DEF IsHistory
  <2> QED
    BY <2>1, <2>7
<1>2. \E h : IsHistory(k, h, Len(k.turns))
  BY <1>1
<1> QED
  BY <1>2 DEF History

\* What is recorded while the driver is right: of the first n turns, of all, and
\* the hash of it.
At(k, t) == History(k)[t]
Follows(k, r, n) == \A j \in 1..n : r[j] = TurnRecord(k, At(k, j - 1), j)
FullTrace(k) == [j \in 1..Len(k.turns) |-> TurnRecord(k, At(k, j - 1), j)]
FullHash(k) ==
    IF k.harness = "lane" THEN FullTrace(k)
    ELSE [j \in 1..Len(k.turns) |->
             <<FullTrace(k)[j].observed, FullTrace(k)[j].ledgers, FullTrace(k)[j].receipt>>]

\* While the driver is right every repetition goes through the same states and
\* leaves the same records.
Recorded(n) == IsTrace(records, n) /\ Follows(case, records, n)
ResultsAlike == \A k \in 1..Len(results) : results[k].hash = FullHash(case)
InTurn ==
    /\ Recorded(turn - 1)
    /\ oracle = IF awaiting THEN schedule(At(case, turn - 1), Cands) ELSE At(case, turn - 1)
InReceipt ==
    /\ IsTrace(records, turn) /\ Follows(case, records, turn - 1)
    /\ schedule(At(case, turn - 1), Cands).pending # NoCandidate
    /\ records[turn] = [TurnRecord(case, At(case, turn - 1), turn) EXCEPT !.receipt = Zeros]
    /\ oracle = At(case, turn)
TraceInv ==
    struck = {} =>
        /\ ResultsAlike
        /\ pc = "schedule" => InTurn
        /\ pc = "receipt" => InReceipt
        /\ pc \in {"shutdown", "finish", "leave"} => Recorded(Turns)

LEMMA AtTurns ==
    ASSUME TypeOK
    PROVE  /\ At(case, 0) = NewScheduler
           /\ \A t \in 1..Turns : At(case, t) = TurnEnd(case, At(case, t - 1), t)
<1>1. Len(case.turns) \in Nat
  BY TurnOffers DEF Turns
<1>2. IsHistory(case, History(case), Len(case.turns))
  BY <1>1, HistoryExists
<1> QED
  BY <1>2 DEF IsHistory, At, Turns

LEMMA TraceHash ==
    ASSUME Recorded(Turns)
    PROVE  PlanHash = FullHash(case)
<1>1. records = FullTrace(case)
  BY DEF Recorded, IsTrace, Follows, FullTrace, Turns
<1>2. DOMAIN FullTrace(case) = 1..Len(case.turns)
  BY DEF FullTrace
<1> QED
  BY <1>1, <1>2 DEF PlanHash, FullHash, Lane

\* With no fault nothing fails and nothing is counted.
LEMMA Clean ==
    ASSUME CountInv, ChannelInv', struck' = {}
    PROVE  /\ ~ContractFails
           /\ \A f \in {"selection", "receipt"} :
                 ~Disagrees(f) /\ mismatches' # [mismatches EXCEPT ![f] = @ + 1]
<1>1. ~Known("contract")' /\ ~Known("conformance")' /\ ~Counted'
  BY DEF ChannelInv, AtRest, Answered, Doubled, Stray, Told
<1>2. outcome' # "contract" /\ outcome' # "conformance"
  BY <1>1 DEF Known
<1>3. ASSUME NEW f \in {"selection", "receipt"}
      PROVE  mismatches' # [mismatches EXCEPT ![f] = @ + 1]
  BY <1>1 DEF Counted, CountInv
<1> QED
  BY <1>2, <1>3 DEF ContractFails, Disagrees

\* After a recorded turn the next one begins, or the repetition ends.
LEMMA TurnDone ==
    ASSUME TypeOK, NextTurn, ResultsAlike, UNCHANGED <<case, results>>,
           IsTrace(records', turn), Follows(case, records', turn), oracle' = At(case, turn)
    PROVE  TraceInv'
<1>1. turn \in 1..Turns /\ Turns \in Nat /\ Turns' = Turns
  BY TurnOffers DEF TypeOK, Turns
<1>2. ResultsAlike'
  BY DEF ResultsAlike
<1>3. CASE turn < Turns
  <2>1. turn' = turn + 1 /\ pc' = "schedule" /\ awaiting' = FALSE
    BY <1>3 DEF NextTurn
  <2>2. turn' - 1 = turn
    BY <1>1, <2>1
  <2>3. InTurn'
    BY <2>1, <2>2 DEF InTurn, Recorded
  <2> QED
    BY <1>2, <2>1, <2>3 DEF TraceInv
<1>4. CASE ~(turn < Turns)
  <2>1. turn = Turns /\ pc' \in {"leave", "shutdown"}
    BY <1>1, <1>4 DEF NextTurn
  <2>2. Recorded(Turns)'
    BY <1>1, <2>1 DEF Recorded
  <2> QED
    BY <1>2, <2>1, <2>2 DEF TraceInv
<1> QED
  BY <1>3, <1>4

\* A right plan is recorded as expected, its receipt still to come.
LEMMA TracePlan ==
    ASSUME TypeOK, CountInv, TraceInv, struck = {}, TakePlan, UNCHANGED case,
           ~ContractFails, ~Disagrees("selection")
    PROVE  TraceInv'
<1>1. PICK u : u = schedule(At(case, turn - 1), Cands)
  OBVIOUS
<1>2. pc = "schedule" /\ awaiting
  BY DEF TakePlan, Took
<1>3. /\ oracle = u /\ IsTrace(records, turn - 1) /\ Follows(case, records, turn - 1)
      /\ ResultsAlike
  BY <1>1, <1>2 DEF TraceInv, InTurn, Recorded
<1>4. PICK x : x = Record(Head0)
  OBVIOUS
<1>5. /\ records' = Append(records, x) /\ UNCHANGED results
      /\ Head0.ledgers = Restrict(u.ledgers, u.runnable) /\ Head0.id = u.pending.id
      /\ \/ u.pending = NoCandidate /\ NextTurn /\ UNCHANGED oracle
         \/ /\ u.pending # NoCandidate /\ oracle' = accept_receipt(u, u.pending)
            /\ pc' = "receipt" /\ UNCHANGED turn
  BY <1>3, <1>4 DEF TakePlan
<1>6. x = [runnable |-> u.runnable, selected |-> u.pending.model, expected |-> u.pending.id,
           observed |-> u.pending.id, ledgers |-> Restrict(u.ledgers, u.runnable),
           receipt |-> Zeros]
  BY <1>3, <1>4, <1>5 DEF Record
<1>7. turn \in Nat /\ turn - 1 \in Nat /\ turn \in 1..Turns
  BY TurnOffers DEF TypeOK
<1>8. /\ IsTrace(records', turn) /\ records'[turn] = x
      /\ \A j \in 1..(turn - 1) : records'[j] = records[j]
  <2>1. Prolongs(Append(records, x), records, turn - 1, x)
    BY <1>3, <1>7, TraceAppend
  <2>2. turn - 1 + 1 = turn
    BY <1>7
  <2> QED
    BY <1>5, <2>1, <2>2 DEF Prolongs
<1>9. Follows(case, records', turn - 1)
  BY <1>3, <1>8 DEF Follows
<1>10. u = schedule(At(case, turn - 1), case.turns[turn])
  BY <1>1 DEF Cands
<1>11. At(case, turn) = IF u.pending = NoCandidate THEN u ELSE accept_receipt(u, u.pending)
  BY <1>7, <1>10, AtTurns DEF TurnEnd
<1>12. CASE u.pending = NoCandidate
  <2>1. x = TurnRecord(case, At(case, turn - 1), turn)
    BY <1>6, <1>10, <1>12 DEF TurnRecord
  <2>2. Follows(case, records', turn)
    <3>1. \A j \in 1..turn : j \in 1..(turn - 1) \/ j = turn
      BY <1>7
    <3> QED
      BY <1>8, <1>9, <2>1, <3>1 DEF Follows
  <2>3. NextTurn /\ oracle' = At(case, turn)
    BY <1>3, <1>5, <1>11, <1>12
  <2> QED
    BY <1>3, <1>5, <1>8, <2>2, <2>3, TurnDone
<1>13. CASE u.pending # NoCandidate
  <2>1. x = [TurnRecord(case, At(case, turn - 1), turn) EXCEPT !.receipt = Zeros]
    BY <1>6, <1>10, <1>13 DEF TurnRecord
  <2>2. oracle' = At(case, turn) /\ pc' = "receipt" /\ UNCHANGED turn
    BY <1>5, <1>11, <1>13
  <2>3. Cands' = Cands /\ ResultsAlike'
    BY <1>3, <1>5, <2>2 DEF Cands, ResultsAlike
  <2>4. InReceipt'
    BY <1>1, <1>8, <1>9, <1>13, <2>1, <2>2, <2>3 DEF InReceipt
  <2> QED
    BY <2>2, <2>3, <2>4 DEF TraceInv
<1> QED
  BY <1>12, <1>13

\* A right receipt completes the record of its turn.
LEMMA TraceReceipt ==
    ASSUME TypeOK, CountInv, TraceInv, struck = {}, TakeReceipt, UNCHANGED case,
           ~ContractFails, ~Disagrees("receipt")
    PROVE  TraceInv'
<1>1. PICK u : u = schedule(At(case, turn - 1), Cands)
  OBVIOUS
<1>2. pc = "receipt"
  BY DEF TakeReceipt
<1>3. PICK r : r = TurnRecord(case, At(case, turn - 1), turn)
  OBVIOUS
<1>4. /\ IsTrace(records, turn) /\ Follows(case, records, turn - 1) /\ ResultsAlike
      /\ u.pending # NoCandidate /\ records[turn] = [r EXCEPT !.receipt = Zeros]
      /\ oracle = At(case, turn)
  BY <1>1, <1>2, <1>3 DEF TraceInv, InReceipt
<1>5. turn \in Nat /\ turn - 1 \in Nat /\ turn \in 1..Turns
  BY TurnOffers DEF TypeOK
<1>6. Len(records) = turn /\ DOMAIN records = 1..turn
  BY <1>4, TraceLen
<1>7. /\ records' = [records EXCEPT ![turn].receipt = oracle.ledgers]
      /\ NextTurn /\ UNCHANGED <<results, oracle>>
  BY <1>6 DEF TakeReceipt, ReceiptAgrees
<1>8. u = schedule(At(case, turn - 1), case.turns[turn])
  BY <1>1 DEF Cands
<1>9. oracle = accept_receipt(u, u.pending)
  BY <1>4, <1>5, <1>8, AtTurns DEF TurnEnd
<1>10. r = [runnable |-> u.runnable, selected |-> u.pending.model, expected |-> u.pending.id,
            observed |-> u.pending.id, ledgers |-> Restrict(u.ledgers, u.runnable),
            receipt |-> oracle.ledgers]
  BY <1>3, <1>4, <1>8, <1>9 DEF TurnRecord
<1>11. PICK b : b = [r EXCEPT !.receipt = Zeros]
  OBVIOUS
<1>12. [b EXCEPT !.receipt = oracle.ledgers] = r
  <2>1. b = [runnable |-> u.runnable, selected |-> u.pending.model, expected |-> u.pending.id,
             observed |-> u.pending.id, ledgers |-> Restrict(u.ledgers, u.runnable),
             receipt |-> Zeros]
    BY ONLY <1>10, <1>11
  <2> QED
    BY ONLY <1>10, <2>1
<1>13. /\ records' = [k \in 1..turn |-> records'[k]] /\ records'[turn] = r
       /\ \A j \in 1..(turn - 1) : records'[j] = records[j]
  <2>1. DOMAIN records' = 1..turn /\ records' = [k \in 1..turn |-> records'[k]]
    BY ONLY <1>6, <1>7
  <2>2. records'[turn] = [b EXCEPT !.receipt = oracle.ledgers]
    BY <1>4, <1>5, <1>6, <1>7, <1>11
  <2>3. \A j \in 1..(turn - 1) : records'[j] = records[j]
    BY <1>5, <1>6, <1>7
  <2> QED
    BY <1>12, <2>1, <2>2, <2>3
<1>14. Follows(case, records', turn)
  <2>1. \A j \in 1..turn : j \in 1..(turn - 1) \/ j = turn
    BY <1>5
  <2> QED
    BY <1>3, <1>4, <1>13, <2>1 DEF Follows
<1>15. IsTrace(records', turn)
  BY <1>5, <1>13 DEF IsTrace
<1> QED
  BY <1>4, <1>7, <1>14, <1>15, TurnDone

LEMMA TraceStep ==
    ASSUME TypeOK, PendingInv, PlaceInv, CountInv, ChannelInv', TraceInv, [Next]_vars
    PROVE  TraceInv'
<1> SUFFICES ASSUME struck' = {} PROVE TraceInv'
  BY DEF TraceInv
<1>1. Next \/ UNCHANGED vars
  OBVIOUS
<1>2. UNCHANGED case /\ (Lane' <=> Lane) /\ Turns' = Turns
  BY CaseKept
<1>3. /\ ~ContractFails /\ ~Disagrees("selection") /\ ~Disagrees("receipt")
      /\ mismatches' # [mismatches EXCEPT !["receipt"] = @ + 1]
  BY Clean
<1>4. ASSUME struck = {}, UNCHANGED <<records, results>>,
             \/ pc' \in {"spawn", "hello", "initialize", "close", "report", "reported", "aborted"}
             \/ UNCHANGED <<pc, turn, oracle, awaiting>>
             \/ pc \in {"shutdown", "finish", "leave"} /\ pc' \in {"finish", "leave"}
             \/ UNCHANGED <<pc, turn, oracle>> /\ pc # "schedule"
      PROVE  TraceInv'
  <2>1. ResultsAlike' /\ (Recorded(Turns) => Recorded(Turns)')
    BY <1>2, <1>4 DEF TraceInv, ResultsAlike, Recorded
  <2>2. ASSUME UNCHANGED <<pc, turn, oracle>>
        PROVE  (pc = "receipt" /\ InReceipt => InReceipt') /\ Cands' = Cands
    BY <1>2, <1>4, <2>2 DEF InReceipt, Cands
  <2>3. ASSUME UNCHANGED <<pc, turn, oracle, awaiting>>
        PROVE  InTurn => InTurn'
    BY <1>2, <1>4, <2>2, <2>3 DEF InTurn, Recorded
  <2> QED
    BY <1>4, <2>1, <2>2, <2>3 DEF TraceInv
<1> USE DEF Asking
<1>5. CASE Spawn
  BY <1>3, <1>4, <1>5 DEF Spawn
<1>6. CASE Ask
  <2>1. /\ struck = {} /\ UNCHANGED <<pc, turn, records, results>> /\ ~awaiting /\ awaiting'
        /\ pc # "schedule" => UNCHANGED oracle
        /\ pc = "schedule" => oracle' = schedule(oracle, Cands)
    BY <1>3, <1>6 DEF Ask
  <2>2. CASE pc = "schedule"
    <3>1. ResultsAlike' /\ Cands' = Cands
      BY <1>2, <2>1 DEF TraceInv, ResultsAlike, Cands
    <3>2. Recorded(turn - 1) /\ oracle = At(case, turn - 1)
      BY <2>1, <2>2 DEF TraceInv, InTurn
    <3>3. InTurn'
      BY <1>2, <2>1, <2>2, <3>1, <3>2 DEF InTurn, Recorded
    <3> QED
      BY <2>1, <2>2, <3>1, <3>3 DEF TraceInv
  <2>3. CASE pc # "schedule"
    BY <1>4, <2>1, <2>3
  <2> QED
    BY <2>2, <2>3
<1>7. CASE Timeout
  BY <1>3, <1>7 DEF Timeout
<1>8. CASE TakeHello
  BY <1>3, <1>4, <1>8 DEF TakeHello, Took
<1>9. CASE TakeInitialized
  <2>1. /\ struck = {} /\ UNCHANGED <<turn, oracle, records, results>> /\ pc = "initialize"
        /\ pc' = "schedule" /\ awaiting' = FALSE
    BY <1>3, <1>9 DEF TakeInitialized, Took
  <2>2. oracle = NewScheduler /\ turn = 1 /\ records = <<>>
    BY <2>1 DEF PlaceInv
  <2>3. IsTrace(<<>>, 0) /\ Follows(case, <<>>, 0) /\ 1 - 1 = 0
    BY DEF IsTrace, Follows
  <2>4. At(case, 0) = NewScheduler
    BY AtTurns
  <2>5. InTurn'
    BY <1>2, <2>1, <2>2, <2>3, <2>4 DEF InTurn, Recorded
  <2>6. ResultsAlike'
    BY <1>2, <2>1 DEF TraceInv, ResultsAlike
  <2> QED
    BY <2>1, <2>5, <2>6 DEF TraceInv
<1>10. CASE TakePlan
  <2>1. struck = {}
    BY <1>10 DEF TakePlan, Took
  <2> QED
    BY <1>2, <1>3, <1>10, <2>1, TracePlan
<1>11. CASE TakeReceipt
  <2>1. struck = {}
    BY <1>11 DEF TakeReceipt, Took
  <2> QED
    BY <1>2, <1>3, <1>11, <2>1, TraceReceipt
<1>12. CASE TakeClosed
  <2>1. struck = {} /\ UNCHANGED <<records, results>> /\ pc \in {"shutdown", "close"}
    BY <1>12 DEF TakeClosed, Took
  <2>2. pc' = IF Lane THEN "report" ELSE "finish"
    BY <1>3, <1>12 DEF TakeClosed
  <2>3. pc = "close" => Lane
    BY DEF PlaceInv
  <2> QED
    BY <1>4, <2>1, <2>2, <2>3
<1>13. CASE Leave
  <2>1. PICK x : x = [outcome |-> outcome, hash |-> PlanHash]
    OBVIOUS
  <2>2. PICK n : n = Len(results)
    OBVIOUS
  <2>3. /\ struck = {} /\ pc = "leave" /\ results' = Append(results, x)
        /\ pc' \in {"spawn", "initialize", "close", "report"}
    BY <1>13, <2>1 DEF Leave
  <2>4. x.hash = FullHash(case) /\ ResultsAlike
    BY <2>1, <2>3, TraceHash DEF TraceInv
  <2>5. IsTrace(results, n) /\ n \in Nat
    BY <2>2 DEF CountInv, IsTrace
  <2>6. Prolongs(Append(results, x), results, n, x)
    BY <2>5, TraceAppend
  <2>7. /\ IsTrace(results', n + 1) /\ results'[n + 1] = x
        /\ \A k \in 1..n : results'[k] = results[k]
    BY <2>3, <2>6 DEF Prolongs
  <2>8. Len(results') = n + 1
    BY <2>7, TraceLen
  <2>9. \A k \in 1..(n + 1) : k \in 1..n \/ k = n + 1
    BY <2>5
  <2>10. ResultsAlike'
    BY <1>2, <2>2, <2>4, <2>7, <2>8, <2>9 DEF ResultsAlike
  <2> QED
    BY <2>3, <2>10 DEF TraceInv
<1>14. CASE Report
  BY <1>4, <1>14 DEF Report, driverVars
<1>16. CASE Finish
  BY <1>3, <1>4, <1>16 DEF Finish
<1>17. CASE Exits
  BY <1>4, <1>17, ExitSteps DEF InExit, Remains, judgeVars, driverVars
<1>15. CASE DriverAnswers \/ DriverExits \/ DriverQuits \/ HeirEnds \/ UNCHANGED vars
  <2>1. UNCHANGED <<pc, turn, oracle, awaiting, records, results>> /\ struck = {}
    BY <1>15 DEF DriverAnswers, DriverExits, DriverQuits, HeirEnds, benchVars, judgeVars,
       driverVars, vars
  <2> QED
    BY <1>4, <2>1
<1> QED
  BY ONLY <1>1, <1>5, <1>6, <1>7, <1>8, <1>9, <1>10, <1>11, <1>12, <1>13, <1>14, <1>15,
     <1>16, <1>17 DEF Next, Bench, Exits

\* The lane's report: raised, or the three counts.
LEMMA ReportLane ==
    ASSUME TypeOK, PlaceInv, CountInv, TraceInv, Told(FALSE, FALSE), Report, Lane
    PROVE  status' = IF "contract" \in struck THEN "raised"
                     ELSE IF "conformance" \in struck THEN "gate_failed" ELSE "passed"
<1>1. PICK S : S = {k \in DOMAIN results : results[k].hash # results[1].hash}
  OBVIOUS
<1>2. /\ mismatches' = [mismatches EXCEPT !.replay = Cardinality(S)]
      /\ status' = IF outcome = "contract" THEN "raised"
                   ELSE IF mismatches' = NoMismatch THEN "passed" ELSE "gate_failed"
  BY <1>1 DEF Report
<1>3. /\ mismatches \in Mismatches
      /\ Known("contract") <=> outcome = "contract"
      /\ ~Known("conformance")
  BY DEF CountInv, PlaceInv, Known, Mismatches
<1>4. CASE outcome = "contract"
  BY <1>2, <1>3, <1>4 DEF Told
<1>5. CASE outcome # "contract" /\ Counted
  <2>1. mismatches' # NoMismatch
    BY <1>2, <1>3, <1>5 DEF Counted, NoMismatch, Mismatches
  <2> QED
    BY <1>2, <1>3, <1>5, <2>1 DEF Told
<1>6. CASE outcome # "contract" /\ ~Counted
  <2>1. struck = {}
    BY <1>3, <1>6 DEF Told, PlaceInv
  <2>2. S = {}
    <3>1. DOMAIN results = 1..Len(results) /\ Len(results) \in Nat
      BY TraceLen DEF CountInv, IsTrace
    <3>2. \A k \in 1..Len(results) : results[k].hash = FullHash(case)
      BY <2>1 DEF TraceInv, ResultsAlike
    <3>3. ASSUME NEW k \in 1..Len(results) PROVE 1 \in 1..Len(results)
      BY <3>1
    <3> QED
      BY <1>1, <3>1, <3>2, <3>3
  <2>3. Cardinality(S) = 0
    BY <2>2, FS_EmptySet
  <2>4. mismatches' = NoMismatch
    BY <1>2, <1>3, <1>6, <2>3 DEF Counted, NoMismatch, Mismatches
  <2> QED
    BY <1>2, <1>6, <2>1, <2>4
<1> QED
  BY <1>4, <1>5, <1>6

\* The runner's report: the outcomes of the repetitions, and whether they are
\* alike.
LEMMA ReportRunner ==
    ASSUME TypeOK, PlaceInv, CountInv, TraceInv, Told(FALSE, FALSE), Report, ~Lane
    PROVE  status' = IF "contract" \in struck THEN "contract_failed"
                     ELSE IF "conformance" \in struck THEN "conformance_failed" ELSE "passed"
<1>1. PICK O : O = {results[k].outcome : k \in DOMAIN results}
  OBVIOUS
<1>2. PICK alike \in BOOLEAN : alike <=> \A k \in DOMAIN results : results[k].hash = results[1].hash
  OBVIOUS
<1>3. /\ pc = "report"
      /\ status' = IF "contract" \in O THEN "contract_failed"
                   ELSE IF O = {"passed"} /\ alike THEN "passed" ELSE "conformance_failed"
  BY <1>1, <1>2 DEF Report
<1>4. DOMAIN results = 1..Len(results) /\ Len(results) \in Nat /\ Len(results) > 0
  BY <1>3, TraceLen DEF CountInv, IsTrace
<1>5. 1 \in 1..Len(results)
  BY <1>4
<1>6. outcome = "passed" /\ ~Counted
  BY <1>3 DEF PlaceInv, CountInv, Counted
<1>7. /\ "contract" \in O <=> "contract" \in struck
      /\ "contract" \notin struck => ("conformance" \in O <=> "conformance" \in struck)
  BY <1>1, <1>4, <1>6 DEF Told, Known
<1>8. O \subseteq {"passed", "contract", "conformance"} /\ O # {}
  BY <1>1, <1>4, <1>5 DEF CountInv
<1>9. CASE "contract" \in struck \/ "conformance" \in struck
  BY <1>3, <1>7, <1>9
<1>10. CASE "contract" \notin struck /\ "conformance" \notin struck
  <2>1. struck = {}
    BY <1>10 DEF PlaceInv
  <2>2. O = {"passed"}
    BY <1>7, <1>8, <1>10
  <2>3. alike
    BY <1>2, <1>4, <1>5, <2>1 DEF TraceInv, ResultsAlike
  <2> QED
    BY <1>3, <1>10, <2>2, <2>3
<1> QED
  BY <1>9, <1>10

LEMMA VerdictStep ==
    ASSUME TypeOK, PlaceInv, CountInv, ChannelInv, TraceInv, VerdictIsExact, [Next]_vars
    PROVE  VerdictIsExact'
<1>1. Next \/ UNCHANGED vars
  OBVIOUS
<1>2. Lane' <=> Lane
  BY CaseKept
<1>3. CASE Report
  <2>1. pc = "report" /\ UNCHANGED struck /\ ~awaiting
    BY <1>3 DEF Report, driverVars, PlaceInv, Asking
  <2>2. Told(FALSE, FALSE)
    BY <2>1 DEF ChannelInv, AtRest, Answered, Doubled, Stray, Answer, Unfit, Asking
  <2>3. CASE Lane
    BY <1>2, <1>3, <2>1, <2>2, <2>3, ReportLane DEF VerdictIsExact
  <2>4. CASE ~Lane
    BY <1>2, <1>3, <2>1, <2>2, <2>4, ReportRunner DEF VerdictIsExact
  <2> QED
    BY <2>3, <2>4
<1>4. CASE UNCHANGED vars
  BY <1>2, <1>4 DEF vars, benchVars, judgeVars, driverVars, VerdictIsExact
<1>5. CASE DriverAnswers \/ DriverExits
  <2>1. UNCHANGED pc /\ awaiting
    BY <1>5 DEF DriverAnswers, DriverExits, Asked, benchVars
  <2> QED
    BY <2>1 DEF VerdictIsExact, PlaceInv, Asking
<1>7. CASE Finish \/ Exits \/ DriverQuits
  <2>1. pc' # "reported"
    BY <1>7, ExitSteps DEF Finish, ContractFails, InExit, DriverQuits, benchVars
  <2> QED
    BY <2>1 DEF VerdictIsExact
<1>8. CASE HeirEnds
  BY <1>2, <1>8 DEF HeirEnds, benchVars, judgeVars, driverVars, VerdictIsExact
<1>6. CASE \/ Spawn \/ Ask \/ Timeout \/ TakeHello \/ TakeInitialized \/ TakePlan \/ TakeReceipt
           \/ TakeClosed \/ Leave
  <2>1. ContractFails \/ Disagrees("selection") \/ Disagrees("receipt") \/ NextTurn
           => pc' # "reported"
    BY DEF ContractFails, Disagrees, NextTurn
  <2>2. CASE Spawn \/ Leave
    BY <2>1, <2>2 DEF Spawn, Leave, VerdictIsExact
  <2>3. CASE Ask
    BY <2>1, <2>3 DEF Ask, VerdictIsExact
  <2>4. CASE Timeout \/ TakeHello \/ TakeInitialized \/ TakeClosed
    BY <2>1, <2>4 DEF Timeout, TakeHello, TakeInitialized, TakeClosed, VerdictIsExact
  <2>5. CASE TakePlan \/ TakeReceipt
    <3>1. \/ ContractFails \/ Disagrees("selection") \/ Disagrees("receipt") \/ NextTurn
          \/ pc' = "receipt"
      BY <2>5 DEF TakePlan, TakeReceipt
    <3> QED
      BY <2>1, <3>1 DEF VerdictIsExact
  <2> QED
    BY <1>6, <2>2, <2>3, <2>4, <2>5
<1> QED
  BY ONLY <1>1, <1>3, <1>4, <1>5, <1>6, <1>7, <1>8 DEF Next, Bench, Exits

LEMMA VerdictInit == Init => PlaceInv /\ CountInv /\ ChannelInv /\ TraceInv /\ VerdictIsExact
<1> SUFFICES ASSUME Init PROVE PlaceInv /\ CountInv /\ ChannelInv /\ TraceInv /\ VerdictIsExact
  OBVIOUS
<1>1. /\ oracle = NewScheduler /\ turn = 1 /\ records = <<>> /\ results = <<>> /\ lines = <<>>
      /\ struck = {} /\ ~awaiting /\ outcome = "passed" /\ mismatches = NoMismatch
      /\ \/ Lane /\ pc = "initialize" /\ process = "running"
         \/ ~Lane /\ pc = "spawn"
  BY DEF Init
<1>2. IsTrace(<<>>, 0) /\ Len(<<>>) = 0 /\ 1..0 = {}
  BY DEF IsTrace
<1>3. PlaceInv
  BY <1>1 DEF PlaceInv
<1>4. CountInv
  BY <1>1, <1>2 DEF CountInv, NoMismatch
<1>5. ChannelInv
  <2>1. Quiet
    BY <1>1 DEF Quiet, Asking
  <2>2. ~Known("contract") /\ ~Known("conformance") /\ ~Counted
    BY <1>1, <1>2 DEF Known, Counted, NoMismatch
  <2> QED
    BY <1>1, <2>1, <2>2 DEF ChannelInv, AtRest, Told
<1>6. TraceInv
  BY <1>1, <1>2 DEF TraceInv, ResultsAlike
<1>7. VerdictIsExact
  BY <1>1 DEF VerdictIsExact
<1> QED
  BY <1>3, <1>4, <1>5, <1>6, <1>7

\* The verdict is exact for every scenario, fault and number of repetitions: it
\* passes when every answer of every repetition was right, and tells a driver
\* that broke the protocol from one that disagreed with the policy
\* (BenchmarkRunner._run_scenario and run, and the gates of the lane).
THEOREM VerdictsAreExact == Spec => []VerdictIsExact
<1> DEFINE I == PlaceInv /\ CountInv /\ ChannelInv /\ TraceInv /\ VerdictIsExact
<1>1. IndInv /\ I /\ [Next]_vars => I'
  BY PlaceStep, CountStep, ChannelStep, TraceStep, VerdictStep DEF IndInv
<1> QED
  BY <1>1, VerdictInit, Invariance, PTL DEF Spec

-----------------------------------------------------------------------------
(* The fairness of the policy, for any set of models, any weights and any     *)
(* sequence of turns, and with it the oracle's.                               *)

USE ChargeAssumption, ModelsAssumption DEF NoModel, Policy!NoModel

\* What two runnable ledgers may differ by after u urgent selections.
Bound(u) == MaxCharge * (1 + u)

LEMMA BoundGrows ==
    ASSUME NEW u \in Nat
    PROVE  /\ Bound(u) \in Int /\ Bound(u) >= 0
           /\ Bound(u + 1) = Bound(u) + MaxCharge
           /\ MaxCharge * u \in Int /\ MaxCharge * u >= 0
           /\ Bound(u) = MaxCharge * u + MaxCharge
<1>1. /\ Bound(u) \in Int /\ Bound(u + 1) = Bound(u) + MaxCharge
      /\ MaxCharge * u \in Int /\ Bound(u) = MaxCharge * u + MaxCharge
  BY DEF Bound
<1>2. MaxCharge * u >= 0
  BY SMT
<1> QED  BY <1>1, <1>2

\* The outstanding selection was fair when it was made: its ledger exceeds no
\* runnable one by more than the urgent selections allow.
SelectedIsFair ==
    oracle.pending.model # Policy!NoModel =>
        /\ oracle.pending.model \in oracle.runnable
        /\ \A n \in oracle.runnable :
              oracle.ledgers[oracle.pending.model] - oracle.ledgers[n] <= MaxCharge * urgents

PolicyInv == Policy!TypeOK /\ Policy!FairSpread /\ SelectedIsFair /\ Policy!BaselineIsLeast

\* The ledgers that an alignment leaves keep the spread they had.
LEMMA AlignmentKeepsSpread ==
    ASSUME Policy!TypeOK, Policy!FairSpread, NEW current \in SUBSET Models,
           Policy!_sync_runnable(current)
    PROVE  /\ oracle'.ledgers \in [Models -> Int] /\ oracle'.runnable = current
           /\ oracle'.baseline \in Int
           /\ \A i, j \in current : oracle'.ledgers[i] - oracle'.ledgers[j] <= Bound(urgents)
           /\ current # {} => oracle'.baseline \in Policy!Least(oracle'.ledgers, current)
           /\ current = {} => oracle'.baseline = oracle.baseline
<1>1. PICK alignment \in IF current \cap oracle.runnable # {}
                         THEN Policy!Least(oracle.ledgers, current \cap oracle.runnable)
                         ELSE {oracle.baseline} :
          /\ oracle'.ledgers = [m \in Models |-> IF m \in current \ oracle.runnable THEN alignment
                                          ELSE oracle.ledgers[m]]
          /\ oracle'.runnable = current
          /\ oracle'.baseline \in IF current = {} THEN {oracle.baseline}
                                  ELSE Policy!Least(oracle'.ledgers, current)
  BY DEF Policy!_sync_runnable
<1>2. alignment \in Int
  BY <1>1 DEF Policy!TypeOK, Policy!Least
<1>3. oracle'.ledgers \in [Models -> Int]
  BY <1>1, <1>2 DEF Policy!TypeOK
<1>4. oracle'.baseline \in Int
  <2>1. CASE current = {}
    BY <1>1, <2>1 DEF Policy!TypeOK
  <2>2. CASE current # {}
    BY <1>1, <1>3, <2>2 DEF Policy!Least
  <2> QED  BY <2>1, <2>2
<1>5. ASSUME NEW i \in current, NEW j \in current
      PROVE  oracle'.ledgers[i] - oracle'.ledgers[j] <= Bound(urgents)
  <2>0. /\ urgents \in Nat /\ Bound(urgents) \in Int /\ Bound(urgents) >= 0
        /\ oracle.ledgers[i] \in Int /\ oracle.ledgers[j] \in Int
    BY BoundGrows DEF Policy!TypeOK
  <2>1. CASE i \in oracle.runnable /\ j \in oracle.runnable
    <3>1. oracle'.ledgers[i] = oracle.ledgers[i] /\ oracle'.ledgers[j] = oracle.ledgers[j]
      BY <1>1, <2>1
    <3> QED  BY <2>1, <3>1 DEF Policy!FairSpread, Bound
  <2>2. CASE i \notin oracle.runnable /\ j \notin oracle.runnable
    BY <1>1, <1>2, <2>0, <2>2
  <2>3. CASE i \notin oracle.runnable /\ j \in oracle.runnable
    <3>1. alignment <= oracle.ledgers[j]
      BY <1>1, <2>3 DEF Policy!Least
    <3>2. oracle'.ledgers[i] = alignment /\ oracle'.ledgers[j] = oracle.ledgers[j]
      BY <1>1, <2>3
    <3> QED  BY <1>2, <2>0, <3>1, <3>2
  <2>4. CASE i \in oracle.runnable /\ j \notin oracle.runnable
    <3>1. PICK k \in current \cap oracle.runnable : alignment = oracle.ledgers[k]
      BY <1>1, <2>4 DEF Policy!Least
    <3>2. oracle'.ledgers[i] = oracle.ledgers[i] /\ oracle'.ledgers[j] = oracle.ledgers[k]
      BY <1>1, <2>4, <3>1
    <3> QED  BY <2>4, <3>1, <3>2 DEF Policy!FairSpread, Bound
  <2> QED  BY <2>1, <2>2, <2>3, <2>4
<1> QED  BY <1>1, <1>3, <1>4, <1>5

LEMMA PolicyInvInit == Policy!Init => PolicyInv
<1> SUFFICES ASSUME Policy!Init PROVE PolicyInv
  OBVIOUS
<1> QED  BY DEF Policy!Init, PolicyInv, Policy!TypeOK, Policy!FairSpread, SelectedIsFair,
                Policy!BaselineIsLeast

LEMMA PolicyFresh == Policy!Fresh => PolicyInv'
<1> SUFFICES ASSUME Policy!Fresh PROVE PolicyInv'
  OBVIOUS
<1> QED  BY DEF Policy!Fresh, PolicyInv, Policy!TypeOK, Policy!FairSpread, SelectedIsFair,
                Policy!BaselineIsLeast

\* A turn is scheduled.
LEMMA PolicySchedule ==
    ASSUME PolicyInv, NEW current \in SUBSET Models, Policy!Schedule(current)
    PROVE  PolicyInv'
<1>1. /\ oracle'.ledgers \in [Models -> Int] /\ oracle'.runnable = current
      /\ oracle'.baseline \in Int
      /\ \A i, j \in current : oracle'.ledgers[i] - oracle'.ledgers[j] <= Bound(urgents)
      /\ current # {} => oracle'.baseline \in Policy!Least(oracle'.ledgers, current)
  BY AlignmentKeepsSpread DEF PolicyInv, Policy!Schedule
<1>2. urgents \in Nat
  BY DEF PolicyInv, Policy!TypeOK
<1>3. /\ Bound(urgents) \in Int /\ Bound(urgents) >= 0
      /\ Bound(urgents + 1) = Bound(urgents) + MaxCharge
      /\ MaxCharge * urgents \in Int /\ MaxCharge * urgents >= 0
      /\ Bound(urgents) = MaxCharge * urgents + MaxCharge
  BY <1>2, BoundGrows
<1>4. \A m \in current : oracle'.ledgers[m] \in Int
  BY <1>1
<1>5. Policy!BaselineIsLeast'
  BY <1>1 DEF Policy!BaselineIsLeast
<1>6. CASE current = {} /\ UNCHANGED <<oracle.pending.model, urgents>>
  <2>1. oracle'.pending.model = Policy!NoModel
    BY <1>6 DEF Policy!Schedule
  <2> QED  BY <1>1, <1>2, <1>5, <1>6, <2>1
              DEF PolicyInv, Policy!TypeOK, Policy!FairSpread, SelectedIsFair
<1>7. ASSUME NEW m \in current, oracle'.ledgers[m] \in Policy!Least(oracle'.ledgers, current),
             oracle'.pending.model = m, UNCHANGED urgents
      PROVE  PolicyInv'
  <2>1. Policy!FairSpread'
    BY <1>1, <1>7 DEF Policy!FairSpread, Bound
  <2>2. SelectedIsFair'
    <3>1. \A n \in current : oracle'.ledgers[m] <= oracle'.ledgers[n]
      BY <1>7 DEF Policy!Least
    <3> QED  BY <1>1, <1>3, <1>4, <1>7, <3>1 DEF SelectedIsFair
  <2>3. Policy!TypeOK'
    BY <1>1, <1>2, <1>7 DEF Policy!TypeOK
  <2> QED  BY <1>5, <2>1, <2>2, <2>3 DEF PolicyInv
<1>8. ASSUME NEW m \in current, oracle'.pending.model = m, urgents' = urgents + 1
      PROVE  PolicyInv'
  <2>1. Policy!FairSpread'
    <3>1. \A i, j \in current : oracle'.ledgers[i] - oracle'.ledgers[j] <= Bound(urgents + 1)
      BY <1>1, <1>3, <1>4
    <3> QED  BY <1>1, <1>8, <3>1 DEF Policy!FairSpread, Bound
  <2>2. SelectedIsFair'
    <3>1. MaxCharge * (urgents + 1) = Bound(urgents)
      BY <1>2 DEF Bound
    <3> QED  BY <1>1, <1>8, <3>1 DEF SelectedIsFair
  <2>3. Policy!TypeOK'
    BY <1>1, <1>2, <1>8 DEF Policy!TypeOK
  <2> QED  BY <1>5, <2>1, <2>2, <2>3 DEF PolicyInv
<1> QED  BY <1>6, <1>7, <1>8 DEF Policy!Schedule

\* The ledgers l after a charge to model p.
Charged(l, p, spent) == [l EXCEPT ![p] = @ + spent]

\* A charge to the model that has the least ledger, but for the urgent selections,
\* keeps the spread and lowers no ledger.
LEMMA ChargedLedgers ==
    ASSUME NEW l \in [Models -> Int], NEW R \in SUBSET Models, NEW p \in R,
           NEW spent \in 1..MaxCharge, NEW u \in Nat,
           \A i, j \in R : l[i] - l[j] <= Bound(u),
           \A j \in R : l[p] - l[j] <= MaxCharge * u
    PROVE  /\ Charged(l, p, spent) \in [Models -> Int]
           /\ \A i, j \in R : Charged(l, p, spent)[i] - Charged(l, p, spent)[j] <= Bound(u)
           /\ \A j \in R : Charged(l, p, spent)[j] >= l[j]
<1> DEFINE paid == Charged(l, p, spent)
<1>1. /\ spent \in Nat /\ spent <= MaxCharge /\ MaxCharge \in Nat
      /\ Bound(u) \in Nat /\ MaxCharge * u \in Nat /\ Bound(u) = MaxCharge * u + MaxCharge
  BY BoundGrows, ChargeAssumption
<1>2. /\ paid \in [Models -> Int]
      /\ \A j \in R : paid[j] = IF j = p THEN l[j] + spent ELSE l[j]
  BY <1>1 DEF Charged
<1> HIDE DEF paid
<1>3. ASSUME NEW i \in R, NEW j \in R PROVE paid[i] - paid[j] <= Bound(u)
  <2>1. l[i] \in Int /\ l[j] \in Int /\ l[p] \in Int
    OBVIOUS
  <2>2. CASE i = p
    BY <1>1, <1>2, <2>1, <2>2
  <2>3. CASE i # p
    BY <1>1, <1>2, <2>1, <2>3
  <2> QED  BY <2>2, <2>3
<1>4. \A j \in R : paid[j] >= l[j]
  BY <1>1, <1>2
<1> QED  BY <1>2, <1>3, <1>4 DEF paid

\* The least ledger of a charged set is not less than the least before.
LEMMA LeastGrows ==
    ASSUME NEW l \in [Models -> Int], NEW R \in SUBSET Models, NEW b \in Int,
           \A j \in R : b <= l[j],
           NEW paid \in [Models -> Int], \A j \in R : paid[j] >= l[j],
           NEW least, least \in Policy!Least(paid, R)
    PROVE  least \in Int /\ least >= b
  BY DEF Policy!Least

\* A receipt is charged to the model it is for: the policy state after it.
LEMMA PolicyReceipt ==
    ASSUME PolicyInv, NEW spent \in 1..MaxCharge, Policy!accept_receipt(spent)
    PROVE  PolicyInv' /\ oracle'.baseline >= oracle.baseline
<1>1. /\ oracle.ledgers \in [Models -> Int] /\ oracle.runnable \in SUBSET Models
      /\ oracle.baseline \in Int /\ urgents \in Nat
      /\ oracle.pending.model \in oracle.runnable
  BY DEF PolicyInv, Policy!TypeOK, SelectedIsFair, Policy!accept_receipt
<1>2. /\ oracle'.ledgers = Charged(oracle.ledgers, oracle.pending.model, spent)
      /\ oracle'.runnable = oracle.runnable /\ urgents' = urgents
      /\ oracle'.pending.model = Policy!NoModel
      /\ oracle'.baseline \in Policy!Least(oracle'.ledgers, oracle.runnable)
  BY DEF Policy!accept_receipt, Charged
<1>3. \A i, j \in oracle.runnable : oracle.ledgers[i] - oracle.ledgers[j] <= Bound(urgents)
  BY DEF PolicyInv, Policy!FairSpread, Bound
<1>4. \A j \in oracle.runnable :
          oracle.ledgers[oracle.pending.model] - oracle.ledgers[j] <= MaxCharge * urgents
  BY <1>1 DEF PolicyInv, SelectedIsFair, Policy!accept_receipt
<1>5. /\ oracle'.ledgers \in [Models -> Int]
      /\ \A i, j \in oracle.runnable : oracle'.ledgers[i] - oracle'.ledgers[j] <= Bound(urgents)
      /\ \A j \in oracle.runnable : oracle'.ledgers[j] >= oracle.ledgers[j]
  <2> DEFINE paid == Charged(oracle.ledgers, oracle.pending.model, spent)
  <2>1. /\ paid \in [Models -> Int]
        /\ \A i, j \in oracle.runnable : paid[i] - paid[j] <= Bound(urgents)
        /\ \A j \in oracle.runnable : paid[j] >= oracle.ledgers[j]
    BY <1>1, <1>3, <1>4, ChargedLedgers, Zenon
  <2> QED  BY <1>2, <2>1, Zenon
<1>6. \A j \in oracle.runnable : oracle.baseline <= oracle.ledgers[j]
  BY DEF PolicyInv, Policy!BaselineIsLeast, Policy!Least
<1>7. oracle'.baseline \in Int /\ oracle'.baseline >= oracle.baseline
  BY <1>1, <1>2, <1>5, <1>6, LeastGrows, Zenon
<1>8. Policy!FairSpread'
  BY <1>2, <1>5 DEF Policy!FairSpread, Bound
<1> QED  BY <1>1, <1>2, <1>5, <1>7, <1>8
            DEF PolicyInv, Policy!TypeOK, SelectedIsFair, Policy!BaselineIsLeast

LEMMA PolicyInvStep == PolicyInv /\ [Policy!Next]_(Policy!vars) => PolicyInv'
<1> SUFFICES ASSUME PolicyInv, [Policy!Next]_(Policy!vars) PROVE PolicyInv'
  OBVIOUS
<1>1. CASE UNCHANGED Policy!vars
  BY <1>1 DEF Policy!vars, PolicyInv, Policy!TypeOK, Policy!FairSpread, SelectedIsFair,
              Policy!BaselineIsLeast, Policy!Least
<1>2. CASE Policy!Next
  BY <1>2, PolicyFresh, PolicySchedule, PolicyReceipt DEF Policy!Next
<1> QED  BY <1>1, <1>2

\* The invariant of the policy holds throughout.
LEMMA PolicyInvariance == Policy!Spec => []PolicyInv
  BY PolicyInvInit, PolicyInvStep, PTL DEF Policy!Spec

\* A step other than a new oracle never lowers the baseline.
LEMMA PolicyBaselineStep ==
    PolicyInv /\ [Policy!Next]_(Policy!vars) =>
        [Policy!Fresh \/ oracle'.baseline >= oracle.baseline]_(Policy!vars)
<1> SUFFICES ASSUME PolicyInv, Policy!Next PROVE Policy!Fresh \/ oracle'.baseline >= oracle.baseline
  OBVIOUS
<1>0. /\ oracle.baseline \in Int /\ oracle.ledgers \in [Models -> Int]
      /\ oracle.runnable \subseteq Models
  BY DEF PolicyInv, Policy!TypeOK
<1>1. ASSUME NEW current \in SUBSET Models, Policy!Schedule(current)
      PROVE  oracle'.baseline >= oracle.baseline
  <2>1. PICK alignment \in IF current \cap oracle.runnable # {}
                           THEN Policy!Least(oracle.ledgers, current \cap oracle.runnable)
                           ELSE {oracle.baseline} :
            /\ oracle'.ledgers = [m \in Models |-> IF m \in current \ oracle.runnable THEN alignment
                                            ELSE oracle.ledgers[m]]
            /\ oracle'.baseline \in IF current = {} THEN {oracle.baseline}
                                  ELSE Policy!Least(oracle'.ledgers, current)
    BY <1>1 DEF Policy!Schedule, Policy!_sync_runnable
  <2>2. \A m \in oracle.runnable : oracle.baseline <= oracle.ledgers[m]
    BY DEF PolicyInv, Policy!BaselineIsLeast, Policy!Least
  <2>3. alignment \in Int /\ alignment >= oracle.baseline
    BY <1>0, <2>1, <2>2 DEF Policy!Least
  <2>4. CASE current = {}
    BY <1>0, <2>1, <2>4
  <2>5. CASE current # {}
    <3>1. PICK m \in current : oracle'.baseline = oracle'.ledgers[m]
      BY <2>1, <2>5 DEF Policy!Least
    <3>2. CASE m \in oracle.runnable
      BY <1>0, <2>1, <2>2, <3>1, <3>2
    <3>3. CASE m \notin oracle.runnable
      BY <1>0, <2>1, <2>3, <3>1, <3>3
    <3> QED  BY <3>2, <3>3
  <2> QED  BY <2>4, <2>5
<1> QED  BY <1>1, PolicyReceipt DEF Policy!Next

\* Weighted fairness of the oracle in core.py: the ledgers it keeps of two models
\* runnable in the same turn are never further apart than one turn's charge, and
\* one more for every urgent selection.
THEOREM OracleIsFair == Spec => []Policy!FairSpread
<1>1. PolicyInv => Policy!FairSpread
  BY DEF PolicyInv
<1> QED
  BY <1>1, OracleKeepsPolicy, PolicyInvariance, PTL DEF PolicyKept

\* The baseline the oracle keeps is the least ledger of a runnable model
\* (SchedulerOracle.sync_runnable and accept_receipt).
THEOREM OracleBaseline == Spec => []Policy!BaselineIsLeast
<1>1. PolicyInv => Policy!BaselineIsLeast
  BY DEF PolicyInv
<1> QED
  BY <1>1, OracleKeepsPolicy, PolicyInvariance, PTL DEF PolicyKept

\* A model that was idle never comes back below what the others had reached:
\* within a repetition the baseline it is aligned to never falls.
THEOREM OracleBanksNoCredit == Spec => Policy!NoBankedCredit
<1>1. PolicyInv /\ [Policy!Next]_(Policy!vars) =>
          [Policy!Fresh \/ (oracle.baseline)' >= oracle.baseline]_(Policy!vars)
  BY PolicyBaselineStep
<1> QED
  BY <1>1, OracleKeepsPolicy, PolicyInvariance, PTL
     DEF PolicyKept, Policy!Spec, Policy!NoBankedCredit
=============================================================================
