-------------------------- MODULE BrokerRuns_proofs --------------------------
(***************************************************************************)
(* Proofs about the broker's work and the delivery of its answers, for any  *)
(* number of clients, sessions, runs and requests.                          *)
(*                                                                          *)
(* RunsOK(s) is the invariant of the work of a broker value, beside Good(s) *)
(* of its authority.  Goes(n, s) says that n is a good value later than s;  *)
(* each internal operator is shown to go on like that once, and a method is *)
(* the chain it is.  ChannelOK is the invariant of one connection beside a  *)
(* broker value.                                                            *)
(***************************************************************************)
EXTENDS Broker_proofs, BrokerDelivery

-----------------------------------------------------------------------------
(* Sums over finite sets. *)

\* Some subsets of a finite set, and one of them that includes no other.
Family(F, S) == IsFiniteSet(S) /\ F \subseteq SUBSET S /\ F # {}
HasMinimal(F) == \E T \in F : \A U \in F : U \subseteq T => U = T

\* There is such a one: the induction on which the facts about sums rest.
LEMMA MinimalSubset == \A Bad, S : Family(Bad, S) => HasMinimal(Bad)
<1> SUFFICES ASSUME NEW S, NEW Bad, Family(Bad, S)
             PROVE  \E T \in Bad : \A U \in Bad : U \subseteq T => U = T
  BY DEF HasMinimal
<1>0. IsFiniteSet(S) /\ Bad \subseteq SUBSET S /\ Bad # {}
  BY DEF Family
<1>1. IsWellFoundedOn(StrictSubsetOrdering(S), SUBSET S)
  BY <1>0, FS_StrictSubsetOrderingWellFounded, FS_FiniteSubsetsOfFinite
<1>2. PICK T \in Bad : \A U \in Bad : ~(<<U, T>> \in StrictSubsetOrdering(S))
  BY <1>0, <1>1, WFMin
<1>3. ASSUME NEW U \in Bad, U \subseteq T, U # T PROVE FALSE
  <2>1. <<U, T>> \in StrictSubsetOrdering(S)
    BY <1>0, <1>3 DEF StrictSubsetOrdering
  <2> QED
    BY <1>2, <2>1
<1> QED
  BY <1>2, <1>3

\* The function whose value at S is the sum of f over S.
First(T) == CHOOSE x \in T : TRUE
Adds(f, S, it) ==
    it = [T \in SUBSET S |-> IF T = {} THEN 0 ELSE f[First(T)] + it[T \ {First(T)}]]

Total(f, S) == SumFunctionOnSet(f, S)

LEMMA SumIsIterated ==
    ASSUME NEW f, NEW S PROVE Total(f, S) = (CHOOSE it : Adds(f, S, it))[S]
BY Zenon DEF Total, SumFunctionOnSet, FoldFunctionOnSet, MapThenFoldSet, Adds, First

LEMMA AddsValue ==
    ASSUME NEW f, NEW S, NEW it, Adds(f, S, it), NEW T \in SUBSET S
    PROVE  it[T] = IF T = {} THEN 0 ELSE f[First(T)] + it[T \ {First(T)}]
<1>1. it = [U \in SUBSET S |-> IF U = {} THEN 0 ELSE f[First(U)] + it[U \ {First(U)}]]
  BY DEF Adds
<1> QED
  BY <1>1

\* The first of a set is one of it.
LEMMA FirstIsIn ==
    ASSUME NEW T, T # {} PROVE First(T) \in T
BY DEF First

\* Two such functions agree where both are defined.
LEMMA AddsAgree ==
    ASSUME NEW f, NEW S, NEW it, Adds(f, S, it), NEW R, NEW jt, Adds(f, R, jt),
           NEW U, U \subseteq S, U \subseteq R, IsFiniteSet(U)
    PROVE  it[U] = jt[U]
<1> DEFINE Bad == {T \in SUBSET U : it[T] # jt[T]}
<1> SUFFICES ASSUME Bad # {} PROVE FALSE
  OBVIOUS
<1>0. Family(Bad, U)
  BY DEF Family
<1>1. PICK T \in Bad : \A V \in Bad : V \subseteq T => V = T
  <2> HIDE DEF Bad
  <2> QED
    BY <1>0, MinimalSubset DEF HasMinimal
<1>2. T \in SUBSET U /\ T \in SUBSET S /\ T \in SUBSET R /\ it[T] # jt[T]
  BY <1>1
<1>3. CASE T = {}
  BY <1>2, <1>3, AddsValue
<1>4. CASE T # {}
  <2>1. First(T) \in T
    BY <1>4, FirstIsIn
  <2>2. T \ {First(T)} \subseteq T /\ T \ {First(T)} # T
    BY <2>1
  <2>3. it[T \ {First(T)}] = jt[T \ {First(T)}]
    BY <1>1, <1>2, <2>2
  <2>4. it[T] = f[First(T)] + it[T \ {First(T)}] /\ jt[T] = f[First(T)] + jt[T \ {First(T)}]
    BY <1>2, <1>4, AddsValue
  <2> QED
    BY <1>2, <2>3, <2>4
<1> QED
  BY <1>3, <1>4

\* There is such a function on every finite set.
LEMMA AddsExists ==
    ASSUME NEW f, NEW S, IsFiniteSet(S) PROVE \E it : Adds(f, S, it)
<1> DEFINE Bad == {T \in SUBSET S : ~\E it : Adds(f, T, it)}
<1> SUFFICES ASSUME Bad # {} PROVE FALSE
  OBVIOUS
<1>0. Family(Bad, S)
  BY DEF Family
<1>1. PICK T \in Bad : \A V \in Bad : V \subseteq T => V = T
  <2> HIDE DEF Bad
  <2> QED
    BY <1>0, MinimalSubset DEF HasMinimal
<1>2. T \in SUBSET S /\ ~\E it : Adds(f, T, it)
  BY <1>1
<1>3. \A V \in SUBSET T : V # T => \E it : Adds(f, V, it)
  BY <1>1, <1>2
<1> DEFINE G(V) == (CHOOSE it : Adds(f, V, it))[V]
           jt == [V \in SUBSET T |-> IF V = {} THEN 0 ELSE f[First(V)] + G(V \ {First(V)})]
<1> HIDE DEF Bad
<1>4. ASSUME NEW V \in SUBSET T, V # T PROVE jt[V] = G(V)
  <2> DEFINE it == CHOOSE x : Adds(f, V, x)
  <2>1. Adds(f, V, it)
    BY <1>3, <1>4
  <2>2. it[V] = IF V = {} THEN 0 ELSE f[First(V)] + it[V \ {First(V)}]
    BY <2>1, AddsValue
  <2>3. CASE V = {}
    BY <2>2, <2>3
  <2>4. CASE V # {}
    <3> DEFINE W == V \ {First(V)}
    <3>1. First(V) \in V
      BY <2>4, FirstIsIn
    <3>2. W \in SUBSET T /\ W # T /\ W \subseteq V
      BY <3>1
    <3>3. Adds(f, W, CHOOSE x : Adds(f, W, x))
      BY <1>3, <3>2
    <3>4. IsFiniteSet(W)
      BY <1>2, <3>2, FS_Subset
    <3>5. it[W] = G(W)
      BY <2>1, <3>2, <3>3, <3>4, AddsAgree
    <3> QED
      BY <2>2, <2>4, <3>5
  <2> QED
    BY <2>3, <2>4
<1>5. ASSUME NEW V \in SUBSET T PROVE jt[V] = IF V = {} THEN 0 ELSE f[First(V)] + jt[V \ {First(V)}]
  <2>1. CASE V = {}
    BY <2>1
  <2>2. CASE V # {}
    <3>1. First(V) \in V
      BY <2>2, FirstIsIn
    <3>2. V \ {First(V)} \in SUBSET T /\ V \ {First(V)} # T
      BY <3>1
    <3>3. jt[V \ {First(V)}] = G(V \ {First(V)})
      BY <1>4, <3>2
    <3>4. jt[V] = f[First(V)] + G(V \ {First(V)})
      BY <2>2
    <3> QED
      BY <2>2, <3>3, <3>4
  <2> QED
    BY <2>1, <2>2
<1>6. jt = [V \in SUBSET T |-> jt[V]]
  OBVIOUS
<1> HIDE DEF G, jt
<1>7. jt = [V \in SUBSET T |-> IF V = {} THEN 0 ELSE f[First(V)] + jt[V \ {First(V)}]]
  BY <1>5, <1>6
<1>8. Adds(f, T, jt)
  BY <1>7 DEF Adds
<1> QED
  BY <1>2, <1>8

\* The sum is what the recursion says.
LEMMA SumUnfolds ==
    ASSUME NEW f, NEW S, IsFiniteSet(S)
    PROVE  Total(f, S) = IF S = {} THEN 0 ELSE f[First(S)] + Total(f, S \ {First(S)})
<1> DEFINE it == CHOOSE x : Adds(f, S, x)
           T == S \ {First(S)}
           jt == CHOOSE x : Adds(f, T, x)
<1>1. Adds(f, S, it) /\ IsFiniteSet(T)
  BY AddsExists, FS_Subset
<1>2. Adds(f, T, jt)
  BY <1>1, AddsExists
<1>3. Total(f, S) = it[S] /\ Total(f, T) = jt[T]
  BY SumIsIterated
<1> HIDE DEF it, jt
<1>4. it[T] = jt[T]
  BY <1>1, <1>2, AddsAgree
<1>5. it[S] = IF S = {} THEN 0 ELSE f[First(S)] + it[T]
  BY <1>1, AddsValue
<1> QED
  BY <1>3, <1>4, <1>5

\* The sum of nothing.
LEMMA SumOfNone == \A f : Total(f, {}) = 0
BY SumUnfolds, FS_EmptySet

\* A sum of numbers is a number, and any of them can be taken out.
LEMMA SumTakesOut ==
    ASSUME NEW f, NEW S, IsFiniteSet(S), \A x \in S : f[x] \in Nat
    PROVE  Total(f, S) \in Nat /\ \A x \in S : Total(f, S) = f[x] + Total(f, S \ {x})
<1> DEFINE Fine(T) == Total(f, T) \in Nat /\ \A x \in T : Total(f, T) = f[x] + Total(f, T \ {x})
           Bad == {T \in SUBSET S : ~Fine(T)}
<1> SUFFICES ASSUME Bad # {} PROVE FALSE
  OBVIOUS
<1>0. Family(Bad, S)
  BY DEF Family
<1>1. PICK T \in Bad : \A V \in Bad : V \subseteq T => V = T
  <2> HIDE DEF Bad
  <2> QED
    BY <1>0, MinimalSubset DEF HasMinimal
<1>2. T \in SUBSET S /\ ~Fine(T) /\ IsFiniteSet(T)
  BY <1>1, FS_Subset
<1>3. \A V \in SUBSET T : V # T => Fine(V)
  BY <1>1, <1>2
<1> HIDE DEF Bad, Fine
<1>4. CASE T = {}
  BY <1>2, <1>4, SumOfNone DEF Fine
<1>5. CASE T # {}
  <2> DEFINE y == First(T)
             V == T \ {y}
  <2>1. y \in T /\ V \in SUBSET T /\ V # T
    BY <1>5, FirstIsIn
  <2>2. Total(f, T) = f[y] + Total(f, V) /\ Fine(V)
    BY <1>2, <1>3, <1>5, <2>1, SumUnfolds
  <2> HIDE DEF y, V
  <2>3. Total(f, V) \in Nat /\ f[y] \in Nat
    BY <1>2, <2>1, <2>2 DEF Fine
  <2>4. Total(f, T) \in Nat
    BY <2>2, <2>3
  <2>5. ASSUME NEW x \in T, x # y PROVE Total(f, T) = f[x] + Total(f, T \ {x})
    <3> DEFINE W == T \ {x}
    <3>1. x \in V /\ y \in W /\ W \in SUBSET T /\ W # T /\ V \ {x} = W \ {y}
      BY <2>1, <2>5 DEF V
    <3>2. Fine(W)
      BY <1>3, <3>1
    <3>3. Total(f, V) = f[x] + Total(f, V \ {x}) /\ Total(f, W) = f[y] + Total(f, W \ {y})
      BY <2>2, <3>1, <3>2 DEF Fine
    <3>4. V \ {x} \in SUBSET T /\ V \ {x} # T
      BY <2>1, <3>1
    <3>5. Total(f, V \ {x}) \in Nat
      BY <1>3, <3>4 DEF Fine
    <3>6. f[x] \in Nat
      BY <1>2, <2>5
    <3>7. Total(f, W \ {y}) = Total(f, V \ {x})
      BY <3>1
    <3>8. Total(f, W) = f[y] + Total(f, V \ {x})
      BY <3>3, <3>7
    <3> DEFINE a == Total(f, V \ {x})
               w == Total(f, W)
    <3> HIDE DEF a, w
    <3>9. a \in Nat /\ w = f[y] + a /\ Total(f, V) = f[x] + a
      BY <3>3, <3>5, <3>8 DEF a, w
    <3>10. Total(f, T) = f[x] + w
      BY <2>2, <2>3, <3>6, <3>9
    <3> QED
      BY <3>10 DEF w
  <2>6. \A x \in T : Total(f, T) = f[x] + Total(f, T \ {x})
    BY <2>2, <2>5 DEF V
  <2> QED
    BY <1>2, <2>4, <2>6 DEF Fine
<1> QED
  BY <1>4, <1>5

\* What adds something to a sum over S occurs in the other sum, and is no larger.
LEMMA SumIsBounded ==
    ASSUME NEW f, NEW S, NEW g, NEW R, IsFiniteSet(S), IsFiniteSet(R),
           \A x \in S : f[x] \in Nat, \A x \in R : g[x] \in Nat,
           \A x \in S : f[x] = 0 \/ (x \in R /\ f[x] <= g[x])
    PROVE  Total(f, S) <= Total(g, R)
<1> DEFINE Fine(T) == \A U \in SUBSET R : T \cap R \subseteq U => Total(f, T) <= Total(g, U)
           Bad == {T \in SUBSET S : ~Fine(T)}
<1> SUFFICES ASSUME Bad # {} PROVE FALSE
  OBVIOUS
<1>0. Family(Bad, S)
  BY DEF Family
<1>1. PICK T \in Bad : \A V \in Bad : V \subseteq T => V = T
  <2> HIDE DEF Bad
  <2> QED
    BY <1>0, MinimalSubset DEF HasMinimal
<1>2. T \in SUBSET S /\ ~Fine(T) /\ IsFiniteSet(T)
  BY <1>1, FS_Subset
<1>3. \A V \in SUBSET T : V # T => Fine(V)
  BY <1>1, <1>2
<1>4. PICK U \in SUBSET R : T \cap R \subseteq U /\ ~(Total(f, T) <= Total(g, U))
  BY <1>2
<1> HIDE DEF Bad
<1>5. IsFiniteSet(U) /\ Total(g, U) \in Nat
  BY FS_Subset, SumTakesOut
<1>6. CASE T = {}
  BY <1>4, <1>5, <1>6, SumOfNone
<1>7. ASSUME NEW x \in T PROVE FALSE
  <2> DEFINE V == T \ {x}
  <2>1. Total(f, T) = f[x] + Total(f, V) /\ Total(f, T) \in Nat /\ f[x] \in Nat
    BY <1>2, SumTakesOut
  <2>2. Fine(V) /\ IsFiniteSet(V) /\ V \in SUBSET S
    BY <1>2, <1>3, FS_Subset
  <2>3. Total(f, V) \in Nat
    BY <2>2, SumTakesOut
  <2>4. CASE f[x] = 0
    <3>1. Total(f, V) <= Total(g, U)
      BY <1>4, <2>2
    <3> QED
      BY <1>4, <2>1, <2>3, <2>4, <3>1
  <2>5. CASE f[x] # 0
    <3>1. x \in U /\ f[x] <= g[x] /\ g[x] \in Nat
      BY <1>2, <1>4, <2>5
    <3>2. Total(g, U) = g[x] + Total(g, U \ {x})
      BY <1>5, <3>1, SumTakesOut
    <3>3. Total(g, U \ {x}) \in Nat
      BY <1>5, SumTakesOut, FS_Subset
    <3>4. Total(f, V) <= Total(g, U \ {x})
      BY <1>4, <2>2
    <3> QED
      BY <1>4, <2>1, <2>3, <3>1, <3>2, <3>3, <3>4
  <2> QED
    BY <2>4, <2>5
<1> QED
  BY <1>6, <1>7

\* One term may be larger by one.
LEMMA SumGrowsByOne ==
    ASSUME NEW f, NEW S, NEW g, NEW R, IsFiniteSet(S), IsFiniteSet(R),
           \A x \in S : f[x] \in Nat, \A x \in R : g[x] \in Nat,
           NEW y \in S, y \in R => f[y] <= g[y] + 1, y \notin R => f[y] <= 1,
           \A x \in S \ {y} : f[x] = 0 \/ (x \in R /\ f[x] <= g[x])
    PROVE  Total(f, S) <= Total(g, R) + 1
<1> DEFINE T == S \ {y}
           U == R \ {y}
<1>1. IsFiniteSet(T) /\ IsFiniteSet(U)
  BY FS_Subset
<1>2. Total(f, S) = f[y] + Total(f, T) /\ f[y] \in Nat /\ Total(f, T) \in Nat
  BY <1>1, SumTakesOut
<1>3. Total(g, R) \in Nat /\ Total(g, U) \in Nat
  BY <1>1, SumTakesOut
<1>4. Total(f, T) <= Total(g, U)
  BY <1>1, SumIsBounded
<1>5. CASE y \in R
  <2>1. Total(g, R) = g[y] + Total(g, U) /\ g[y] \in Nat
    BY <1>5, SumTakesOut
  <2> QED
    BY <1>2, <1>3, <1>4, <1>5, <2>1
<1>6. CASE y \notin R
  <2>1. U = R
    BY <1>6
  <2> QED
    BY <1>2, <1>3, <1>4, <1>6, <2>1
<1> QED
  BY <1>5, <1>6

\* The same facts, with their hypotheses under a name.
Summable(f, S) == IsFiniteSet(S) /\ \A x \in S : f[x] \in Nat
NoMore(f, S, g, R) == \A x \in S : f[x] = 0 \/ (x \in R /\ f[x] <= g[x])

LEMMA TotalIsNumber == \A f, S : Summable(f, S) => Total(f, S) \in Nat
BY SumTakesOut DEF Summable

LEMMA TotalIsBounded ==
    \A f, S, g, R : Summable(f, S) /\ Summable(g, R) /\ NoMore(f, S, g, R) => Total(f, S) <= Total(g, R)
<1> SUFFICES ASSUME NEW f, NEW S, NEW g, NEW R, Summable(f, S), Summable(g, R), NoMore(f, S, g, R)
             PROVE  Total(f, S) <= Total(g, R)
  OBVIOUS
<1> QED
  BY SumIsBounded DEF Summable, NoMore

OneMore(f, S, g, R, y) ==
    /\ y \in S /\ (y \in R => f[y] <= g[y] + 1) /\ (y \notin R => f[y] <= 1)
    /\ \A x \in S \ {y} : f[x] = 0 \/ (x \in R /\ f[x] <= g[x])

LEMMA TotalGrowsByOne ==
    \A f, S, g, R, y : Summable(f, S) /\ Summable(g, R) /\ OneMore(f, S, g, R, y)
                          => Total(f, S) <= Total(g, R) + 1
<1> SUFFICES ASSUME NEW f, NEW S, NEW g, NEW R, NEW y, Summable(f, S), Summable(g, R), OneMore(f, S, g, R, y)
             PROVE  Total(f, S) <= Total(g, R) + 1
  OBVIOUS
<1> QED
  BY SumGrowsByOne DEF Summable, OneMore

-----------------------------------------------------------------------------
(* The inductive invariant of runs, requests, leases and receipts. *)

RunFields == {"connection", "slot", "parent", "kind", "epoch", "scope", "target", "sources",
              "controls", "deadline", "budget", "usage", "state", "started", "prepared", "effects"}
RequestFields == {"id", "run", "operation", "ref", "lease", "committed"}

\* Runs form trees of at most three levels; a run below another is a workflow of
\* the same client, younger than its parent, and running only while that is.
RunOK(s, r) ==
    LET run == s.runs[r]
    IN  /\ r \in Nat /\ 0 < r /\ r <= s.minted.run
        /\ DOMAIN run = RunFields /\ run.state \in RunStates /\ run.deadline \in Nat
        /\ run.budget \in Nat /\ run.usage \in 1 .. run.budget
        /\ \A p, q \in run.parent : p = q
        /\ \A p \in run.parent :
              /\ p \in DOMAIN s.runs /\ p < r
              /\ s.runs[p].connection = run.connection
              /\ \A q \in s.runs[p].parent : s.runs[q].parent = {}
              /\ run.state = "Running" => s.runs[p].state = "Running"
        /\ run.parent # {} => run.kind = "Workflow"
        /\ run.started # {} => run.kind = "WorkflowStart"

TreeOK(s) == s.global \in 0 .. GlobalBudget /\ \A r \in DOMAIN s.runs : RunOK(s, r)

\* Grants are told apart by their epochs, and a client that has left does not
\* come back.
EpochsOK(s) ==
    /\ \A g \in s.grants : g.epoch \in Nat /\ g.epoch <= s.minted.grant /\ g.expires \in Nat
    /\ \A g, h \in s.grants : g.epoch = h.epoch => g = h
    /\ s.principals \cap s.retired = {}

\* What a running run may do lies within the grant it was admitted under.
Covers(g, run) ==
    /\ g.connection = run.connection /\ g.slot = run.slot
    /\ g.epoch = run.epoch /\ run.deadline <= g.expires
    /\ run.sources \subseteq g.sources /\ run.controls \subseteq g.controls

CoveredOK(s) ==
    \A r \in DOMAIN s.runs : s.runs[r].state = "Running" => \E g \in s.grants : Covers(g, s.runs[r])

RequestOK(s, q) ==
    /\ DOMAIN q = RequestFields /\ q.operation \in Operations
    /\ q.id \in Nat /\ q.id <= s.minted.request
    /\ q.run \in DOMAIN s.runs /\ s.runs[q.run].state = "Running"

RequestsOK(s) ==
    /\ \A q \in s.requests : RequestOK(s, q)
    /\ \A q, u \in s.requests : q.id = u.id => q = u

LeaseOK(s, x, w) ==
    /\ w.run \in DOMAIN s.runs /\ s.runs[w.run].state = "Running"
    /\ Ref(x, s.targets[x].generation) \in s.runs[w.run].scope.controls
    /\ w.epoch = s.targets[x].epoch

LeasesOK(s) == \A x \in DOMAIN s.targets : \A w \in s.targets[x].writer : LeaseOK(s, x, w)

\* A receipt stands for a retained run of its client; what a call has started
\* is receipted, and has ended if the call was cancelled.
StartsOK(s) ==
    /\ \A y \in s.starts : /\ y.run \in DOMAIN s.runs
                           /\ s.runs[y.run].connection = y.connection
                           /\ s.runs[y.run].kind = "Workflow"
    /\ \A y, z \in s.starts : y.connection = z.connection /\ y.key = z.key => y = z
    /\ \A r \in DOMAIN s.runs : \A x \in s.runs[r].started :
          /\ \E y \in s.starts : y.connection = s.runs[r].connection /\ y.run = x.run
          /\ s.runs[r].state = "Cancelled" => s.runs[x.run].state # "Running"

\* An ended run delivers nothing more below it, and nothing of its own unless it
\* completed.
DeliveryOK(s) ==
    \A r \in DOMAIN s.runs :
        /\ s.runs[r].state # "Running" => r \in s.detached
        /\ s.runs[r].state \notin {"Running", "Completed"} => r \in s.undelivered

\* What the runs below a run, the runs a grant was spent on, and the grants of a
\* client have used.
Uses(s) == [r \in DOMAIN s.runs |-> s.runs[r].usage]
Costs(s) == [g \in s.grants |-> g.usage]
Children(s, r) == {x \in DOMAIN s.runs : r \in s.runs[x].parent}
Roots(s, g) == {x \in DOMAIN s.runs : /\ s.runs[x].connection = g.connection /\ s.runs[x].slot = g.slot
                                      /\ s.runs[x].epoch = g.epoch /\ s.runs[x].parent = {}}

\* Every account covers the accounts below it.  A grant that is new has an epoch
\* no run has.
BudgetsOK(s) ==
    /\ IsFiniteSet(s.grants) /\ (\A g \in s.grants : g.usage \in Nat)
    /\ \A c \in Connections : s.usage[c] \in Nat
    /\ \A r \in DOMAIN s.runs : s.runs[r].epoch \in Nat /\ s.runs[r].epoch <= s.minted.grant
    /\ \A r \in DOMAIN s.runs : Total(Uses(s), Children(s, r)) < s.runs[r].usage
    /\ \A g \in s.grants : Total(Uses(s), Roots(s, g)) <= g.usage
    /\ \A c \in Connections : Total(Costs(s), GrantsOf(s, c)) <= s.usage[c]
    /\ Total(s.usage, Connections) <= s.global

RunsOK(s) ==
    /\ TreeOK(s) /\ EpochsOK(s) /\ CoveredOK(s) /\ RequestsOK(s) /\ LeasesOK(s)
    /\ StartsOK(s) /\ DeliveryOK(s) /\ BudgetsOK(s)

\* n is a later value than s: identifiers are not used again, outcomes, receipts
\* and withdrawals of delivery stand, and a grant keeps its client and its end.
Later(n, s) ==
    /\ n.minted.run >= s.minted.run /\ n.minted.grant >= s.minted.grant
    /\ n.minted.request >= s.minted.request
    /\ \A r \in DOMAIN n.runs : r \in DOMAIN s.runs \/ r > s.minted.run
    /\ \A r \in DOMAIN s.runs \cap DOMAIN n.runs :
          s.runs[r].state # "Running" => n.runs[r].state = s.runs[r].state
    /\ s.retired \subseteq n.retired
    /\ \A y \in s.starts : y \in n.starts \/ y.connection \in n.retired
    /\ \A g \in n.grants : \/ g.epoch > s.minted.grant
                           \/ \E h \in s.grants : /\ g.connection = h.connection /\ g.epoch = h.epoch
                                                  /\ g.expires = h.expires /\ g.slot = h.slot
    /\ s.detached \subseteq n.detached /\ s.undelivered \subseteq n.undelivered
    /\ \A q \in n.requests : \/ q.id > s.minted.request
                             \/ \E u \in s.requests : u.id = q.id /\ (u.committed => q.committed)

Onward(n, s) == RunsOK(n) /\ Later(n, s)

\* Later values of later values are later.
LEMMA OnwardChain ==
    ASSUME NEW s, NEW m, NEW n, Shape(s), Shape(m), Shape(n), RunsOK(s), Onward(m, s), Onward(n, m)
    PROVE  Onward(n, s)
<1>1. /\ \A r \in DOMAIN s.runs : r \in Nat /\ r <= s.minted.run
      /\ \A r \in DOMAIN n.runs : r \in Nat
      /\ \A g \in n.grants : g.epoch \in Nat
      /\ \A g \in m.grants : g.epoch \in Nat
      /\ \A q \in n.requests : q.id \in Nat
      /\ \A q \in m.requests : q.id \in Nat
  BY DEF Onward, RunsOK, TreeOK, RunOK, EpochsOK, RequestsOK, RequestOK
<1>2. /\ s.minted.run \in Nat /\ m.minted.run \in Nat /\ n.minted.run \in Nat
      /\ s.minted.grant \in Nat /\ m.minted.grant \in Nat /\ n.minted.grant \in Nat
      /\ s.minted.request \in Nat /\ m.minted.request \in Nat /\ n.minted.request \in Nat
  BY DEF Shape, MintKinds
<1>3. Later(m, s) /\ Later(n, m)
  BY DEF Onward
<1>4. /\ n.minted.run >= s.minted.run /\ n.minted.grant >= s.minted.grant
      /\ n.minted.request >= s.minted.request
  BY <1>2, <1>3 DEF Later
<1>5. \A r \in DOMAIN n.runs : r \in DOMAIN s.runs \/ r > s.minted.run
  BY <1>1, <1>2, <1>3 DEF Later
<1>6. ASSUME NEW r \in DOMAIN s.runs \cap DOMAIN n.runs, s.runs[r].state # "Running"
      PROVE  n.runs[r].state = s.runs[r].state
  <2>1. r \in DOMAIN m.runs
    <3>1. r \in Nat /\ r <= s.minted.run
      BY <1>1
    <3>2. r \in DOMAIN m.runs \/ r > m.minted.run
      BY <1>3 DEF Later
    <3>3. m.minted.run >= s.minted.run
      BY <1>3 DEF Later
    <3> QED
      BY <3>1, <3>2, <3>3, <1>2
  <2> QED
    BY <2>1, <1>3, <1>6 DEF Later
<1>7. s.retired \subseteq n.retired /\ s.detached \subseteq n.detached /\ s.undelivered \subseteq n.undelivered
  BY <1>3 DEF Later
<1>8. \A y \in s.starts : y \in n.starts \/ y.connection \in n.retired
  BY <1>3 DEF Later
<1>9. ASSUME NEW g \in n.grants
      PROVE  \/ g.epoch > s.minted.grant
             \/ \E h \in s.grants : /\ g.connection = h.connection /\ g.epoch = h.epoch
                                    /\ g.expires = h.expires /\ g.slot = h.slot
  <2>1. CASE g.epoch > m.minted.grant
    BY <2>1, <1>1, <1>2, <1>3 DEF Later
  <2>2. CASE \E h \in m.grants : /\ g.connection = h.connection /\ g.epoch = h.epoch
                                 /\ g.expires = h.expires /\ g.slot = h.slot
    <3>1. PICK h \in m.grants : /\ g.connection = h.connection /\ g.epoch = h.epoch
                                /\ g.expires = h.expires /\ g.slot = h.slot
      BY <2>2
    <3> QED
      BY <3>1, <1>3 DEF Later
  <2> QED
    BY <2>1, <2>2, <1>3 DEF Later
<1>10. ASSUME NEW q \in n.requests
       PROVE  \/ q.id > s.minted.request
              \/ \E u \in s.requests : u.id = q.id /\ (u.committed => q.committed)
  <2>1. CASE q.id > m.minted.request
    BY <2>1, <1>1, <1>2, <1>3 DEF Later
  <2>2. CASE \E u \in m.requests : u.id = q.id /\ (u.committed => q.committed)
    <3>1. PICK u \in m.requests : u.id = q.id /\ (u.committed => q.committed)
      BY <2>2
    <3>2. \/ u.id > s.minted.request
          \/ \E v \in s.requests : v.id = u.id /\ (v.committed => u.committed)
      BY <1>3 DEF Later
    <3>3. CASE u.id > s.minted.request
      BY <3>1, <3>3
    <3>4. CASE \E v \in s.requests : v.id = u.id /\ (v.committed => u.committed)
      <4>1. PICK v \in s.requests : v.id = u.id /\ (v.committed => u.committed)
        BY <3>4
      <4>2. v.id = q.id /\ (v.committed => q.committed)
        BY <3>1, <4>1, Zenon
      <4> QED
        BY <4>2
    <3> QED
      BY <3>2, <3>3, <3>4
  <2> QED
    BY <2>1, <2>2, <1>3 DEF Later
<1>11. Later(n, s)
  BY <1>4, <1>5, <1>6, <1>7, <1>8, <1>9, <1>10 DEF Later
<1> QED
  BY <1>11 DEF Onward

-----------------------------------------------------------------------------
(* Accounts. *)

\* Runs may go, grants may come that nothing was spent from, and a client without
\* spending may start again; no account is lowered in any other way.
Frugal(n, s) ==
    /\ n.global = s.global /\ n.minted.grant >= s.minted.grant
    /\ DOMAIN n.runs \subseteq DOMAIN s.runs
    /\ \A r \in DOMAIN n.runs :
          /\ n.runs[r].usage = s.runs[r].usage /\ n.runs[r].parent = s.runs[r].parent
          /\ n.runs[r].connection = s.runs[r].connection /\ n.runs[r].slot = s.runs[r].slot
          /\ n.runs[r].epoch = s.runs[r].epoch
    /\ IsFiniteSet(n.grants)
    /\ \A g \in n.grants : g \in s.grants \/ (g.usage = 0 /\ \A r \in DOMAIN s.runs : s.runs[r].epoch # g.epoch)
    /\ \A c \in Connections :
          \/ n.usage[c] = s.usage[c]
          \/ n.usage[c] = 0 /\ \A g \in n.grants : g.connection = c => g.usage = 0

\* Runs are numbers that were minted, and have used something.
LEMMA RunsAreFinite ==
    ASSUME NEW s, Shape(s), TreeOK(s)
    PROVE  /\ IsFiniteSet(DOMAIN s.runs) /\ \A r \in DOMAIN s.runs : s.runs[r].usage \in Nat /\ s.runs[r].usage > 0
           /\ \A R \in SUBSET DOMAIN s.runs : Summable(Uses(s), R)
<1>1. s.minted.run \in Nat
  BY DEF Shape, MintKinds
<1>2. DOMAIN s.runs \subseteq 1 .. s.minted.run
  BY <1>1 DEF TreeOK, RunOK
<1>3. IsFiniteSet(DOMAIN s.runs)
  <2>1. IsFiniteSet(1 .. s.minted.run)
    BY <1>1, FS_Interval
  <2> QED
    BY <1>2, <2>1, FS_Subset
<1>4. \A r \in DOMAIN s.runs : s.runs[r].usage \in Nat /\ s.runs[r].usage > 0
  BY DEF TreeOK, RunOK
<1>5. ASSUME NEW R \in SUBSET DOMAIN s.runs PROVE Summable(Uses(s), R)
  <2>1. IsFiniteSet(R)
    BY <1>3, FS_Subset
  <2> QED
    BY <1>4, <2>1 DEF Summable, Uses
<1> QED
  BY <1>3, <1>4, <1>5

LEMMA GrantsAreFinite ==
    ASSUME NEW s, BudgetsOK(s), NEW G \in SUBSET s.grants PROVE Summable(Costs(s), G)
<1>1. IsFiniteSet(G)
  BY FS_Subset DEF BudgetsOK
<1> QED
  BY <1>1 DEF BudgetsOK, Summable, Costs

\* Such a step keeps the accounts in order.
LEMMA FrugalKeeps ==
    ASSUME NEW s, NEW n, Shape(s), Shape(n), TreeOK(s), BudgetsOK(s), Frugal(n, s) PROVE BudgetsOK(n)
<1>0. s.minted.grant \in Nat /\ n.minted.grant \in Nat
  BY DEF Shape, MintKinds
<1>1. /\ n.global = s.global /\ n.minted.grant >= s.minted.grant /\ DOMAIN n.runs \subseteq DOMAIN s.runs
      /\ \A r \in DOMAIN n.runs :
            /\ n.runs[r].usage = s.runs[r].usage /\ n.runs[r].parent = s.runs[r].parent
            /\ n.runs[r].connection = s.runs[r].connection /\ n.runs[r].slot = s.runs[r].slot
            /\ n.runs[r].epoch = s.runs[r].epoch
      /\ IsFiniteSet(n.grants)
  BY DEF Frugal
<1>2. /\ IsFiniteSet(DOMAIN s.runs) /\ (\A r \in DOMAIN s.runs : s.runs[r].usage \in Nat /\ s.runs[r].usage > 0)
      /\ \A R \in SUBSET DOMAIN s.runs : Summable(Uses(s), R)
  BY RunsAreFinite
<1>3. \A R \in SUBSET DOMAIN n.runs : Summable(Uses(n), R)
  <2> SUFFICES ASSUME NEW R \in SUBSET DOMAIN n.runs PROVE Summable(Uses(n), R)
    OBVIOUS
  <2>1. Summable(Uses(s), R)
    BY <1>1, <1>2
  <2> QED
    BY <1>1, <2>1 DEF Summable, Uses
<1>4. ASSUME NEW R \in SUBSET DOMAIN n.runs, NEW Q \in SUBSET DOMAIN s.runs, R \subseteq Q
      PROVE  Total(Uses(n), R) <= Total(Uses(s), Q) /\ Total(Uses(n), R) \in Nat /\ Total(Uses(s), Q) \in Nat
  <2>1. NoMore(Uses(n), R, Uses(s), Q)
    BY <1>1, <1>2, <1>4 DEF NoMore, Uses
  <2>2. Summable(Uses(n), R) /\ Summable(Uses(s), Q)
    BY <1>2, <1>3
  <2> QED
    BY <2>1, <2>2, TotalIsBounded, TotalIsNumber
<1>5. \A g \in n.grants : g.usage \in Nat
  BY DEF BudgetsOK, Frugal
<1>6. \A c \in Connections : n.usage[c] \in Nat
  BY DEF BudgetsOK, Frugal
<1>7. \A r \in DOMAIN n.runs : n.runs[r].epoch \in Nat /\ n.runs[r].epoch <= n.minted.grant
  BY <1>0, <1>1 DEF BudgetsOK
<1>8. ASSUME NEW r \in DOMAIN n.runs PROVE Total(Uses(n), Children(n, r)) < n.runs[r].usage
  <2>1. /\ Children(n, r) \in SUBSET DOMAIN n.runs /\ Children(s, r) \in SUBSET DOMAIN s.runs
        /\ Children(n, r) \subseteq Children(s, r)
    BY <1>1 DEF Children
  <2>2. /\ Total(Uses(n), Children(n, r)) <= Total(Uses(s), Children(s, r))
        /\ Total(Uses(n), Children(n, r)) \in Nat /\ Total(Uses(s), Children(s, r)) \in Nat
    BY <1>4, <2>1
  <2>3. Total(Uses(s), Children(s, r)) < s.runs[r].usage
    BY <1>1 DEF BudgetsOK
  <2>4. s.runs[r].usage \in Nat /\ n.runs[r].usage = s.runs[r].usage
    BY <1>1, <1>2
  <2> QED
    BY <2>2, <2>3, <2>4
<1>9. ASSUME NEW g \in n.grants PROVE Total(Uses(n), Roots(n, g)) <= g.usage
  <2>1. CASE g \in s.grants
    <3>1. /\ Roots(n, g) \in SUBSET DOMAIN n.runs /\ Roots(s, g) \in SUBSET DOMAIN s.runs
          /\ Roots(n, g) \subseteq Roots(s, g)
      BY <1>1 DEF Roots
    <3>2. /\ Total(Uses(n), Roots(n, g)) <= Total(Uses(s), Roots(s, g))
          /\ Total(Uses(n), Roots(n, g)) \in Nat /\ Total(Uses(s), Roots(s, g)) \in Nat
      BY <1>4, <3>1
    <3>3. Total(Uses(s), Roots(s, g)) <= g.usage
      BY <2>1 DEF BudgetsOK
    <3> QED
      BY <1>5, <3>2, <3>3
  <2>2. CASE g \notin s.grants
    <3>1. g.usage = 0 /\ \A r \in DOMAIN s.runs : s.runs[r].epoch # g.epoch
      BY <2>2 DEF Frugal
    <3>4. Roots(n, g) = {}
      BY <1>1, <3>1 DEF Roots
    <3> QED
      BY <3>1, <3>4, SumOfNone
  <2> QED
    BY <2>1, <2>2
<1>10. ASSUME NEW c \in Connections PROVE Total(Costs(n), GrantsOf(n, c)) <= n.usage[c]
  <2>0. GrantsOf(n, c) \in SUBSET n.grants /\ GrantsOf(s, c) \in SUBSET s.grants
    BY DEF GrantsOf
  <2>1. Summable(Costs(n), GrantsOf(n, c))
    <3>1. IsFiniteSet(GrantsOf(n, c))
      BY <1>1, <2>0, FS_Subset
    <3> QED
      BY <1>5, <2>0, <3>1 DEF Summable, Costs
  <2>2. CASE n.usage[c] = s.usage[c]
    <3>1. Summable(Costs(s), GrantsOf(s, c))
      BY <2>0, GrantsAreFinite
    <3>2. \A g \in GrantsOf(n, c) : g.usage = 0 \/ g \in GrantsOf(s, c)
      BY DEF Frugal, GrantsOf
    <3>3. NoMore(Costs(n), GrantsOf(n, c), Costs(s), GrantsOf(s, c))
      BY <1>5, <2>0, <3>2 DEF NoMore, Costs
    <3>4. Total(Costs(n), GrantsOf(n, c)) <= Total(Costs(s), GrantsOf(s, c))
      BY <2>1, <3>1, <3>3, TotalIsBounded
    <3>5. Total(Costs(s), GrantsOf(s, c)) <= s.usage[c] /\ s.usage[c] \in Nat
      BY DEF BudgetsOK
    <3>6. Total(Costs(n), GrantsOf(n, c)) \in Nat /\ Total(Costs(s), GrantsOf(s, c)) \in Nat
      BY <2>1, <3>1, TotalIsNumber
    <3> QED
      BY <2>2, <3>4, <3>5, <3>6
  <2>3. CASE n.usage[c] # s.usage[c]
    <3>1. n.usage[c] = 0 /\ \A g \in n.grants : g.connection = c => g.usage = 0
      BY <2>3 DEF Frugal
    <3>2. NoMore(Costs(n), GrantsOf(n, c), Costs(n), {})
      BY <3>1 DEF NoMore, Costs, GrantsOf
    <3>3. Summable(Costs(n), {})
      BY FS_EmptySet DEF Summable
    <3>4. Total(Costs(n), GrantsOf(n, c)) <= Total(Costs(n), {})
      BY <2>1, <3>2, <3>3, TotalIsBounded
    <3> QED
      BY <3>1, <3>4, SumOfNone
  <2> QED
    BY <2>2, <2>3
<1>11. Total(n.usage, Connections) <= n.global
  <2>1. Summable(n.usage, Connections) /\ Summable(s.usage, Connections)
    BY <1>6, RunAssumption DEF Summable, BudgetsOK
  <2>2. NoMore(n.usage, Connections, s.usage, Connections)
    BY <1>6 DEF NoMore, Frugal
  <2>3. Total(n.usage, Connections) <= Total(s.usage, Connections)
    BY <2>1, <2>2, TotalIsBounded
  <2>4. Total(s.usage, Connections) <= s.global /\ s.global \in Nat
    BY BrokerAssumption DEF BudgetsOK, TreeOK
  <2>5. Total(n.usage, Connections) \in Nat /\ Total(s.usage, Connections) \in Nat
    BY <2>1, TotalIsNumber
  <2> QED
    BY <1>1, <2>3, <2>4, <2>5
<1> QED
  BY <1>1, <1>5, <1>6, <1>7, <1>8, <1>9, <1>10, <1>11 DEF BudgetsOK

\* The accounts as they were.
LEMMA SameAccountsKeep ==
    ASSUME NEW s, NEW n, Shape(s), Shape(n), TreeOK(s), BudgetsOK(s),
           n.global = s.global, n.usage = s.usage, n.grants = s.grants, n.minted.grant = s.minted.grant,
           DOMAIN n.runs = DOMAIN s.runs,
           \A r \in DOMAIN s.runs :
              /\ n.runs[r].usage = s.runs[r].usage /\ n.runs[r].parent = s.runs[r].parent
              /\ n.runs[r].connection = s.runs[r].connection /\ n.runs[r].slot = s.runs[r].slot
              /\ n.runs[r].epoch = s.runs[r].epoch
    PROVE  BudgetsOK(n)
<1>1. s.minted.grant \in Nat /\ IsFiniteSet(s.grants)
  BY DEF Shape, MintKinds, BudgetsOK
<1>2. Frugal(n, s)
  BY <1>1 DEF Frugal
<1> QED
  BY <1>2, FrugalKeeps

-----------------------------------------------------------------------------
(* Charges. *)

\* A run with everything above it: no two of them have the same parent.
Chain(s, L) ==
    /\ L \subseteq DOMAIN s.runs
    /\ \A x \in L : s.runs[x].parent \subseteq L
    /\ \A x, y \in L : s.runs[x].parent = s.runs[y].parent => x = y

LEMMA LineageIsChain ==
    ASSUME NEW s, TreeOK(s), NEW r \in DOMAIN s.runs PROVE Chain(s, Lineage(s, r))
<1>1. \A x \in DOMAIN s.runs : /\ x \in Nat /\ (\A p, q \in s.runs[x].parent : p = q)
                               /\ \A p \in s.runs[x].parent : /\ p \in DOMAIN s.runs /\ p < x
                                                              /\ \A q \in s.runs[p].parent : s.runs[q].parent = {}
  BY DEF TreeOK, RunOK
<1>2. \A x \in DOMAIN s.runs : Parents(s, x) = s.runs[x].parent
  BY DEF Parents
<1>3. CASE s.runs[r].parent = {}
  <2>1. Lineage(s, r) = {r}
    BY <1>2, <1>3 DEF Lineage, Ancestors
  <2> QED
    BY <1>3, <2>1 DEF Chain
<1>4. ASSUME NEW p \in s.runs[r].parent PROVE Chain(s, Lineage(s, r))
  <2>1. s.runs[r].parent = {p} /\ p \in DOMAIN s.runs /\ p < r
    BY <1>1
  <2>2. CASE s.runs[p].parent = {}
    <3>1. Lineage(s, r) = {r, p}
      BY <1>2, <2>1, <2>2 DEF Lineage, Ancestors
    <3> QED
      BY <2>1, <2>2, <3>1 DEF Chain
  <2>3. ASSUME NEW q \in s.runs[p].parent PROVE Chain(s, Lineage(s, r))
    <3>1. s.runs[p].parent = {q} /\ q \in DOMAIN s.runs /\ q < p /\ s.runs[q].parent = {}
      BY <1>1, <2>1
    <3>2. Parents(s, r) = {p} /\ Parents(s, p) = {q} /\ Parents(s, q) = {}
      BY <1>2, <2>1, <3>1
    <3>3. Lineage(s, r) = {r, p, q}
      BY <3>2 DEF Lineage, Ancestors
    <3>4. p # q
      BY <1>1, <2>1, <3>1
    <3> QED
      BY <2>1, <3>1, <3>3, <3>4 DEF Chain
  <2> QED
    BY <2>2, <2>3
<1> QED
  BY <1>3, <1>4

\* What charge does to the accounts.
Bill(g, c, slot) == IF g.connection = c /\ g.slot = slot THEN Charged(g) ELSE g

Billed(n, s, c, slot, lineage) ==
    /\ n.global = s.global + 1 /\ n.minted = s.minted
    /\ n.usage = [s.usage EXCEPT ![c] = @ + 1]
    /\ n.grants = {Bill(g, c, slot) : g \in s.grants}
    /\ DOMAIN n.runs = DOMAIN s.runs
    /\ \A r \in DOMAIN s.runs :
          /\ n.runs[r].usage = IF r \in lineage THEN s.runs[r].usage + 1 ELSE s.runs[r].usage
          /\ n.runs[r].parent = s.runs[r].parent /\ n.runs[r].connection = s.runs[r].connection
          /\ n.runs[r].slot = s.runs[r].slot /\ n.runs[r].epoch = s.runs[r].epoch

\* What is charged: the client, its one grant of the slot, and a chain of runs
\* under that slot.
Billable(s, c, slot, lineage) ==
    /\ c \in Connections /\ (\E g \in s.grants : g.connection = c /\ g.slot = slot)
    /\ Chain(s, lineage) /\ \A r \in lineage : s.runs[r].connection = c /\ s.runs[r].slot = slot

\* A charge adds at most one to what a set of runs without two of one parent in
\* the chain has used, and nothing when none of them is charged.
LEMMA BilledRuns ==
    ASSUME NEW s, NEW n, NEW c, NEW slot, NEW lineage, Shape(s), TreeOK(s),
           Billed(n, s, c, slot, lineage), NEW R \in SUBSET DOMAIN s.runs,
           \A x, y \in R \cap lineage : x = y
    PROVE  /\ Total(Uses(n), R) \in Nat /\ Total(Uses(s), R) \in Nat
           /\ Total(Uses(n), R) <= Total(Uses(s), R) + 1
           /\ R \cap lineage = {} => Total(Uses(n), R) <= Total(Uses(s), R)
<1>1. /\ \A r \in DOMAIN s.runs : s.runs[r].usage \in Nat /\ s.runs[r].usage > 0
      /\ \A Q \in SUBSET DOMAIN s.runs : Summable(Uses(s), Q)
  BY RunsAreFinite
<1>2. /\ DOMAIN n.runs = DOMAIN s.runs
      /\ \A r \in DOMAIN s.runs : n.runs[r].usage = IF r \in lineage THEN s.runs[r].usage + 1 ELSE s.runs[r].usage
  BY DEF Billed
<1>3. Summable(Uses(s), R)
  BY <1>1
<1>4. Summable(Uses(n), R)
  BY <1>1, <1>2, <1>3 DEF Summable, Uses
<1>5. Total(Uses(n), R) \in Nat /\ Total(Uses(s), R) \in Nat
  BY <1>3, <1>4, TotalIsNumber
<1>6. CASE R \cap lineage = {}
  <2>1. NoMore(Uses(n), R, Uses(s), R)
    BY <1>1, <1>2, <1>6 DEF NoMore, Uses
  <2>2. Total(Uses(n), R) <= Total(Uses(s), R)
    BY <1>3, <1>4, <2>1, TotalIsBounded
  <2> QED
    BY <1>5, <2>2
<1>7. ASSUME NEW y \in R \cap lineage PROVE Total(Uses(n), R) <= Total(Uses(s), R) + 1
  <2>1. \A x \in R \ {y} : x \notin lineage
    OBVIOUS
  <2>2. OneMore(Uses(n), R, Uses(s), R, y)
    BY <1>1, <1>2, <2>1 DEF OneMore, Uses
  <2> QED
    BY <1>3, <1>4, <2>2, TotalGrowsByOne
<1> QED
  BY <1>5, <1>6, <1>7

\* A charge keeps the accounts in order.
LEMMA BilledIsOK ==
    ASSUME NEW s, NEW n, NEW c, NEW slot, NEW lineage, Shape(s), TreeOK(s), GrantsOK(s), BudgetsOK(s),
           Billed(n, s, c, slot, lineage), Billable(s, c, slot, lineage)
    PROVE  BudgetsOK(n)
<1>0. /\ s.global \in Nat /\ (\A x \in Connections : s.usage[x] \in Nat) /\ DOMAIN s.usage = Connections
      /\ c \in Connections /\ (\A g \in s.grants : g.usage \in Nat /\ DOMAIN g = GrantFields)
      /\ \A r \in DOMAIN s.runs : s.runs[r].usage \in Nat
  BY BrokerAssumption, RunsAreFinite DEF TreeOK, BudgetsOK, Shape, Billable, GrantsOK
<1>1. /\ n.global = s.global + 1 /\ n.minted = s.minted /\ DOMAIN n.runs = DOMAIN s.runs
      /\ n.usage = [s.usage EXCEPT ![c] = @ + 1]
      /\ n.grants = {Bill(g, c, slot) : g \in s.grants}
      /\ \A r \in DOMAIN s.runs :
            /\ n.runs[r].usage = IF r \in lineage THEN s.runs[r].usage + 1 ELSE s.runs[r].usage
            /\ n.runs[r].parent = s.runs[r].parent /\ n.runs[r].connection = s.runs[r].connection
            /\ n.runs[r].slot = s.runs[r].slot /\ n.runs[r].epoch = s.runs[r].epoch
  BY DEF Billed
<1>2. \A g \in s.grants : /\ Bill(g, c, slot).connection = g.connection /\ Bill(g, c, slot).slot = g.slot
                          /\ Bill(g, c, slot).epoch = g.epoch
                          /\ Bill(g, c, slot).usage =
                                IF g.connection = c /\ g.slot = slot THEN g.usage + 1 ELSE g.usage
  BY <1>0 DEF Bill, Charged, GrantFields
<1>3. PICK own \in s.grants : own.connection = c /\ own.slot = slot
  BY DEF Billable
<1>4. \A g \in s.grants : g.connection = c /\ g.slot = slot => g = own
  BY <1>3 DEF GrantsOK
<1> DEFINE paid == Bill(own, c, slot)
<1>5. paid.usage = own.usage + 1 /\ paid.connection = c /\ paid.slot = slot /\ paid.epoch = own.epoch
  BY <1>2, <1>3
<1>6. n.grants = (s.grants \ {own}) \cup {paid}
  <2>1. \A g \in s.grants \ {own} : Bill(g, c, slot) = g
    BY <1>4 DEF Bill
  <2> QED
    BY <1>1, <2>1
<1> HIDE DEF paid
<1>7. paid \notin s.grants
  <2>1. paid # own
    BY <1>0, <1>5
  <2> QED
    BY <1>4, <1>5, <2>1
<1>8. IsFiniteSet(n.grants) /\ \A g \in n.grants : g.usage \in Nat
  <2>1. IsFiniteSet(s.grants)
    BY DEF BudgetsOK
  <2>2. IsFiniteSet(s.grants \ {own})
    BY <2>1, FS_Subset
  <2>3. IsFiniteSet((s.grants \ {own}) \cup {paid})
    BY <2>2, FS_AddElement
  <2> QED
    BY <1>0, <1>5, <1>6, <2>3
<1>9. \A x \in Connections : n.usage[x] = IF x = c THEN s.usage[x] + 1 ELSE s.usage[x]
  BY <1>0, <1>1
<1>10. \A x \in Connections : n.usage[x] \in Nat
  BY <1>0, <1>9
<1>11. \A r \in DOMAIN n.runs : n.runs[r].epoch \in Nat /\ n.runs[r].epoch <= n.minted.grant
  BY <1>1 DEF BudgetsOK
<1>12. ASSUME NEW r \in DOMAIN n.runs PROVE Total(Uses(n), Children(n, r)) < n.runs[r].usage
  <2>1. Children(n, r) = Children(s, r) /\ Children(s, r) \in SUBSET DOMAIN s.runs
    BY <1>1 DEF Children
  <2>2. \A x \in Children(s, r) : s.runs[x].parent = {r}
    BY DEF TreeOK, RunOK, Children
  <2>3. \A x, y \in Children(s, r) \cap lineage : x = y
    <3>1. \A x, y \in lineage : s.runs[x].parent = s.runs[y].parent => x = y
      BY DEF Billable, Chain
    <3> QED
      BY <2>2, <3>1
  <2>4. /\ Total(Uses(n), Children(s, r)) \in Nat /\ Total(Uses(s), Children(s, r)) \in Nat
        /\ Total(Uses(n), Children(s, r)) <= Total(Uses(s), Children(s, r)) + 1
        /\ Children(s, r) \cap lineage = {} => Total(Uses(n), Children(s, r)) <= Total(Uses(s), Children(s, r))
    BY <2>1, <2>3, BilledRuns
  <2>5. Total(Uses(s), Children(s, r)) < s.runs[r].usage /\ s.runs[r].usage \in Nat
    BY <1>0, <1>1 DEF BudgetsOK
  <2>6. CASE r \in lineage
    BY <1>1, <2>1, <2>4, <2>5, <2>6
  <2>7. CASE r \notin lineage
    <3>1. Children(s, r) \cap lineage = {}
      BY <2>2, <2>7 DEF Billable, Chain
    <3> QED
      BY <1>1, <2>1, <2>4, <2>5, <2>7, <3>1
  <2> QED
    BY <2>6, <2>7
<1>13. ASSUME NEW h \in n.grants PROVE Total(Uses(n), Roots(n, h)) <= h.usage
  <2>1. PICK g \in s.grants : h = Bill(g, c, slot)
    BY <1>1
  <2>2. Roots(n, h) = Roots(s, g) /\ Roots(s, g) \in SUBSET DOMAIN s.runs
    BY <1>1, <1>2, <2>1 DEF Roots
  <2>3. \A x, y \in Roots(s, g) \cap lineage : x = y
    <3>1. \A x \in Roots(s, g) : s.runs[x].parent = {}
      BY DEF Roots
    <3>2. \A x, y \in lineage : s.runs[x].parent = s.runs[y].parent => x = y
      BY DEF Billable, Chain
    <3> QED
      BY <3>1, <3>2
  <2>4. /\ Total(Uses(n), Roots(s, g)) \in Nat /\ Total(Uses(s), Roots(s, g)) \in Nat
        /\ Total(Uses(n), Roots(s, g)) <= Total(Uses(s), Roots(s, g)) + 1
        /\ Roots(s, g) \cap lineage = {} => Total(Uses(n), Roots(s, g)) <= Total(Uses(s), Roots(s, g))
    BY <2>2, <2>3, BilledRuns
  <2>5. Total(Uses(s), Roots(s, g)) <= g.usage /\ g.usage \in Nat
    BY <1>0 DEF BudgetsOK
  <2>6. CASE g.connection = c /\ g.slot = slot
    BY <1>2, <2>1, <2>2, <2>4, <2>5, <2>6
  <2>7. CASE ~(g.connection = c /\ g.slot = slot)
    <3>1. Roots(s, g) \cap lineage = {}
      BY <2>7 DEF Billable, Roots
    <3> QED
      BY <1>2, <2>1, <2>2, <2>4, <2>5, <2>7, <3>1
  <2> QED
    BY <2>6, <2>7
<1>14. ASSUME NEW x \in Connections PROVE Total(Costs(n), GrantsOf(n, x)) <= n.usage[x]
  <2> DEFINE S == GrantsOf(n, x)
             R == GrantsOf(s, x)
  <2>1. S \in SUBSET n.grants /\ R \in SUBSET s.grants
    BY DEF GrantsOf
  <2>2. Summable(Costs(s), R)
    BY <2>1, GrantsAreFinite
  <2>3. Summable(Costs(n), S)
    <3>1. IsFiniteSet(S)
      BY <1>8, <2>1, FS_Subset
    <3> QED
      BY <1>8, <2>1, <3>1 DEF Summable, Costs
  <2>4. Total(Costs(s), R) <= s.usage[x] /\ s.usage[x] \in Nat
    BY <1>0 DEF BudgetsOK
  <2>5. Total(Costs(s), R) \in Nat /\ Total(Costs(n), S) \in Nat
    BY <2>2, <2>3, TotalIsNumber
  <2>6. CASE x # c
    <3>1. S = R
      BY <1>3, <1>5, <1>6, <2>6 DEF GrantsOf
    <3>2. NoMore(Costs(n), S, Costs(s), R)
      BY <1>0, <2>1, <3>1 DEF NoMore, Costs
    <3>3. Total(Costs(n), S) <= Total(Costs(s), R)
      BY <2>2, <2>3, <3>2, TotalIsBounded
    <3> QED
      BY <1>9, <2>4, <2>5, <2>6, <3>3
  <2>7. CASE x = c
    <3>1. own \in R /\ paid \in S /\ S \ {paid} = R \ {own}
      BY <1>3, <1>5, <1>6, <1>7, <2>7 DEF GrantsOf
    <3>2. Total(Costs(s), R) = own.usage + Total(Costs(s), R \ {own})
      <4>1. Costs(s)[own] = own.usage
        BY DEF Costs
      <4> QED
        BY <2>2, <3>1, <4>1, SumTakesOut DEF Summable
    <3>3. Total(Costs(n), S) = own.usage + 1 + Total(Costs(n), S \ {paid})
      <4>1. Costs(n)[paid] = own.usage + 1
        BY <1>5, <1>6 DEF Costs
      <4> QED
        BY <2>3, <3>1, <4>1, SumTakesOut DEF Summable
    <3>4. Summable(Costs(s), R \ {own}) /\ Summable(Costs(n), S \ {paid})
      <4>1. IsFiniteSet(R \ {own}) /\ IsFiniteSet(S \ {paid})
        BY <2>2, <2>3, FS_Subset DEF Summable
      <4> QED
        BY <2>2, <2>3, <4>1 DEF Summable
    <3>5. NoMore(Costs(n), S \ {paid}, Costs(s), R \ {own})
      BY <1>0, <2>1, <3>1 DEF NoMore, Costs
    <3>6. Total(Costs(n), S \ {paid}) <= Total(Costs(s), R \ {own})
      BY <3>4, <3>5, TotalIsBounded
    <3>7. Total(Costs(n), S \ {paid}) \in Nat /\ Total(Costs(s), R \ {own}) \in Nat /\ own.usage \in Nat
      BY <1>0, <3>4, TotalIsNumber
    <3> HIDE DEF S, R
    <3>8. Total(Costs(n), S) <= Total(Costs(s), R) + 1
      BY <3>2, <3>3, <3>6, <3>7
    <3>9. n.usage[x] = s.usage[x] + 1
      BY <1>9, <2>7
    <3> QED
      BY <2>4, <2>5, <3>8, <3>9 DEF S
  <2> QED
    BY <2>6, <2>7
<1>15. Total(n.usage, Connections) <= n.global
  <2>1. Summable(n.usage, Connections) /\ Summable(s.usage, Connections)
    BY <1>0, <1>10, RunAssumption DEF Summable
  <2>2. OneMore(n.usage, Connections, s.usage, Connections, c)
    BY <1>0, <1>9 DEF OneMore
  <2>3. Total(n.usage, Connections) <= Total(s.usage, Connections) + 1
    BY <2>1, <2>2, TotalGrowsByOne
  <2>4. Total(s.usage, Connections) <= s.global
    BY DEF BudgetsOK
  <2>5. Total(n.usage, Connections) \in Nat /\ Total(s.usage, Connections) \in Nat
    BY <2>1, TotalIsNumber
  <2> QED
    BY <1>0, <1>1, <2>3, <2>4, <2>5
<1> QED
  BY <1>8, <1>10, <1>11, <1>12, <1>13, <1>14, <1>15 DEF BudgetsOK

\* There is an operation left for one run more.
Room(s, run) ==
    /\ run.usage = 1
    /\ \A p \in run.parent : Total(Uses(s), Children(s, p)) + 1 < s.runs[p].usage
    /\ run.parent = {} => \A g \in s.grants :
          g.connection = run.connection /\ g.slot = run.slot /\ g.epoch = run.epoch
              => Total(Uses(s), Roots(s, g)) + 1 <= g.usage

\* A charge makes room for a child of the last of the chain, or for a root.
LEMMA BilledLeavesRoom ==
    ASSUME NEW s, NEW n, NEW c, NEW slot, NEW lineage, Shape(s), TreeOK(s), GrantsOK(s), BudgetsOK(s),
           Billed(n, s, c, slot, lineage), Billable(s, c, slot, lineage),
           NEW run, run.usage = 1, run.connection = c, run.slot = slot,
           \A p \in run.parent : p \in lineage /\ Children(s, p) \cap lineage = {},
           run.parent = {} => lineage = {}
    PROVE  Room(n, run)
<1>0. /\ (\A g \in s.grants : g.usage \in Nat /\ DOMAIN g = GrantFields)
      /\ \A r \in DOMAIN s.runs : s.runs[r].usage \in Nat
  BY RunsAreFinite DEF BudgetsOK, GrantsOK
<1>1. /\ DOMAIN n.runs = DOMAIN s.runs /\ n.grants = {Bill(g, c, slot) : g \in s.grants}
      /\ \A r \in DOMAIN s.runs :
            /\ n.runs[r].usage = IF r \in lineage THEN s.runs[r].usage + 1 ELSE s.runs[r].usage
            /\ n.runs[r].parent = s.runs[r].parent /\ n.runs[r].connection = s.runs[r].connection
            /\ n.runs[r].slot = s.runs[r].slot /\ n.runs[r].epoch = s.runs[r].epoch
  BY DEF Billed
<1>2. ASSUME NEW p \in run.parent PROVE Total(Uses(n), Children(n, p)) + 1 < n.runs[p].usage
  <2>1. p \in lineage /\ Children(s, p) \cap lineage = {} /\ p \in DOMAIN s.runs
    BY DEF Billable, Chain
  <2>2. Children(n, p) = Children(s, p) /\ Children(s, p) \in SUBSET DOMAIN s.runs
    BY <1>1 DEF Children
  <2>3. /\ Total(Uses(n), Children(s, p)) \in Nat /\ Total(Uses(s), Children(s, p)) \in Nat
        /\ Total(Uses(n), Children(s, p)) <= Total(Uses(s), Children(s, p))
    BY <2>1, <2>2, BilledRuns
  <2>4. Total(Uses(s), Children(s, p)) < s.runs[p].usage
    BY <2>1 DEF BudgetsOK
  <2> QED
    BY <1>0, <1>1, <2>1, <2>2, <2>3, <2>4
<1>3. ASSUME run.parent = {}, NEW h \in n.grants, h.connection = c, h.slot = slot
      PROVE  Total(Uses(n), Roots(n, h)) + 1 <= h.usage
  <2>1. PICK g \in s.grants : h = Bill(g, c, slot)
    BY <1>1
  <2>2. /\ h.connection = g.connection /\ h.slot = g.slot /\ h.epoch = g.epoch
        /\ h.usage = IF g.connection = c /\ g.slot = slot THEN g.usage + 1 ELSE g.usage
    BY <1>0, <2>1 DEF Bill, Charged, GrantFields
  <2>3. Roots(n, h) = Roots(s, g) /\ Roots(s, g) \in SUBSET DOMAIN s.runs
    BY <1>1, <2>2 DEF Roots
  <2>4. /\ Total(Uses(n), Roots(s, g)) \in Nat /\ Total(Uses(s), Roots(s, g)) \in Nat
        /\ Total(Uses(n), Roots(s, g)) <= Total(Uses(s), Roots(s, g))
    BY <1>3, <2>3, BilledRuns
  <2>5. Total(Uses(s), Roots(s, g)) <= g.usage
    BY DEF BudgetsOK
  <2>6. h.usage = g.usage + 1 /\ g.usage \in Nat
    BY <1>0, <1>3, <2>2
  <2> QED
    BY <2>3, <2>4, <2>5, <2>6
<1> QED
  BY <1>2, <1>3 DEF Room

\* With that room one run more keeps the accounts in order.
LEMMA RoomIsEnough ==
    ASSUME NEW s, NEW n, Shape(s), TreeOK(s), BudgetsOK(s), NEW id, id \notin DOMAIN s.runs,
           n.global = s.global, n.usage = s.usage, n.grants = s.grants, n.minted.grant = s.minted.grant,
           DOMAIN n.runs = DOMAIN s.runs \cup {id}, \A r \in DOMAIN s.runs : n.runs[r] = s.runs[r],
           n.runs[id].parent \subseteq DOMAIN s.runs, Room(s, n.runs[id]),
           \E g \in s.grants : g.epoch = n.runs[id].epoch /\ g.epoch \in Nat /\ g.epoch <= s.minted.grant
    PROVE  BudgetsOK(n)
<1>1. \A r \in DOMAIN s.runs : id \notin s.runs[r].parent
  BY DEF TreeOK, RunOK
<1>2. /\ \A r \in DOMAIN s.runs : s.runs[r].usage \in Nat /\ s.runs[r].usage > 0
      /\ \A Q \in SUBSET DOMAIN s.runs : Summable(Uses(s), Q)
  BY RunsAreFinite
<1>3. n.runs[id].usage = 1
  BY DEF Room
<1>4. ASSUME NEW R \in SUBSET DOMAIN s.runs
      PROVE  /\ Total(Uses(n), R) <= Total(Uses(s), R) /\ Total(Uses(n), R \cup {id}) <= Total(Uses(s), R) + 1
             /\ Total(Uses(n), R) \in Nat /\ Total(Uses(n), R \cup {id}) \in Nat /\ Total(Uses(s), R) \in Nat
  <2>1. Summable(Uses(s), R)
    BY <1>2
  <2>2. IsFiniteSet(R \cup {id})
    BY <2>1, FS_AddElement DEF Summable
  <2>3. Summable(Uses(n), R) /\ Summable(Uses(n), R \cup {id})
    BY <1>2, <1>3, <2>1, <2>2 DEF Summable, Uses
  <2>4. NoMore(Uses(n), R, Uses(s), R)
    BY <1>2 DEF NoMore, Uses
  <2>5. OneMore(Uses(n), R \cup {id}, Uses(s), R, id)
    BY <1>2, <1>3 DEF OneMore, Uses
  <2>6. Total(Uses(n), R) <= Total(Uses(s), R)
    BY <2>1, <2>3, <2>4, TotalIsBounded
  <2>7. Total(Uses(n), R \cup {id}) <= Total(Uses(s), R) + 1
    BY <2>1, <2>3, <2>5, TotalGrowsByOne
  <2> QED
    BY <2>1, <2>3, <2>6, <2>7, TotalIsNumber
<1>5. ASSUME NEW r \in DOMAIN s.runs PROVE Total(Uses(n), Children(n, r)) < n.runs[r].usage
  <2>1. Children(s, r) \in SUBSET DOMAIN s.runs
    BY DEF Children
  <2>2. /\ Total(Uses(s), Children(s, r)) < s.runs[r].usage /\ n.runs[r].usage = s.runs[r].usage
        /\ s.runs[r].usage \in Nat
    BY <1>2 DEF BudgetsOK
  <2>3. /\ Total(Uses(n), Children(s, r)) <= Total(Uses(s), Children(s, r))
        /\ Total(Uses(n), Children(s, r) \cup {id}) <= Total(Uses(s), Children(s, r)) + 1
        /\ Total(Uses(n), Children(s, r)) \in Nat /\ Total(Uses(n), Children(s, r) \cup {id}) \in Nat
        /\ Total(Uses(s), Children(s, r)) \in Nat
    BY <1>4, <2>1
  <2>4. CASE r \in n.runs[id].parent
    <3>1. Children(n, r) = Children(s, r) \cup {id}
      BY <2>4 DEF Children
    <3>2. Total(Uses(s), Children(s, r)) + 1 < s.runs[r].usage
      BY <2>4 DEF Room
    <3> QED
      BY <2>2, <2>3, <3>1, <3>2
  <2>5. CASE r \notin n.runs[id].parent
    <3>1. Children(n, r) = Children(s, r)
      BY <2>5 DEF Children
    <3> QED
      BY <2>2, <2>3, <3>1
  <2> QED
    BY <2>4, <2>5
<1>6. Total(Uses(n), Children(n, id)) < n.runs[id].usage
  <2>1. Children(n, id) = {}
    BY <1>1 DEF Children
  <2> QED
    BY <1>3, <2>1, SumOfNone
<1>7. ASSUME NEW g \in n.grants PROVE Total(Uses(n), Roots(n, g)) <= g.usage
  <2>1. Roots(s, g) \in SUBSET DOMAIN s.runs
    BY DEF Roots
  <2>2. Total(Uses(s), Roots(s, g)) <= g.usage /\ g.usage \in Nat
    BY DEF BudgetsOK
  <2>3. /\ Total(Uses(n), Roots(s, g)) <= Total(Uses(s), Roots(s, g))
        /\ Total(Uses(n), Roots(s, g) \cup {id}) <= Total(Uses(s), Roots(s, g)) + 1
        /\ Total(Uses(n), Roots(s, g)) \in Nat /\ Total(Uses(n), Roots(s, g) \cup {id}) \in Nat
        /\ Total(Uses(s), Roots(s, g)) \in Nat
    BY <1>4, <2>1
  <2>4. CASE /\ n.runs[id].connection = g.connection /\ n.runs[id].slot = g.slot
             /\ n.runs[id].epoch = g.epoch /\ n.runs[id].parent = {}
    <3>1. Roots(n, g) = Roots(s, g) \cup {id}
      BY <2>4 DEF Roots
    <3>2. Total(Uses(s), Roots(s, g)) + 1 <= g.usage
      BY <2>4 DEF Room
    <3> QED
      BY <2>2, <2>3, <3>1, <3>2
  <2>5. CASE ~(/\ n.runs[id].connection = g.connection /\ n.runs[id].slot = g.slot
               /\ n.runs[id].epoch = g.epoch /\ n.runs[id].parent = {})
    <3>1. Roots(n, g) = Roots(s, g)
      BY <2>5 DEF Roots
    <3> QED
      BY <2>2, <2>3, <3>1
  <2> QED
    BY <2>4, <2>5
<1>8. \A c \in Connections : Total(Costs(n), GrantsOf(n, c)) <= n.usage[c]
  BY DEF BudgetsOK, Costs, GrantsOf
<1>9. \A r \in DOMAIN n.runs : n.runs[r].epoch \in Nat /\ n.runs[r].epoch <= n.minted.grant
  BY DEF BudgetsOK
<1> QED
  BY <1>5, <1>6, <1>7, <1>8, <1>9 DEF BudgetsOK

-----------------------------------------------------------------------------
(* Steps that leave the work alone. *)

\* h covers what g covers.
SameCover(g, h) ==
    /\ g.connection = h.connection /\ g.slot = h.slot /\ g.epoch = h.epoch
    /\ g.expires = h.expires /\ g.sources = h.sources /\ g.controls = h.controls

\* Grants come, none goes, and a lease may end.
KeepsWork(n, s) ==
    /\ n.runs = s.runs /\ n.requests = s.requests /\ n.starts = s.starts /\ n.global = s.global
    /\ n.detached = s.detached /\ n.undelivered = s.undelivered
    /\ n.retired = s.retired /\ n.principals \cap s.retired = {}
    /\ n.minted.run = s.minted.run /\ n.minted.request >= s.minted.request
    /\ n.minted.grant >= s.minted.grant
    /\ \A g \in s.grants : \E h \in n.grants : SameCover(g, h)
    /\ \A h \in n.grants : \/ h.epoch \in Nat /\ h.epoch <= n.minted.grant /\ h.expires \in Nat
                           \/ \E g \in s.grants : SameCover(g, h)
    /\ \A g, h \in n.grants : g.epoch = h.epoch => g = h
    /\ \A x \in DOMAIN n.targets : \A w \in n.targets[x].writer :
          /\ x \in DOMAIN s.targets /\ w \in s.targets[x].writer
          /\ n.targets[x].generation = s.targets[x].generation
          /\ n.targets[x].epoch = s.targets[x].epoch
    /\ Frugal(n, s)

\* Such a step keeps everything that is known of the work.
LEMMA KeepsWorkIsOK ==
    ASSUME NEW s, NEW n, Shape(s), Shape(n), RunsOK(s), KeepsWork(n, s) PROVE RunsOK(n)
<1>0. /\ s.minted.run \in Nat /\ s.minted.grant \in Nat /\ n.minted.grant \in Nat
      /\ s.minted.request \in Nat /\ n.minted.request \in Nat
  BY DEF Shape, MintKinds
<1>1. TreeOK(n)
  BY DEF RunsOK, TreeOK, RunOK, KeepsWork
<1>2. EpochsOK(n)
  <2>1. ASSUME NEW h \in n.grants PROVE h.epoch \in Nat /\ h.epoch <= n.minted.grant /\ h.expires \in Nat
    BY <1>0 DEF RunsOK, EpochsOK, KeepsWork, SameCover
  <2> QED
    BY <2>1 DEF EpochsOK, RunsOK, KeepsWork
<1>3. CoveredOK(n)
  <2> SUFFICES ASSUME NEW r \in DOMAIN n.runs, n.runs[r].state = "Running"
               PROVE  \E g \in n.grants : Covers(g, n.runs[r])
    BY DEF CoveredOK
  <2>1. n.runs = s.runs
    BY DEF KeepsWork
  <2>2. PICK g \in s.grants : Covers(g, s.runs[r])
    BY <2>1 DEF RunsOK, CoveredOK
  <2>3. PICK h \in n.grants : SameCover(g, h)
    BY DEF KeepsWork
  <2> QED
    BY <2>1, <2>2, <2>3 DEF Covers, SameCover
<1>4. RequestsOK(n)
  <2>1. n.requests = s.requests /\ n.runs = s.runs /\ n.minted.request >= s.minted.request
    BY DEF KeepsWork
  <2>2. \A q \in n.requests : RequestOK(s, q)
    BY <2>1 DEF RunsOK, RequestsOK
  <2>3. \A q \in n.requests : RequestOK(n, q)
    BY <1>0, <2>1, <2>2 DEF RequestOK
  <2> QED
    BY <2>1, <2>3 DEF RunsOK, RequestsOK
<1>5. LeasesOK(n)
  BY DEF RunsOK, LeasesOK, LeaseOK, KeepsWork
<1>6. StartsOK(n)
  BY DEF RunsOK, StartsOK, KeepsWork
<1>7. DeliveryOK(n)
  BY DEF RunsOK, DeliveryOK, KeepsWork
<1>8. BudgetsOK(n)
  BY FrugalKeeps DEF KeepsWork, RunsOK
<1> QED
  BY <1>1, <1>2, <1>3, <1>4, <1>5, <1>6, <1>7, <1>8 DEF RunsOK

\* It leads to a later value when no grant is new, or a new one has a new epoch.
LEMMA KeepsWorkIsOnward ==
    ASSUME NEW s, NEW n, Shape(s), Shape(n), RunsOK(s), KeepsWork(n, s),
           \A h \in n.grants : h.epoch > s.minted.grant \/ \E g \in s.grants : SameCover(g, h)
    PROVE  Onward(n, s)
<1>0. /\ s.minted.run \in Nat /\ s.minted.grant \in Nat /\ n.minted.grant \in Nat
      /\ s.minted.request \in Nat /\ n.minted.request \in Nat
  BY DEF Shape, MintKinds
<1>8. RunsOK(n)
  BY KeepsWorkIsOK
<1>9. ASSUME NEW h \in n.grants
      PROVE  \/ h.epoch > s.minted.grant
             \/ \E g \in s.grants : /\ h.connection = g.connection /\ h.epoch = g.epoch
                                    /\ h.expires = g.expires /\ h.slot = g.slot
  BY <1>0 DEF KeepsWork, SameCover
<1>10. \A q \in n.requests : \E u \in s.requests : u.id = q.id /\ (u.committed => q.committed)
  <2>1. n.requests = s.requests
    BY DEF KeepsWork
  <2> QED
    BY <2>1, Zenon
<1>11. /\ n.minted.run >= s.minted.run /\ n.minted.grant >= s.minted.grant
       /\ n.minted.request >= s.minted.request
  BY <1>0 DEF KeepsWork
<1>12. /\ n.runs = s.runs /\ n.starts = s.starts /\ n.detached = s.detached
       /\ n.undelivered = s.undelivered /\ n.retired = s.retired
  BY DEF KeepsWork
<1>13. Later(n, s)
  BY <1>9, <1>10, <1>11, <1>12 DEF Later
<1> QED
  BY <1>8, <1>13 DEF Onward

-----------------------------------------------------------------------------
(* The end of runs. *)

\* Everything above a run's parent is above the run.
LEMMA LineageOfParent ==
    ASSUME NEW s, TreeOK(s), NEW r \in DOMAIN s.runs, NEW p \in s.runs[r].parent
    PROVE  Lineage(s, p) \subseteq Ancestors(s, r)
<1>1. p \in DOMAIN s.runs /\ \A q \in s.runs[p].parent : s.runs[q].parent = {}
  BY DEF TreeOK, RunOK
<1>2. \A q \in s.runs[p].parent : q \in DOMAIN s.runs
  BY <1>1 DEF TreeOK, RunOK
<1>3. Parents(s, r) = s.runs[r].parent /\ Parents(s, p) = s.runs[p].parent
  BY <1>1 DEF Parents
<1>4. \A q \in Parents(s, p) : Parents(s, q) = {}
  BY <1>1, <1>2, <1>3 DEF Parents
<1>5. p \in Ancestors(s, r) /\ Parents(s, p) \subseteq Ancestors(s, r)
  BY <1>3 DEF Ancestors
<1>6. Ancestors(s, p) \subseteq Parents(s, p)
  BY <1>4 DEF Ancestors
<1> QED
  BY <1>5, <1>6 DEF Lineage

\* A run without a parent has no ancestors.
LEMMA RootHasNone ==
    ASSUME NEW s, NEW r \in DOMAIN s.runs, s.runs[r].parent = {}
    PROVE  Ancestors(s, r) = {}
BY DEF Ancestors, Parents

\* The ancestors of a run are runs of its client, all running while it is.
LEMMA AncestorsOfRun ==
    ASSUME NEW s, TreeOK(s), NEW r \in DOMAIN s.runs, NEW a \in Lineage(s, r)
    PROVE  /\ a \in DOMAIN s.runs /\ s.runs[a].connection = s.runs[r].connection
           /\ s.runs[r].state = "Running" => s.runs[a].state = "Running"
<1> DEFINE Below(x, y) == /\ y \in DOMAIN s.runs /\ s.runs[y].connection = s.runs[x].connection
                          /\ s.runs[x].state = "Running" => s.runs[y].state = "Running"
<1>1. ASSUME NEW x \in DOMAIN s.runs, NEW y \in Parents(s, x) PROVE Below(x, y)
  <2>1. RunOK(s, x) /\ y \in s.runs[x].parent
    BY DEF TreeOK, Parents
  <2> QED
    BY <2>1 DEF RunOK
<1>2. CASE a = r
  BY <1>2
<1>3. CASE a \in Parents(s, r)
  BY <1>1, <1>3
<1>4. ASSUME NEW p \in Parents(s, r), a \in Parents(s, p) PROVE Below(r, a)
  <2>1. Below(r, p)
    BY <1>1
  <2>2. Below(p, a)
    BY <1>1, <1>4, <2>1
  <2> QED
    BY <2>1, <2>2
<1>5. ASSUME NEW p \in Parents(s, r), NEW q \in Parents(s, p), a \in Parents(s, q) PROVE Below(r, a)
  <2>1. Below(r, p)
    BY <1>1
  <2>2. Below(p, q)
    BY <1>1, <2>1
  <2>3. Below(q, a)
    BY <1>1, <1>5, <2>2
  <2> QED
    BY <2>1, <2>2, <2>3
<1>6. \/ a = r \/ a \in Parents(s, r) \/ \E p \in Parents(s, r) : a \in Parents(s, p)
      \/ \E p \in Parents(s, r) : \E q \in Parents(s, p) : a \in Parents(s, q)
  BY DEF Lineage, Ancestors
<1>7. Below(r, a)
  BY <1>2, <1>3, <1>4, <1>5, <1>6
<1> QED
  BY <1>7

\* The runs of ended stop, with their requests and leases; how a run ended
\* that had ended before stays.
Stops(n, s, ended) ==
    /\ n.minted = s.minted /\ n.principals = s.principals /\ n.retired = s.retired
    /\ n.starts = s.starts /\ n.global = s.global /\ n.usage = s.usage
    /\ s.detached \subseteq n.detached /\ s.undelivered \subseteq n.undelivered
    /\ DOMAIN n.runs = DOMAIN s.runs
    /\ \A r \in DOMAIN s.runs :
          /\ DOMAIN n.runs[r] = RunFields
          /\ \A f \in RunFields \ {"state"} : n.runs[r][f] = s.runs[r][f]
          /\ r \notin ended => n.runs[r].state = s.runs[r].state
          /\ r \in ended => /\ n.runs[r].state \in RunStates \ {"Running"}
                            /\ s.runs[r].state # "Running" => n.runs[r].state = s.runs[r].state
                            /\ r \in n.detached
                            /\ n.runs[r].state # "Completed" => r \in n.undelivered
    /\ n.requests = {q \in s.requests : q.run \notin ended}
    /\ SameTargets(n, s)
    /\ \A x \in DOMAIN s.targets :
          n.targets[x].writer = {w \in s.targets[x].writer : w.run \notin ended}

\* Stopping whole subtrees keeps what is known of the work, but for the grants,
\* as long as no call is cancelled whose workflow runs on.
LEMMA StoppedWork ==
    ASSUME NEW s, NEW n, Shape(s), RunsOK(s), NEW ended, Stops(n, s, ended),
           \A r \in DOMAIN s.runs : \A p \in s.runs[r].parent : p \in ended => r \in ended,
           \A r \in DOMAIN s.runs : \A x \in s.runs[r].started :
              n.runs[r].state = "Cancelled" /\ s.runs[r].state # "Cancelled"
                  => s.runs[x.run].state # "Running"
    PROVE  TreeOK(n) /\ RequestsOK(n) /\ LeasesOK(n) /\ StartsOK(n) /\ DeliveryOK(n)
<1>1. ASSUME NEW r \in DOMAIN s.runs
      PROVE  /\ DOMAIN n.runs[r] = RunFields /\ n.runs[r].state \in RunStates
             /\ n.runs[r].connection = s.runs[r].connection /\ n.runs[r].parent = s.runs[r].parent
             /\ n.runs[r].kind = s.runs[r].kind /\ n.runs[r].budget = s.runs[r].budget
             /\ n.runs[r].usage = s.runs[r].usage /\ n.runs[r].started = s.runs[r].started
             /\ n.runs[r].scope = s.runs[r].scope /\ n.runs[r].deadline = s.runs[r].deadline
             /\ n.runs[r].state = "Running" => s.runs[r].state = "Running" /\ r \notin ended
             /\ s.runs[r].state = "Running" /\ r \notin ended => n.runs[r].state = "Running"
  <2>1. s.runs[r].state \in RunStates
    BY DEF RunsOK, TreeOK, RunOK
  <2> QED
    BY <2>1 DEF Stops, RunFields
<1>2. TreeOK(n)
  <2>1. DOMAIN n.runs = DOMAIN s.runs /\ n.minted = s.minted /\ n.global = s.global
    BY DEF Stops
  <2>2. ASSUME NEW r \in DOMAIN s.runs PROVE RunOK(n, r)
    <3>1. RunOK(s, r)
      BY DEF RunsOK, TreeOK
    <3>2. /\ r \in Nat /\ 0 < r /\ r <= n.minted.run
          /\ DOMAIN n.runs[r] = RunFields /\ n.runs[r].state \in RunStates /\ n.runs[r].deadline \in Nat
          /\ n.runs[r].budget \in Nat /\ n.runs[r].usage \in 1 .. n.runs[r].budget
          /\ \A p, q \in n.runs[r].parent : p = q
          /\ n.runs[r].parent # {} => n.runs[r].kind = "Workflow"
          /\ n.runs[r].started # {} => n.runs[r].kind = "WorkflowStart"
      BY <1>1, <2>1, <3>1 DEF RunOK
    <3>3. ASSUME NEW p \in n.runs[r].parent
          PROVE  /\ p \in DOMAIN n.runs /\ p < r
                 /\ n.runs[p].connection = n.runs[r].connection
                 /\ \A q \in n.runs[p].parent : n.runs[q].parent = {}
                 /\ n.runs[r].state = "Running" => n.runs[p].state = "Running"
      <4>1. p \in s.runs[r].parent
        BY <1>1
      <4>2. /\ p \in DOMAIN s.runs /\ p < r /\ s.runs[p].connection = s.runs[r].connection
            /\ \A q \in s.runs[p].parent : s.runs[q].parent = {}
            /\ s.runs[r].state = "Running" => s.runs[p].state = "Running"
        BY <3>1, <4>1 DEF RunOK
      <4>3. \A q \in s.runs[p].parent : q \in DOMAIN s.runs
        BY <4>2 DEF RunsOK, TreeOK, RunOK
      <4>4. \A q \in n.runs[p].parent : n.runs[q].parent = {}
        BY <4>2, <4>3, <1>1
      <4>5. n.runs[r].state = "Running" => n.runs[p].state = "Running"
        BY <4>1, <4>2, <1>1
      <4> QED
        BY <1>1, <2>1, <4>2, <4>4, <4>5
    <3> QED
      BY <3>2, <3>3 DEF RunOK
  <2> QED
    BY <2>1, <2>2 DEF RunsOK, TreeOK
<1>3. RequestsOK(n)
  <2>1. /\ n.requests = {q \in s.requests : q.run \notin ended} /\ DOMAIN n.runs = DOMAIN s.runs
        /\ n.minted = s.minted
    BY DEF Stops
  <2>2. \A q \in n.requests : RequestOK(n, q)
    BY <1>1, <2>1 DEF RunsOK, RequestsOK, RequestOK
  <2> QED
    BY <2>1, <2>2 DEF RunsOK, RequestsOK
<1>4. LeasesOK(n)
  <2> SUFFICES ASSUME NEW x \in DOMAIN n.targets, NEW w \in n.targets[x].writer
               PROVE  LeaseOK(n, x, w)
    BY DEF LeasesOK
  <2>1. /\ x \in DOMAIN s.targets /\ w \in s.targets[x].writer /\ w.run \notin ended
        /\ n.targets[x].generation = s.targets[x].generation
        /\ n.targets[x].epoch = s.targets[x].epoch /\ DOMAIN n.runs = DOMAIN s.runs
    BY DEF Stops, SameTargets, SameReferences
  <2>2. LeaseOK(s, x, w)
    BY <2>1 DEF RunsOK, LeasesOK
  <2> QED
    BY <1>1, <2>1, <2>2 DEF LeaseOK
<1>5. StartsOK(n)
  <2>0. n.starts = s.starts /\ DOMAIN n.runs = DOMAIN s.runs /\ StartsOK(s)
    BY DEF Stops, RunsOK
  <2>1. \A y \in n.starts : /\ y.run \in DOMAIN n.runs
                            /\ n.runs[y.run].connection = y.connection
                            /\ n.runs[y.run].kind = "Workflow"
    BY <1>1, <2>0 DEF StartsOK
  <2>2. \A y, z \in n.starts : y.connection = z.connection /\ y.key = z.key => y = z
    BY <2>0 DEF StartsOK
  <2>3. ASSUME NEW r \in DOMAIN n.runs, NEW x \in n.runs[r].started
        PROVE  /\ \E y \in n.starts : y.connection = n.runs[r].connection /\ y.run = x.run
               /\ n.runs[r].state = "Cancelled" => n.runs[x.run].state # "Running"
    <3>1. x \in s.runs[r].started /\ r \in DOMAIN s.runs /\ n.runs[r].connection = s.runs[r].connection
      BY <1>1, <2>0
    <3>2. PICK y \in s.starts : y.connection = s.runs[r].connection /\ y.run = x.run
      BY <2>0, <3>1 DEF StartsOK
    <3>3. x.run \in DOMAIN s.runs
      BY <2>0, <3>2 DEF StartsOK
    <3>4. n.runs[r].state = "Cancelled" => s.runs[x.run].state # "Running"
      BY <2>0, <3>1 DEF StartsOK
    <3> QED
      BY <1>1, <2>0, <3>1, <3>2, <3>3, <3>4
  <2> QED
    BY <2>1, <2>2, <2>3 DEF StartsOK
<1>6. DeliveryOK(n)
  <2> SUFFICES ASSUME NEW r \in DOMAIN s.runs
               PROVE  /\ n.runs[r].state # "Running" => r \in n.detached
                      /\ n.runs[r].state \notin {"Running", "Completed"} => r \in n.undelivered
    BY DEF DeliveryOK, Stops
  <2>1. CASE r \in ended
    BY <2>1 DEF Stops
  <2>2. CASE r \notin ended
    BY <2>2 DEF Stops, RunsOK, DeliveryOK
  <2> QED
    BY <2>1, <2>2
<1> QED
  BY <1>2, <1>3, <1>4, <1>5, <1>6

\* Stopping runs leads to a later value when no grant is new.
LEMMA StoppedIsLater ==
    ASSUME NEW s, NEW n, Shape(s), RunsOK(s), NEW ended, Stops(n, s, ended), n.grants \subseteq s.grants
    PROVE  Later(n, s)
<1>1. s.minted.run \in Nat /\ s.minted.grant \in Nat /\ s.minted.request \in Nat
  BY DEF Shape, MintKinds
<1>2. n.requests \subseteq s.requests
  BY DEF Stops
<1>3. \A q \in n.requests : \E u \in s.requests : u.id = q.id /\ (u.committed => q.committed)
  BY <1>2, Zenon
<1>4. \A g \in n.grants : \E h \in s.grants : /\ g.connection = h.connection /\ g.epoch = h.epoch
                                              /\ g.expires = h.expires /\ g.slot = h.slot
  OBVIOUS
<1>5. /\ n.minted = s.minted /\ n.retired = s.retired /\ n.starts = s.starts
      /\ s.detached \subseteq n.detached /\ s.undelivered \subseteq n.undelivered
      /\ DOMAIN n.runs = DOMAIN s.runs
  BY DEF Stops
<1>6. \A r \in DOMAIN s.runs : s.runs[r].state # "Running" => n.runs[r].state = s.runs[r].state
  BY DEF Stops
<1> QED
  BY <1>1, <1>3, <1>4, <1>5, <1>6 DEF Later

\* cut stops the runs it is given and everything below them.
LEMMA CutStops ==
    ASSUME NEW s, Shape(s), TargetsOK(s), TreeOK(s), DeliveryOK(s), NEW ids, NEW state \in RunStates \ {"Running"}
    PROVE  /\ Stops(Cut(s, ids, state), s, Descendants(s, ids))
           /\ Cut(s, ids, state).grants = s.grants
           /\ \A r \in DOMAIN s.runs : Cut(s, ids, state).runs[r].state = "Cancelled" =>
                 s.runs[r].state = "Cancelled" \/ s.runs[r].parent # {} \/ (state = "Cancelled" /\ r \in ids)
<1> DEFINE n == Cut(s, ids, state)
           ended == Descendants(s, ids)
           below == {r \in ended : Ancestors(s, r) \cap ids # {}}
           final(r) == IF r \in below THEN "Cancelled" ELSE state
<1>1. /\ DOMAIN n = Fields /\ n.minted = s.minted /\ n.principals = s.principals /\ n.retired = s.retired
      /\ n.starts = s.starts /\ n.global = s.global /\ n.grants = s.grants
      /\ n.usage = s.usage
      /\ n.requests = {q \in s.requests : q.run \notin ended}
      /\ n.detached = s.detached \cup ended
  BY DEF Cut, Shape, Fields
<1>12. n.undelivered = s.undelivered \cup {r \in ended : final(r) # "Completed"}
  BY DEF Cut, Shape, Fields
<1>13. n.runs = [r \in DOMAIN s.runs |-> IF r \in ended THEN Closed(s.runs[r], final(r)) ELSE s.runs[r]]
  BY DEF Cut, Shape, Fields
<1>2. SameTargets(n, s)
  BY CutEffect
<1>3. \A x \in DOMAIN s.targets : n.targets[x].writer = {w \in s.targets[x].writer : w.run \notin ended}
  BY DEF Cut, Released, Shape, Fields, TargetsOK, TargetFields
<1>4. \A r \in DOMAIN s.runs : DOMAIN s.runs[r] = RunFields /\ s.runs[r].state \in RunStates
  BY DEF TreeOK, RunOK
<1>5. \A r : final(r) \in RunStates \ {"Running"}
  BY DEF RunStates
<1>6. ended \subseteq DOMAIN s.runs
  BY DEF Descendants
<1>7. ASSUME NEW r \in ended, final(r) = "Cancelled" PROVE s.runs[r].parent # {} \/ (state = "Cancelled" /\ r \in ids)
  <2>1. CASE r \in below
    <3>1. Ancestors(s, r) # {}
      BY <2>1
    <3> QED
      BY <1>6, <3>1, RootHasNone
  <2>2. CASE r \notin below
    <3>1. Lineage(s, r) \cap ids # {} /\ Ancestors(s, r) \cap ids = {}
      BY <2>2 DEF Descendants
    <3> QED
      BY <1>7, <2>2, <3>1 DEF Lineage
  <2> QED
    BY <2>1, <2>2
<1> HIDE DEF n, ended, final
<1>8. DOMAIN n.runs = DOMAIN s.runs
  BY <1>13
<1>9. ASSUME NEW r \in DOMAIN s.runs
      PROVE  /\ DOMAIN n.runs[r] = RunFields
             /\ \A f \in RunFields \ {"state"} : n.runs[r][f] = s.runs[r][f]
             /\ r \notin ended => n.runs[r].state = s.runs[r].state
             /\ r \in ended => n.runs[r].state = IF s.runs[r].state = "Running" THEN final(r) ELSE s.runs[r].state
  <2>1. n.runs[r] = IF r \in ended THEN Closed(s.runs[r], final(r)) ELSE s.runs[r]
    BY <1>13
  <2>2. DOMAIN s.runs[r] = RunFields
    BY <1>4
  <2>3. CASE r \in ended /\ s.runs[r].state = "Running"
    <3>1. n.runs[r] = [s.runs[r] EXCEPT !.state = final(r)]
      BY <2>1, <2>3 DEF Closed
    <3> QED
      BY <2>2, <2>3, <3>1 DEF RunFields
  <2>4. CASE ~(r \in ended /\ s.runs[r].state = "Running")
    <3>1. n.runs[r] = s.runs[r]
      BY <2>1, <2>4 DEF Closed
    <3> QED
      BY <2>2, <2>4, <3>1
  <2> QED
    BY <2>3, <2>4
<1>10. ASSUME NEW r \in ended
       PROVE  /\ n.runs[r].state \in RunStates \ {"Running"}
              /\ s.runs[r].state # "Running" => n.runs[r].state = s.runs[r].state
              /\ r \in n.detached
              /\ n.runs[r].state # "Completed" => r \in n.undelivered
  BY <1>1, <1>12, <1>4, <1>5, <1>6, <1>9 DEF DeliveryOK
<1>11. \A r \in DOMAIN s.runs : n.runs[r].state = "Cancelled" =>
          s.runs[r].state = "Cancelled" \/ s.runs[r].parent # {} \/ (state = "Cancelled" /\ r \in ids)
  BY <1>7, <1>9
<1> QED
  BY <1>1, <1>12, <1>2, <1>3, <1>6, <1>8, <1>9, <1>10, <1>11 DEF Stops, n, ended

\* What is below a run that a cut takes is taken too.
LEMMA DescendantsAreClosed ==
    ASSUME NEW s, TreeOK(s), NEW ids
    PROVE  /\ ids \cap DOMAIN s.runs \subseteq Descendants(s, ids)
           /\ \A r \in DOMAIN s.runs : \A p \in s.runs[r].parent :
                 p \in Descendants(s, ids) => r \in Descendants(s, ids)
<1>1. ids \cap DOMAIN s.runs \subseteq Descendants(s, ids)
  BY DEF Descendants, Lineage
<1>2. ASSUME NEW r \in DOMAIN s.runs, NEW p \in s.runs[r].parent, p \in Descendants(s, ids)
      PROVE  r \in Descendants(s, ids)
  <2>1. Lineage(s, p) \subseteq Lineage(s, r)
    BY LineageOfParent DEF Lineage
  <2>2. Lineage(s, p) \cap ids # {}
    BY <1>2 DEF Descendants
  <2> QED
    BY <2>1, <2>2 DEF Descendants
<1> QED
  BY <1>1, <1>2

\* A run that has started a workflow is not below another.
LEMMA StarterIsRoot ==
    ASSUME NEW s, TreeOK(s), NEW r \in DOMAIN s.runs, s.runs[r].parent # {} PROVE s.runs[r].started = {}
BY DEF TreeOK, RunOK

\* The run of a receipt has started nothing.
LEMMA ReceiptedRun ==
    ASSUME NEW s, RunsOK(s), NEW y \in s.starts
    PROVE  /\ y.run \in DOMAIN s.runs /\ s.runs[y.run].connection = y.connection
           /\ s.runs[y.run].kind = "Workflow" /\ s.runs[y.run].started = {}
<1>1. y.run \in DOMAIN s.runs /\ s.runs[y.run].connection = y.connection /\ s.runs[y.run].kind = "Workflow"
  BY DEF RunsOK, StartsOK
<1>2. RunOK(s, y.run)
  BY <1>1 DEF RunsOK, TreeOK
<1> QED
  BY <1>1, <1>2 DEF RunOK

\* Stopping leaves the runs that go on under their grants.
LEMMA StoppedIsCovered ==
    ASSUME NEW s, NEW n, RunsOK(s), NEW ended, Stops(n, s, ended), n.grants \subseteq s.grants,
           \A r \in DOMAIN s.runs \ ended : \A g \in s.grants :
              s.runs[r].state = "Running" /\ Covers(g, s.runs[r]) => g \in n.grants
    PROVE  EpochsOK(n) /\ CoveredOK(n)
<1>1. EpochsOK(n)
  BY DEF RunsOK, EpochsOK, Stops
<1>2. ASSUME NEW r \in DOMAIN n.runs, n.runs[r].state = "Running"
      PROVE  \E g \in n.grants : Covers(g, n.runs[r])
  <2>1. r \in DOMAIN s.runs /\ r \notin ended /\ s.runs[r].state = "Running"
    BY <1>2 DEF Stops
  <2>2. PICK g \in s.grants : Covers(g, s.runs[r])
    BY <2>1 DEF RunsOK, CoveredOK
  <2>3. g \in n.grants
    BY <2>1, <2>2
  <2>4. /\ n.runs[r].connection = s.runs[r].connection /\ n.runs[r].slot = s.runs[r].slot
        /\ n.runs[r].epoch = s.runs[r].epoch /\ n.runs[r].deadline = s.runs[r].deadline
        /\ n.runs[r].sources = s.runs[r].sources /\ n.runs[r].controls = s.runs[r].controls
    BY <2>1 DEF Stops, RunFields
  <2> QED
    BY <2>2, <2>3, <2>4 DEF Covers
<1> QED
  BY <1>1, <1>2 DEF CoveredOK

\* No account is lowered: what ended runs have used stays used.
LEMMA StoppedIsFrugal ==
    ASSUME NEW s, NEW n, Shape(s), Shape(n), RunsOK(s), NEW ended, Stops(n, s, ended), n.grants \subseteq s.grants
    PROVE  BudgetsOK(n)
<1>1. s.minted.grant \in Nat /\ IsFiniteSet(s.grants) /\ TreeOK(s) /\ BudgetsOK(s)
  BY DEF Shape, MintKinds, RunsOK, BudgetsOK
<1>2. IsFiniteSet(n.grants)
  BY <1>1, FS_Subset
<1>3. \A r \in DOMAIN s.runs :
         /\ n.runs[r].usage = s.runs[r].usage /\ n.runs[r].parent = s.runs[r].parent
         /\ n.runs[r].connection = s.runs[r].connection /\ n.runs[r].slot = s.runs[r].slot
         /\ n.runs[r].epoch = s.runs[r].epoch
  BY DEF Stops, RunFields
<1>4. DOMAIN n.runs = DOMAIN s.runs /\ n.minted = s.minted /\ n.global = s.global /\ n.usage = s.usage
  BY DEF Stops
<1>5. Frugal(n, s)
  BY <1>1, <1>2, <1>3, <1>4 DEF Frugal
<1> QED
  BY <1>1, <1>5, FrugalKeeps

\* cut keeps what is known of the work; who cancels a call stops its workflow
\* first.
LEMMA CutIsOnward ==
    ASSUME NEW s, Good(s), RunsOK(s), NEW ids, NEW state \in RunStates \ {"Running"},
           state = "Cancelled" => \A r \in ids \cap DOMAIN s.runs : \A x \in s.runs[r].started :
                                     s.runs[x.run].state # "Running"
    PROVE  Onward(Cut(s, ids, state), s)
<1> DEFINE n == Cut(s, ids, state)
           ended == Descendants(s, ids)
<1>1. Shape(s) /\ TargetsOK(s) /\ TreeOK(s) /\ DeliveryOK(s)
  BY DEF Good, RunsOK
<1>2. /\ Stops(n, s, ended) /\ n.grants = s.grants
      /\ \A r \in DOMAIN s.runs : n.runs[r].state = "Cancelled" =>
            s.runs[r].state = "Cancelled" \/ s.runs[r].parent # {} \/ (state = "Cancelled" /\ r \in ids)
  BY <1>1, CutStops
<1>3. \A r \in DOMAIN s.runs : \A p \in s.runs[r].parent : p \in ended => r \in ended
  BY <1>1, DescendantsAreClosed
<1>0. Shape(n)
  BY CutIsGood DEF Good
<1> HIDE DEF n, ended
<1>4. \A r \in DOMAIN s.runs : \A x \in s.runs[r].started :
         n.runs[r].state = "Cancelled" /\ s.runs[r].state # "Cancelled" => s.runs[x.run].state # "Running"
  BY <1>1, <1>2, StarterIsRoot
<1>5. TreeOK(n) /\ RequestsOK(n) /\ LeasesOK(n) /\ StartsOK(n) /\ DeliveryOK(n)
  BY <1>1, <1>2, <1>3, <1>4, StoppedWork
<1>6. Later(n, s)
  BY <1>1, <1>2, StoppedIsLater
<1>7. EpochsOK(n) /\ CoveredOK(n)
  BY <1>2, StoppedIsCovered
<1>8. BudgetsOK(n)
  BY <1>0, <1>1, <1>2, StoppedIsFrugal
<1> QED
  BY <1>5, <1>6, <1>7, <1>8 DEF Onward, RunsOK, n

\* RevokeSlots stops the runs of the slots with everything below them.
LEMMA RevokeStops ==
    ASSUME NEW s, Good(s), RunsOK(s), NEW slots
    PROVE  \E ended :
              /\ Stops(RevokeSlots(s, slots), s, ended)
              /\ \A r \in DOMAIN s.runs : \A p \in s.runs[r].parent : p \in ended => r \in ended
              /\ \A r \in DOMAIN s.runs : s.runs[r].state = "Running"
                    /\ <<s.runs[r].connection, s.runs[r].slot>> \in slots => r \in ended
              /\ \A r \in DOMAIN s.runs : RevokeSlots(s, slots).runs[r].state = "Cancelled" =>
                    s.runs[r].state = "Cancelled" \/ s.runs[r].parent # {}
<1> DEFINE d == Dropped(s, slots)
           f == DiscardStaleProposals(d, {x[1] : x \in slots})
           ids == {r \in DOMAIN f.runs : f.runs[r].state = "Running"
                                         /\ <<f.runs[r].connection, f.runs[r].slot>> \in slots}
           n == Cut(f, ids, "Interrupted")
           ended == Descendants(f, ids)
<1>1. n = RevokeSlots(s, slots)
  BY DEF RevokeSlots
<1>2. Shape(s) /\ TargetsOK(s) /\ GrantsOK(s) /\ TreeOK(s) /\ DeliveryOK(s)
  BY DEF Good, RunsOK
<1>3. /\ DOMAIN d = Fields /\ d.principals = s.principals /\ d.retired = s.retired
      /\ d.proposals = s.proposals /\ d.forgotten = s.forgotten /\ d.minted = s.minted
      /\ d.usage = s.usage /\ d.targets = s.targets /\ d.starts = s.starts /\ d.runs = s.runs
      /\ d.requests = s.requests /\ d.global = s.global
      /\ d.detached = s.detached /\ d.undelivered = s.undelivered
  BY <1>2 DEF Dropped, Shape, Fields
<1>4. /\ DOMAIN d.consent = Connections
      /\ d.revisions = [c \in Connections |-> [k \in SlotKinds |-> s.revisions[c][k] + Bump(s, slots, c, k)]]
  BY <1>2 DEF Dropped, Shape, Fields
<1>5. d.revisions \in [Connections -> [SlotKinds -> Nat]]
  <2>1. \A c, k : Bump(s, slots, c, k) \in Nat
    BY <1>2, BumpCounts
  <2> QED
    BY <1>2, <1>4, <2>1 DEF Shape
<1> HIDE DEF d
<1>6. /\ DOMAIN f = Fields /\ f.principals = s.principals /\ f.retired = s.retired
      /\ f.proposals = s.proposals /\ f.forgotten = s.forgotten /\ f.minted = s.minted
      /\ f.usage = s.usage /\ f.targets = s.targets /\ f.starts = s.starts /\ f.runs = s.runs
      /\ f.requests = s.requests /\ f.global = s.global
      /\ f.detached = s.detached /\ f.undelivered = s.undelivered
      /\ f.revisions = d.revisions /\ f.consent = d.consent
  BY <1>3 DEF DiscardStaleProposals, Fields
<1> HIDE DEF f
<1>7. Shape(f) /\ TargetsOK(f)
  BY <1>2, <1>4, <1>5, <1>6 DEF Shape, TargetsOK
<1>8. TreeOK(f) /\ DeliveryOK(f)
  BY <1>2, <1>6 DEF TreeOK, RunOK, DeliveryOK
<1>9. "Interrupted" \in RunStates \ {"Running"}
  BY DEF RunStates
<1> HIDE DEF ids
<1>10. /\ Stops(n, f, ended)
       /\ \A r \in DOMAIN f.runs : n.runs[r].state = "Cancelled" =>
             f.runs[r].state = "Cancelled" \/ f.runs[r].parent # {}
  BY <1>7, <1>8, <1>9, CutStops
<1>11. /\ ids \cap DOMAIN f.runs \subseteq ended
       /\ \A r \in DOMAIN f.runs : \A p \in f.runs[r].parent : p \in ended => r \in ended
  BY <1>8, DescendantsAreClosed
<1> HIDE DEF n, ended
<1>12. SameTargets(n, s)
  BY <1>6, <1>10 DEF Stops, SameTargets, SameReferences
<1>13. Stops(n, s, ended)
  BY <1>6, <1>10, <1>12 DEF Stops
<1>14. \A r \in DOMAIN s.runs : s.runs[r].state = "Running"
           /\ <<s.runs[r].connection, s.runs[r].slot>> \in slots => r \in ended
  BY <1>6, <1>11 DEF ids
<1> QED
  BY <1>1, <1>6, <1>10, <1>11, <1>13, <1>14

\* RevokeSlots keeps what is known of the work.
LEMMA RevokeIsOnward ==
    ASSUME NEW s, Good(s), RunsOK(s), NEW slots PROVE Onward(RevokeSlots(s, slots), s)
<1> DEFINE n == RevokeSlots(s, slots)
<1>1. Shape(s) /\ TargetsOK(s) /\ GrantsOK(s) /\ TreeOK(s)
  BY DEF Good, RunsOK
<1>2. n.grants = {g \in s.grants : <<g.connection, g.slot>> \notin slots}
  BY <1>1, RevokeEffect DEF Revoked
<1>3. PICK ended :
              /\ Stops(n, s, ended)
              /\ \A r \in DOMAIN s.runs : \A p \in s.runs[r].parent : p \in ended => r \in ended
              /\ \A r \in DOMAIN s.runs : s.runs[r].state = "Running"
                    /\ <<s.runs[r].connection, s.runs[r].slot>> \in slots => r \in ended
              /\ \A r \in DOMAIN s.runs : n.runs[r].state = "Cancelled" =>
                    s.runs[r].state = "Cancelled" \/ s.runs[r].parent # {}
  BY RevokeStops
<1>0. Shape(n)
  BY RevokeIsGood DEF Good
<1> HIDE DEF n
<1>4. \A r \in DOMAIN s.runs : \A x \in s.runs[r].started :
         n.runs[r].state = "Cancelled" /\ s.runs[r].state # "Cancelled" => s.runs[x.run].state # "Running"
  BY <1>1, <1>3, StarterIsRoot
<1>5. TreeOK(n) /\ RequestsOK(n) /\ LeasesOK(n) /\ StartsOK(n) /\ DeliveryOK(n)
  BY <1>1, <1>3, <1>4, StoppedWork
<1>6. n.grants \subseteq s.grants
  BY <1>2
<1>7. Later(n, s)
  BY <1>1, <1>3, <1>6, StoppedIsLater
<1>8. \A r \in DOMAIN s.runs \ ended : \A g \in s.grants :
              s.runs[r].state = "Running" /\ Covers(g, s.runs[r]) => g \in n.grants
  BY <1>2, <1>3 DEF Covers
<1>9. EpochsOK(n) /\ CoveredOK(n)
  BY <1>3, <1>6, <1>8, StoppedIsCovered
<1>10. BudgetsOK(n)
  BY <1>0, <1>1, <1>3, <1>6, StoppedIsFrugal
<1> QED
  BY <1>5, <1>7, <1>9, <1>10 DEF Onward, RunsOK, n

-----------------------------------------------------------------------------
(* Chains of internal steps. *)

Sound(s) == Good(s) /\ RunsOK(s)
Goes(n, s) == Good(n) /\ Onward(n, s)

\* A step after a step.
LEMMA GoesChain ==
    ASSUME NEW s, NEW m, NEW n, Sound(s), Goes(m, s), Goes(n, m) PROVE Goes(n, s) /\ Sound(m) /\ Sound(n)
BY OnwardChain DEF Sound, Goes, Good, Onward

\* Where one arrives is sound.
LEMMA GoesIsSound ==
    ASSUME NEW s, NEW n, Goes(n, s) PROVE Sound(n)
BY DEF Sound, Goes, Onward

\* The two values differ in what they say of authority on paper: proposals,
\* registrations, revisions, consents.
Paper(n, s) ==
    /\ n.runs = s.runs /\ n.requests = s.requests /\ n.starts = s.starts /\ n.global = s.global
    /\ n.detached = s.detached /\ n.undelivered = s.undelivered
    /\ n.retired = s.retired /\ n.principals = s.principals /\ n.targets = s.targets
    /\ n.grants = s.grants /\ n.minted.run = s.minted.run /\ n.minted.request = s.minted.request
    /\ n.minted.grant >= s.minted.grant /\ n.usage = s.usage

\* Such a step leaves the work alone.
LEMMA PaperGoes ==
    ASSUME NEW s, NEW n, Sound(s), Good(n), Paper(n, s) PROVE Goes(n, s)
<1>1. Shape(s) /\ Shape(n) /\ RunsOK(s)
  BY DEF Sound, Good
<1>2. s.minted.run \in Nat /\ s.minted.grant \in Nat /\ s.minted.request \in Nat
  BY <1>1 DEF Shape, MintKinds
<1>3. \A g \in s.grants : SameCover(g, g)
  BY DEF SameCover
<1>4. (\A g, h \in s.grants : g.epoch = h.epoch => g = h) /\ s.principals \cap s.retired = {}
  BY <1>1 DEF RunsOK, EpochsOK
<1>7. IsFiniteSet(s.grants)
  BY <1>1 DEF RunsOK, BudgetsOK
<1>8. Frugal(n, s)
  BY <1>2, <1>7 DEF Frugal, Paper
<1>5. KeepsWork(n, s)
  BY <1>2, <1>3, <1>4, <1>8 DEF KeepsWork, Paper
<1>6. \A h \in n.grants : \E g \in s.grants : SameCover(g, h)
  BY <1>3 DEF Paper
<1> QED
  BY <1>1, <1>5, <1>6, KeepsWorkIsOnward DEF Goes

\* One more identifier, of a kind that is not a run's or a request's.
LEMMA MintGoes ==
    ASSUME NEW s, Sound(s), NEW kind \in MintKinds \ {"run", "request"} PROVE Goes(Mint(s, kind), s)
<1> DEFINE n == Mint(s, kind)
<1>1. Good(n)
  BY MintIsGood DEF Sound
<1>2. Shape(s) /\ (\A f \in Fields \ {"minted"} : n[f] = s[f])
  BY MintEffect DEF Sound, Good
<1>3. /\ n.runs = s.runs /\ n.requests = s.requests /\ n.starts = s.starts /\ n.global = s.global
      /\ n.detached = s.detached /\ n.undelivered = s.undelivered
      /\ n.retired = s.retired /\ n.principals = s.principals /\ n.targets = s.targets
      /\ n.grants = s.grants /\ n.usage = s.usage
  BY <1>2 DEF Fields
<1>4. n.minted = [s.minted EXCEPT ![kind] = @ + 1]
  BY <1>2 DEF Mint, Shape, Fields
<1> HIDE DEF n
<1>5. /\ n.minted.run = s.minted.run /\ n.minted.request = s.minted.request
      /\ n.minted.grant >= s.minted.grant
  BY <1>2, <1>4 DEF Shape, MintKinds
<1> QED
  BY <1>1, <1>3, <1>5, PaperGoes DEF Paper, n

\* cut and revocation, with the invariant of authority.
LEMMA CutGoes ==
    ASSUME NEW s, Sound(s), NEW ids, NEW state \in RunStates \ {"Running"},
           state = "Cancelled" => \A r \in ids \cap DOMAIN s.runs : \A x \in s.runs[r].started :
                                     s.runs[x.run].state # "Running"
    PROVE  Goes(Cut(s, ids, state), s)
BY CutIsOnward, CutIsGood DEF Sound, Goes

LEMMA RevokeGoes ==
    ASSUME NEW s, Sound(s), NEW slots PROVE Goes(RevokeSlots(s, slots), s)
BY RevokeIsOnward, RevokeIsGood DEF Sound, Goes

\* Proposals that are dropped.
LEMMA FewerGoes ==
    ASSUME NEW s, Sound(s), NEW ps, ps \subseteq s.pending PROVE Goes([s EXCEPT !.pending = ps], s)
<1> DEFINE n == [s EXCEPT !.pending = ps]
<1>1. Good(n)
  BY FewerProposals DEF Sound
<1>2. s.minted \in [MintKinds -> Nat] /\ DOMAIN s = Fields
  BY DEF Sound, Good, Shape
<1>3. Paper(n, s)
  BY <1>2 DEF Paper, Fields, MintKinds
<1> QED
  BY <1>1, <1>3, PaperGoes

\* poll_expiry.
LEMMA PollGoes ==
    ASSUME NEW s, Sound(s) PROVE Goes(PollExpiry(s), s)
<1> DEFINE timely == [s EXCEPT !.pending = {p \in @ : now < p.expires}]
           late == {r \in DOMAIN s.runs : s.runs[r].state = "Running" /\ now >= s.runs[r].deadline}
           ended == Cut(timely, late, "TimedOut")
           slots == {<<g.connection, g.slot>> : g \in {x \in s.grants : now >= x.expires}}
           n == RevokeSlots(ended, slots)
<1>1. n = PollExpiry(s)
  BY DEF PollExpiry
<1>2. Goes(timely, s)
  <2>1. {p \in s.pending : now < p.expires} \subseteq s.pending
    OBVIOUS
  <2> QED
    BY <2>1, FewerGoes
<1> HIDE DEF timely, late
<1>3. "TimedOut" \in RunStates \ {"Running"} /\ "TimedOut" # "Cancelled"
  BY DEF RunStates
<1>4. Goes(ended, timely)
  BY <1>2, <1>3, CutGoes, GoesIsSound
<1> HIDE DEF ended, slots
<1>5. Goes(n, ended)
  BY <1>4, RevokeGoes, GoesIsSound
<1> HIDE DEF n
<1>6. Goes(ended, s)
  BY <1>2, <1>4, GoesChain
<1> QED
  BY <1>1, <1>5, <1>6, GoesChain

\* invalidate_target.
LEMMA InvalidateGoes ==
    ASSUME NEW s, Sound(s), NEW ref PROVE Goes(InvalidateTarget(s, ref), s)
<1> DEFINE bound == {r \in s.registrations : r.enrollment # 0 /\ r.target = ref}
           l == RevokeSlots(s, EnrollmentSlots(s, bound))
           loose == Loosened(s, ref)
           slots == {<<g.connection, g.slot>> :
                         g \in {x \in loose.grants : /\ x.slot \in {Ordinary, Metadata}
                                                     /\ ref \in GrantTargets(x)}}
           freed == RevokeSlots(loose, slots)
           n == [freed EXCEPT !.pending = {p \in @ : ref \notin GrantTargets(p)}]
<1>1. n = InvalidateTarget(s, ref)
  BY DEF InvalidateTarget, Loosened
<1>2. Goes(l, s)
  BY RevokeGoes
<1>3. loose = [l EXCEPT !.registrations = {r \in @ : r.enrollment = 0 \/ r.target # ref}]
  BY DEF Loosened
<1>4. Good(loose)
  BY InvalidateEffect DEF Sound
<1> HIDE DEF l, loose
<1>5. DOMAIN l = Fields /\ l.minted \in [MintKinds -> Nat]
  BY <1>2 DEF Goes, Good, Shape
<1>6. Paper(loose, l)
  BY <1>3, <1>5 DEF Paper, Fields, MintKinds
<1>7. Goes(loose, s) /\ Sound(loose)
  BY <1>2, <1>4, <1>6, PaperGoes, GoesIsSound, GoesChain
<1> HIDE DEF slots
<1>8. Goes(freed, loose)
  BY <1>7, RevokeGoes
<1> HIDE DEF freed
<1>9. Goes(freed, s) /\ Sound(freed)
  BY <1>7, <1>8, GoesChain
<1>10. Goes(n, freed)
  <2>1. {p \in freed.pending : ref \notin GrantTargets(p)} \subseteq freed.pending
    OBVIOUS
  <2> QED
    BY <1>9, <2>1, FewerGoes
<1> QED
  BY <1>1, <1>9, <1>10, GoesChain

\* revoke: no run of the client goes on.
LEMMA ClientGoes ==
    ASSUME NEW s, Sound(s), NEW c \in Connections
    PROVE  /\ Goes(Revoke(s, c), s) /\ Revoke(s, c).retired = s.retired
           /\ \A r \in DOMAIN Revoke(s, c).runs :
                 Revoke(s, c).runs[r].connection = c => Revoke(s, c).runs[r].state # "Running"
<1> DEFINE mine == {r \in s.registrations : r.connection = c}
           slots == {<<c, Ordinary>>, <<c, Metadata>>} \cup EnrollmentSlots(s, mine)
           cut == RevokeSlots(s, slots)
           n == Revoke(s, c)
<1>1. n = [cut EXCEPT !.registrations = {IF r.connection = c THEN [r EXCEPT !.review = 0, !.decision = {}]
                                         ELSE r : r \in @},
                      !.pending = {p \in @ : p.connection # c}]
  BY DEF Revoke
<1>2. Goes(cut, s)
  BY RevokeGoes
<1>3. Good(n) /\ n.retired = s.retired /\ \A g \in n.grants : g.connection # c
  BY ClientEffect DEF Sound
<1> HIDE DEF cut, n
<1>4. DOMAIN cut = Fields /\ cut.minted \in [MintKinds -> Nat]
  BY <1>2 DEF Goes, Good, Shape
<1>5. Paper(n, cut)
  BY <1>1, <1>4 DEF Paper, Fields, MintKinds
<1>6. Goes(n, s)
  BY <1>2, <1>3, <1>5, PaperGoes, GoesIsSound, GoesChain
<1>7. \A r \in DOMAIN n.runs : n.runs[r].connection = c => n.runs[r].state # "Running"
  BY <1>3, <1>6 DEF Goes, Onward, RunsOK, CoveredOK, Covers
<1> QED
  BY <1>3, <1>6, <1>7 DEF n

\* The runs of some client, all ended, and its receipts are gone.
Left(n, s, c) ==
    /\ n.runs = [r \in {x \in DOMAIN s.runs : s.runs[x].connection # c} |-> s.runs[r]]
    /\ n.starts = {x \in s.starts : x.connection # c}
    /\ n.principals = s.principals \ {c} /\ n.retired = s.retired \cup {c}
    /\ n.requests = s.requests /\ n.global = s.global
    /\ n.detached = s.detached /\ n.undelivered = s.undelivered /\ n.targets = s.targets
    /\ n.grants = s.grants /\ n.minted = s.minted /\ n.usage = s.usage

\* A client that leaves takes nothing along that others need.
LEMMA LeftGoes ==
    ASSUME NEW s, NEW n, Sound(s), Good(n), NEW c, Left(n, s, c),
           \A r \in DOMAIN s.runs : s.runs[r].connection = c => s.runs[r].state # "Running"
    PROVE  Goes(n, s)
<1>0. RunsOK(s) /\ s.minted.run \in Nat /\ s.minted.grant \in Nat /\ s.minted.request \in Nat
  BY DEF Sound, Good, Shape, MintKinds
<1>1. /\ DOMAIN n.runs = {x \in DOMAIN s.runs : s.runs[x].connection # c}
      /\ \A r \in DOMAIN n.runs : n.runs[r] = s.runs[r]
  BY DEF Left
<1>2. TreeOK(n)
  <2>1. ASSUME NEW r \in DOMAIN n.runs PROVE RunOK(n, r)
    <3>1. RunOK(s, r) /\ n.runs[r] = s.runs[r] /\ n.minted = s.minted
      BY <1>0, <1>1 DEF RunsOK, TreeOK, Left
    <3>2. \A p \in s.runs[r].parent : p \in DOMAIN n.runs
      BY <1>1, <3>1 DEF RunOK
    <3>3. \A p \in s.runs[r].parent : \A q \in s.runs[p].parent : q \in DOMAIN n.runs
      BY <1>0, <1>1, <3>2 DEF RunsOK, TreeOK, RunOK
    <3>4. \A p \in s.runs[r].parent : n.runs[p] = s.runs[p]
                                      /\ \A q \in s.runs[p].parent : n.runs[q] = s.runs[q]
      BY <1>1, <3>2, <3>3
    <3> QED
      BY <3>1, <3>2, <3>4 DEF RunOK
  <2> QED
    BY <1>0, <2>1 DEF RunsOK, TreeOK, Left
<1>3. EpochsOK(n)
  <2>1. c \notin n.principals
    BY DEF Left
  <2> QED
    BY <1>0, <2>1 DEF RunsOK, EpochsOK, Left
<1>4. CoveredOK(n)
  BY <1>0, <1>1 DEF RunsOK, CoveredOK, Left
<1>5. RequestsOK(n)
  <2>1. n.requests = s.requests /\ n.minted = s.minted
    BY DEF Left
  <2>2. \A q \in n.requests : RequestOK(s, q)
    BY <1>0, <2>1 DEF RunsOK, RequestsOK
  <2>3. \A q \in n.requests : RequestOK(n, q)
    BY <1>1, <2>1, <2>2 DEF RequestOK
  <2> QED
    BY <1>0, <2>1, <2>3 DEF RunsOK, RequestsOK
<1>6. LeasesOK(n)
  <2> SUFFICES ASSUME NEW x \in DOMAIN n.targets, NEW w \in n.targets[x].writer PROVE LeaseOK(n, x, w)
    BY DEF LeasesOK
  <2>1. n.targets = s.targets
    BY DEF Left
  <2>2. LeaseOK(s, x, w)
    BY <1>0, <2>1 DEF RunsOK, LeasesOK
  <2> QED
    BY <1>1, <2>1, <2>2 DEF LeaseOK
<1>7. StartsOK(n)
  <2>0. StartsOK(s) /\ n.starts = {x \in s.starts : x.connection # c}
    BY <1>0 DEF RunsOK, Left
  <2>1. \A y \in n.starts : /\ y.run \in DOMAIN n.runs
                            /\ n.runs[y.run].connection = y.connection
                            /\ n.runs[y.run].kind = "Workflow"
    BY <1>1, <2>0 DEF StartsOK
  <2>2. \A y, z \in n.starts : y.connection = z.connection /\ y.key = z.key => y = z
    BY <2>0 DEF StartsOK
  <2>3. ASSUME NEW r \in DOMAIN n.runs, NEW x \in n.runs[r].started
        PROVE  /\ \E y \in n.starts : y.connection = n.runs[r].connection /\ y.run = x.run
               /\ n.runs[r].state = "Cancelled" => n.runs[x.run].state # "Running"
    <3>1. r \in DOMAIN s.runs /\ n.runs[r] = s.runs[r] /\ s.runs[r].connection # c
      BY <1>1
    <3>2. PICK y \in s.starts : y.connection = s.runs[r].connection /\ y.run = x.run
      BY <2>0, <3>1 DEF StartsOK
    <3>3. y \in n.starts
      BY <2>0, <3>1, <3>2
    <3>4. n.runs[x.run] = s.runs[x.run]
      BY <1>1, <2>1, <3>2, <3>3
    <3>5. s.runs[r].state = "Cancelled" => s.runs[x.run].state # "Running"
      BY <2>0, <3>1 DEF StartsOK
    <3> QED
      BY <3>1, <3>2, <3>3, <3>4, <3>5
  <2> QED
    BY <2>1, <2>2, <2>3 DEF StartsOK
<1>8. DeliveryOK(n)
  BY <1>0, <1>1 DEF RunsOK, DeliveryOK, Left
<1>9. \A q \in n.requests : \E u \in s.requests : u.id = q.id /\ (u.committed => q.committed)
  <2>1. n.requests = s.requests
    BY DEF Left
  <2> QED
    BY <2>1, Zenon
<1>10. Later(n, s)
  <2>1. /\ n.minted = s.minted /\ n.grants = s.grants /\ n.detached = s.detached
        /\ n.undelivered = s.undelivered /\ s.retired \subseteq n.retired
        /\ \A y \in s.starts : y \in n.starts \/ y.connection \in n.retired
    BY DEF Left
  <2> QED
    BY <1>0, <1>1, <1>9, <2>1 DEF Later
<1>11. BudgetsOK(n)
  <2>1. IsFiniteSet(s.grants) /\ TreeOK(s) /\ BudgetsOK(s) /\ Shape(s) /\ Shape(n)
    BY <1>0 DEF RunsOK, BudgetsOK, Sound, Good
  <2>2. /\ n.minted = s.minted /\ n.grants = s.grants /\ n.global = s.global /\ n.usage = s.usage
    BY DEF Left
  <2>3. Frugal(n, s)
    BY <1>0, <1>1, <2>1, <2>2 DEF Frugal
  <2> QED
    BY <2>1, <2>3, FrugalKeeps
<1> QED
  BY <1>2, <1>3, <1>4, <1>5, <1>6, <1>7, <1>8, <1>10, <1>11 DEF Goes, Onward, RunsOK

\* disconnect.
LEMMA DisconnectGoes ==
    ASSUME NEW s, Sound(s), NEW c \in Connections PROVE Goes(Disconnected(s, c), s)
<1> DEFINE cut == Revoke(s, c)
           n == Disconnected(s, c)
<1>1. /\ Goes(cut, s)
      /\ \A r \in DOMAIN cut.runs : cut.runs[r].connection = c => cut.runs[r].state # "Running"
  BY ClientGoes
<1>2. Good(n)
  BY DisconnectEffect DEF Sound
<1>3. n = [cut EXCEPT !.principals = @ \ {c},
                      !.retired = @ \cup {c},
                      !.registrations = {r \in @ : r.connection # c},
                      !.runs = [r \in {x \in DOMAIN @ : @[x].connection # c} |-> @[r]],
                      !.starts = {x \in @ : x.connection # c}]
  BY DEF Disconnected
<1> HIDE DEF n, cut
<1>4. DOMAIN cut = Fields
  BY <1>1 DEF Goes, Good, Shape
<1>5. Left(n, cut, c)
  BY <1>3, <1>4 DEF Left, Fields
<1>6. Goes(n, cut)
  BY <1>1, <1>2, <1>5, LeftGoes, GoesIsSound
<1> QED
  BY <1>1, <1>6, GoesChain DEF n

-----------------------------------------------------------------------------
(* The methods on authority, as steps of the work. *)

\* Paper follows paper.
LEMMA PaperChain ==
    ASSUME NEW s, NEW m, NEW n, Shape(s), Shape(m), n.minted \in [MintKinds -> Nat], Paper(m, s), Paper(n, m)
    PROVE  Paper(n, s)
<1>1. s.minted.grant \in Nat /\ m.minted.grant \in Nat /\ n.minted.grant \in Nat
  BY DEF Shape, MintKinds
<1> QED
  BY <1>1 DEF Paper

\* The same value, an identifier, another registration, another proposal.
LEMMA SameIsPaper ==
    ASSUME NEW s, Shape(s) PROVE Paper(s, s)
BY DEF Shape, MintKinds, Paper

LEMMA MintIsPaper ==
    ASSUME NEW s, Shape(s), NEW kind \in {"approval", "grant", "ownership", "registration"}
    PROVE  Shape(Mint(s, kind)) /\ Paper(Mint(s, kind), s)
<1> DEFINE n == Mint(s, kind)
<1>1. kind \in MintKinds
  BY DEF MintKinds
<1>2. Shape(n) /\ (\A f \in Fields \ {"minted"} : n[f] = s[f])
  BY <1>1, MintEffect
<1>3. n.minted = [s.minted EXCEPT ![kind] = @ + 1]
  BY DEF Mint, Shape, Fields
<1> HIDE DEF n
<1>4. /\ n.minted.run = s.minted.run /\ n.minted.request = s.minted.request
      /\ n.minted.grant >= s.minted.grant
  BY <1>1, <1>3 DEF Shape, MintKinds
<1>5. Paper(n, s)
  BY <1>2, <1>4 DEF Paper, Fields
<1> QED
  BY <1>2, <1>5 DEF n

LEMMA UpdateIsPaper ==
    ASSUME NEW s, Shape(s), NEW old, NEW new PROVE Paper(Update(s, old, new), s)
<1>1. s.minted.grant \in Nat /\ DOMAIN s = Fields
  BY DEF Shape, MintKinds
<1> QED
  BY <1>1 DEF Update, Paper, Fields

LEMMA RequestIsPaper ==
    ASSUME NEW s, Shape(s), NEW c, NEW p PROVE Paper(RequestPending(s, c, p), s)
<1> DEFINE m == Mint(s, "approval")
           n == [m EXCEPT !.pending = @ \cup {p}, !.proposals[c] = @ + 1]
<1>1. Shape(m) /\ Paper(m, s)
  BY MintIsPaper
<1> HIDE DEF m
<1>2. DOMAIN m = Fields /\ m.minted \in [MintKinds -> Nat]
  BY <1>1 DEF Shape
<1>3. Paper(n, m) /\ n.minted = m.minted
  BY <1>2 DEF Paper, Fields, MintKinds
<1>4. Paper(n, s)
  BY <1>1, <1>2, <1>3, PaperChain
<1> QED
  BY <1>4 DEF RequestPending, m

\* A method whose last change is one on paper.
LEMMA PaperMoves ==
    ASSUME NEW s, Sound(b), Goes(s, b), Good(b'), Paper(b', s) PROVE Goes(b', b)
BY PaperGoes, GoesIsSound, GoesChain

\* A method that leaves the broker alone.
LEMMA StillGoes ==
    ASSUME NEW s, Sound(s) PROVE Goes(s, s)
BY SameIsPaper, PaperGoes DEF Sound, Good

\* Connections and revocations.
LEMMA ConnectionsGo ==
    ASSUME Sound(b), Good(b'), NEW c \in Connections,
           \/ AcceptConnection(c) \/ Disconnect(c)
           \/ RevokeOrdinary(c) \/ RevokeMetadata(c) \/ RevokeConnection(c)
    PROVE  Goes(b', b)
<1>1. CASE AcceptConnection(c)
  <2>1. Shape(b) /\ Shape(b') /\ RunsOK(b) /\ DOMAIN b = Fields /\ b.minted \in [MintKinds -> Nat]
    BY DEF Sound, Good, Shape
  <2>2. /\ b' = [b EXCEPT !.principals = @ \cup {c}] /\ c \notin b.retired
    BY <1>1 DEF AcceptConnection
  <2>3. \A g \in b.grants : SameCover(g, g)
    BY DEF SameCover
  <2>4. /\ b'.runs = b.runs /\ b'.requests = b.requests /\ b'.starts = b.starts /\ b'.global = b.global
        /\ b'.detached = b.detached /\ b'.undelivered = b.undelivered /\ b'.retired = b.retired
        /\ b'.targets = b.targets /\ b'.grants = b.grants /\ b'.minted = b.minted
        /\ b'.principals = b.principals \cup {c} /\ b'.usage = b.usage
    BY <2>1, <2>2 DEF Fields
  <2>5. (\A g, h \in b.grants : g.epoch = h.epoch => g = h) /\ b.principals \cap b.retired = {}
    BY <2>1 DEF RunsOK, EpochsOK
  <2>7. b.minted.grant \in Nat /\ IsFiniteSet(b.grants)
    BY <2>1 DEF MintKinds, RunsOK, BudgetsOK
  <2>8. Frugal(b', b)
    BY <2>4, <2>7 DEF Frugal
  <2>6. KeepsWork(b', b)
    BY <2>1, <2>2, <2>3, <2>4, <2>5, <2>8 DEF KeepsWork, MintKinds
  <2> QED
    BY <2>1, <2>3, <2>4, <2>6, KeepsWorkIsOnward DEF Goes
<1>2. CASE Disconnect(c)
  BY <1>2, DisconnectGoes DEF Disconnect
<1>3. CASE RevokeOrdinary(c) \/ RevokeMetadata(c)
  BY <1>3, RevokeGoes DEF RevokeOrdinary, RevokeMetadata, RevokeSlot
<1>4. CASE RevokeConnection(c)
  BY <1>4, ClientGoes DEF RevokeConnection
<1> QED
  BY <1>1, <1>2, <1>3, <1>4

\* Proposals.
LEMMA ProposalsGo ==
    ASSUME Sound(b), Good(b'),
           \/ \E c, t : RequestApproval(c, t)
           \/ \E c, refs : RequestMetadataApproval(c, refs)
           \/ \E r : RequestEnrollmentMetadataApproval(r)
    PROVE  Goes(b', b)
<1> DEFINE s == PollExpiry(b)
<1>1. Goes(s, b) /\ Shape(s)
  BY PollGoes DEF Goes, Good
<1>2. \E c, p : b' = RequestPending(s, c, p)
  BY DEF RequestApproval, RequestMetadataApproval, RequestEnrollmentMetadataApproval
<1> HIDE DEF s
<1>3. Paper(b', s)
  BY <1>1, <1>2, RequestIsPaper
<1> QED
  BY <1>1, <1>3, PaperMoves

\* Registrations, candidates, reviews and their decisions.
LEMMA RegistrationsGo ==
    ASSUME Sound(b), Good(b'), NEW r, NEW t, NEW l,
           \/ PrepareControllerEnrollment(r, t)
           \/ ApproveControllerEnrollment(r, t)
           \/ PrepareEnrollmentMetadataReview(r) \/ CancelEnrollmentMetadataReview(r)
           \/ RevokeEnrollmentMetadataDecision(r) \/ ApproveEnrollmentMetadataReview(t, l)
    PROVE  Goes(b', b)
<1>1. ASSUME NEW s, Goes(s, b), NEW old, NEW new, b' = Update(s, old, new) PROVE Goes(b', b)
  <2>1. Shape(s)
    BY <1>1 DEF Goes, Good
  <2>2. Paper(b', s)
    BY <1>1, <2>1, UpdateIsPaper
  <2> QED
    BY <1>1, <2>2, PaperMoves
<1>2. ASSUME NEW s, Sound(s) PROVE Goes(Mint(s, "registration"), s)
  BY <1>2, MintGoes DEF MintKinds
<1>3. CASE PrepareControllerEnrollment(r, t)
  <2>1. \E new : b' = Update(Mint(b, "registration"), r, new)
    BY <1>3 DEF PrepareControllerEnrollment
  <2> QED
    BY <1>1, <1>2, <2>1
<1>4. CASE ApproveControllerEnrollment(r, t)
  <2> DEFINE s == Mint(b, "registration")
             cut == RevokeSlots(s, EnrollmentSlots(s, {r}))
  <2>1. \E old, new : b' = Update(cut, old, new)
    BY <1>4 DEF ApproveControllerEnrollment
  <2>2. Goes(s, b)
    BY <1>2
  <2> HIDE DEF s
  <2>3. Goes(cut, s)
    BY <2>2, RevokeGoes, GoesIsSound
  <2> HIDE DEF cut
  <2>4. Goes(cut, b)
    BY <2>2, <2>3, GoesChain
  <2> QED
    BY <1>1, <2>1, <2>4
<1>5. Goes(PollExpiry(b), b)
  BY PollGoes
<1>6. CASE PrepareEnrollmentMetadataReview(r)
  <2> DEFINE p == PollExpiry(b)
             s == Mint(p, "registration")
  <2>1. \E old, new : b' = Update(s, old, new)
    BY <1>6 DEF PrepareEnrollmentMetadataReview
  <2> HIDE DEF p
  <2>2. Goes(p, b)
    BY <1>5 DEF p
  <2>3. Goes(s, p)
    BY <1>2, <2>2, GoesIsSound
  <2> HIDE DEF s
  <2>4. Goes(s, b)
    BY <2>2, <2>3, GoesChain
  <2> QED
    BY <1>1, <2>1, <2>4
<1>7. CASE CancelEnrollmentMetadataReview(r) \/ RevokeEnrollmentMetadataDecision(r)
  <2>1. \E new : b' = Update(b, r, new)
    BY <1>7 DEF CancelEnrollmentMetadataReview, RevokeEnrollmentMetadataDecision
  <2> QED
    BY <1>1, <2>1, StillGoes
<1>8. CASE ApproveEnrollmentMetadataReview(t, l)
  <2>1. \E old, new : b' = Update(PollExpiry(b), old, new)
    BY <1>8 DEF ApproveEnrollmentMetadataReview
  <2> QED
    BY <1>1, <1>5, <2>1
<1> QED
  BY <1>3, <1>4, <1>6, <1>7, <1>8

\* The end of registrations and of proposals.
LEMMA EndingsGo ==
    ASSUME Sound(b), Good(b'), NEW x,
           \/ UnregisterControllerSession(x) \/ RevokeAll
           \/ RejectApproval(x) \/ RevokeEnrollmentMetadataGrant(x)
           \/ \E c, local : RegisterControllerSession(c, local)
    PROVE  Goes(b', b)
<1>1. ASSUME NEW s, Goes(s, b), NEW rs, NEW ps, b' = [s EXCEPT !.registrations = rs, !.pending = ps]
      PROVE  Goes(b', b)
  <2>1. DOMAIN s = Fields /\ s.minted \in [MintKinds -> Nat]
    BY <1>1 DEF Goes, Good, Shape
  <2>2. Paper(b', s)
    BY <1>1, <2>1 DEF Paper, Fields, MintKinds
  <2> QED
    BY <1>1, <2>2, PaperMoves
<1>2. \A slots : Goes(RevokeSlots(b, slots), b)
  BY RevokeGoes
<1>3. CASE UnregisterControllerSession(x)
  <2> DEFINE s == RevokeSlots(b, EnrollmentSlots(b, {x}))
  <2>1. b' = [s EXCEPT !.registrations = {r \in @ : r.id # x.id}]
    BY <1>3 DEF UnregisterControllerSession
  <2>2. Goes(s, b)
    BY <1>2
  <2> HIDE DEF s
  <2>3. DOMAIN s = Fields /\ s.minted \in [MintKinds -> Nat]
    BY <2>2 DEF Goes, Good, Shape
  <2>4. Paper(b', s)
    BY <2>1, <2>3 DEF Paper, Fields, MintKinds
  <2> QED
    BY <2>2, <2>4, PaperMoves
<1>4. CASE RevokeAll
  <2> DEFINE slots == {<<c, slot>> : c \in b.principals, slot \in {Ordinary, Metadata}}
                         \cup EnrollmentSlots(b, b.registrations)
  <2>1. b' = [RevokeSlots(b, slots) EXCEPT !.registrations = {}, !.pending = {}]
    BY <1>4 DEF RevokeAll
  <2> HIDE DEF slots
  <2> QED
    BY <1>1, <1>2, <2>1
<1>5. CASE RejectApproval(x)
  <2>1. b' = [b EXCEPT !.pending = @ \ {x}] /\ b.pending \ {x} \subseteq b.pending
    BY <1>5 DEF RejectApproval
  <2> QED
    BY <2>1, FewerGoes
<1>6. CASE RevokeEnrollmentMetadataGrant(x)
  BY <1>2, <1>6 DEF RevokeEnrollmentMetadataGrant, RevokeSlot
<1>7. ASSUME NEW c, NEW local, RegisterControllerSession(c, local) PROVE Goes(b', b)
  <2> DEFINE s == Mint(b, "registration")
  <2>1. \E rs : b' = [s EXCEPT !.registrations = rs]
    BY <1>7 DEF RegisterControllerSession
  <2>2. Goes(s, b)
    BY MintGoes DEF MintKinds
  <2> HIDE DEF s
  <2>3. DOMAIN s = Fields /\ s.minted \in [MintKinds -> Nat]
    BY <2>2 DEF Goes, Good, Shape
  <2>4. Paper(b', s)
    BY <2>1, <2>3 DEF Paper, Fields, MintKinds
  <2> QED
    BY <2>2, <2>4, PaperMoves
<1> QED
  BY <1>3, <1>4, <1>5, <1>6, <1>7

\* A target is replaced or forgotten: a lease on it ends, the others stay.
Retargets(n, s) ==
    /\ DOMAIN n = Fields /\ \A f \in Fields \ {"targets", "forgotten"} : n[f] = s[f]
    /\ \A x \in DOMAIN n.targets : \A w \in n.targets[x].writer :
          /\ x \in DOMAIN s.targets /\ w \in s.targets[x].writer
          /\ n.targets[x].generation = s.targets[x].generation
          /\ n.targets[x].epoch = s.targets[x].epoch

\* A method whose last change is one of a target.
LEMMA RetargetMoves ==
    ASSUME NEW s, Sound(b), Goes(s, b), Good(b'), Retargets(b', s) PROVE Goes(b', b)
<1>1. Sound(s) /\ Shape(s) /\ RunsOK(s) /\ Shape(b')
  BY GoesIsSound DEF Sound, Good
<1>2. s.minted.run \in Nat /\ s.minted.grant \in Nat /\ s.minted.request \in Nat
  BY <1>1 DEF Shape, MintKinds
<1>3. \A g \in s.grants : SameCover(g, g)
  BY DEF SameCover
<1>4. (\A g, h \in s.grants : g.epoch = h.epoch => g = h) /\ s.principals \cap s.retired = {}
  BY <1>1 DEF RunsOK, EpochsOK
<1>5. /\ b'.runs = s.runs /\ b'.requests = s.requests /\ b'.starts = s.starts /\ b'.global = s.global
      /\ b'.detached = s.detached /\ b'.undelivered = s.undelivered /\ b'.retired = s.retired
      /\ b'.grants = s.grants /\ b'.minted = s.minted /\ b'.principals = s.principals
      /\ b'.usage = s.usage
  BY DEF Retargets, Fields
<1>9. IsFiniteSet(s.grants)
  BY <1>1 DEF RunsOK, BudgetsOK
<1>10. Frugal(b', s)
  BY <1>2, <1>5, <1>9 DEF Frugal
<1>6. KeepsWork(b', s)
  BY <1>2, <1>3, <1>4, <1>5, <1>10 DEF KeepsWork, Retargets
<1>7. \A h \in b'.grants : \E g \in s.grants : SameCover(g, h)
  BY <1>3, <1>5
<1>8. Goes(b', s)
  BY <1>1, <1>6, <1>7, KeepsWorkIsOnward DEF Goes
<1> QED
  BY <1>8, GoesChain

\* Targets.
LEMMA TargetsGo ==
    ASSUME Sound(b), Good(b'), NEW x,
           \/ \E g : AttachTarget(x, g)
           \/ ForgetClosedTarget(x)
           \/ CloseTarget(x) \/ HumanTakeover(x)
    PROVE  Goes(b', b)
<1>1. Good(b) /\ DOMAIN b = Fields
  BY DEF Sound, Good, Shape
<1>2. Goes(Mint(b, "ownership"), b)
  BY MintGoes DEF MintKinds
<1>3. ASSUME NEW generation, AttachTarget(x, generation) PROVE Goes(b', b)
  <2> DEFINE m == Mint(b, "ownership")
             ref == Ref(x, b.targets[x].generation)
             old == IF x \in DOMAIN b.targets THEN {ref} ELSE {}
             s == IF old = {} THEN m ELSE InvalidateTarget(m, ref)
             fresh == [generation |-> generation, active |-> TRUE,
                       epoch |-> m.minted.ownership, writer |-> {}]
  <2>1. b' = [s EXCEPT !.targets = [y \in DOMAIN @ \cup {x} |-> IF y = x THEN fresh ELSE @[y]]]
    BY <1>3 DEF AttachTarget
  <2>2. fresh.writer = {}
    OBVIOUS
  <2> HIDE DEF m, ref, old, fresh
  <2>3. Goes(m, b)
    BY <1>2 DEF m
  <2>4. Goes(InvalidateTarget(m, ref), m)
    BY <2>3, InvalidateGoes, GoesIsSound
  <2>5. Goes(InvalidateTarget(m, ref), b)
    BY <2>3, <2>4, GoesChain
  <2>6. Goes(s, b)
    BY <2>3, <2>5
  <2> HIDE DEF s
  <2>7. DOMAIN s = Fields
    BY <2>6 DEF Goes, Good, Shape
  <2>8. /\ DOMAIN b' = Fields /\ \A f \in Fields \ {"targets", "forgotten"} : b'[f] = s[f]
        /\ b'.targets = [y \in DOMAIN s.targets \cup {x} |-> IF y = x THEN fresh ELSE s.targets[y]]
    BY <2>1, <2>7 DEF Fields
  <2>9. Retargets(b', s)
    BY <2>2, <2>8 DEF Retargets
  <2> QED
    BY <2>6, <2>9, RetargetMoves
<1>4. CASE ForgetClosedTarget(x)
  <2>1. PICK mark : b' = [b EXCEPT !.targets = [y \in DOMAIN @ \ {x} |-> @[y]], !.forgotten = mark]
    BY <1>4 DEF ForgetClosedTarget
  <2>2. Retargets(b', b)
    BY <1>1, <2>1 DEF Retargets, Fields
  <2> QED
    BY <2>2, StillGoes, RetargetMoves
<1>5. CASE CloseTarget(x)
  <2> DEFINE s == InvalidateTarget(b, x)
  <2>1. b' = [s EXCEPT !.targets[x.session].active = FALSE, !.targets[x.session].writer = {}]
    BY <1>5 DEF CloseTarget
  <2>2. Goes(s, b)
    BY InvalidateGoes
  <2> HIDE DEF s
  <2>3. DOMAIN s = Fields /\ \A y \in DOMAIN s.targets : DOMAIN s.targets[y] = TargetFields
    BY <2>2 DEF Goes, Good, Shape, TargetsOK
  <2>4. Retargets(b', s)
    BY <2>1, <2>3, ZenonT(40) DEF Retargets, Fields, TargetFields
  <2> QED
    BY <2>2, <2>4, RetargetMoves
<1>6. CASE HumanTakeover(x)
  <2> DEFINE m == Mint(b, "ownership")
             slots == {<<g.connection, Ordinary>> : g \in {h \in b.grants : h.slot = Ordinary /\ x \in h.controls}}
             s == RevokeSlots(m, slots)
  <2>1. b' = [s EXCEPT !.targets[x.session].epoch = m.minted.ownership, !.targets[x.session].writer = {}]
    BY <1>6 DEF HumanTakeover
  <2> HIDE DEF m, slots
  <2>2. Goes(m, b)
    BY <1>2 DEF m
  <2>3. Goes(s, m)
    BY <2>2, RevokeGoes, GoesIsSound
  <2>4. Goes(s, b)
    BY <2>2, <2>3, GoesChain
  <2> HIDE DEF s
  <2>5. DOMAIN s = Fields /\ \A y \in DOMAIN s.targets : DOMAIN s.targets[y] = TargetFields
    BY <2>4 DEF Goes, Good, Shape, TargetsOK
  <2>6. Retargets(b', s)
    BY <2>1, <2>5, ZenonT(40) DEF Retargets, Fields, TargetFields
  <2> QED
    BY <2>4, <2>6, RetargetMoves
<1> QED
  BY <1>3, <1>4, <1>5, <1>6

\* Install gives the new grant an account of its own; the client's is opened anew
\* when no other grant of it is left.
LEMMA InstallAccounts ==
    ASSUME NEW s, Good(s), NEW c \in s.principals, NEW slot \in Slots, NEW scope, NEW handoffs, NEW lifetime,
           NEW n, n = Install(s, c, slot, scope, handoffs, lifetime), NEW f, f = Cleared(s, c, slot)
    PROVE  /\ NewGrant(f, c, slot, scope, handoffs, lifetime).usage = 0
           /\ \A x \in Connections : n.usage[x] = f.usage[x] \/ (x = c /\ n.usage[x] = 0 /\ GrantsOf(f, x) = {})
<1>1. PICK g, u : n = [f EXCEPT !.usage[c] = IF GrantsOf(f, c) = {} THEN 0 ELSE @,
                                !.revisions[c][slot[1]] = u, !.grants = @ \cup {g}]
  BY DEF Install, Cleared
<1>2. DOMAIN f = Fields /\ DOMAIN f.usage = Connections
  BY ClearedEffect DEF Good, Shape
<1>3. n.usage = [f.usage EXCEPT ![c] = IF GrantsOf(f, c) = {} THEN 0 ELSE @]
  BY <1>1, <1>2 DEF Fields
<1>4. \A x \in Connections : n.usage[x] = f.usage[x] \/ (x = c /\ n.usage[x] = 0 /\ GrantsOf(f, x) = {})
  BY <1>2, <1>3
<1> QED
  BY <1>4 DEF NewGrant

\* A native decision: the slot's runs end with the grant that is replaced.
LEMMA DecisionGoes ==
    ASSUME Sound(b), now \in Nat, Good(b'), NEW s, NEW c, NEW slot, NEW scope, NEW handoffs, NEW lifetime \in Nat,
           NEW new, NEW x, Decides(s, c, slot, scope, handoffs, lifetime, new, x)
    PROVE  Goes(b', b)
<1> DEFINE m == Mint(s, "grant")
           f == Cleared(s, c, slot)
           g == NewGrant(f, c, slot, scope, handoffs, lifetime)
<1>1. /\ s = PollExpiry(b) /\ c \in s.principals /\ slot \in Slots
      /\ new = Install(s, c, slot, scope, handoffs, lifetime)
  BY DEF Decides
<1>2. /\ DOMAIN x = Fields /\ (\A i \in Fields \ {"registrations", "consent"} : x[i] = new[i])
      /\ b' = DiscardStaleProposals(x, {c})
  BY DEF Decides
<1>3. Goes(s, b) /\ Sound(s)
  BY <1>1, PollGoes, GoesIsSound
<1>4. Goes(m, s) /\ Sound(m)
  BY <1>3, MintGoes, GoesIsSound DEF MintKinds
<1>5. f = RevokeSlots(m, {<<c, slot>>})
  BY DEF Cleared, RevokeSlot
<1>6. Installed(new, f, c, slot, scope, handoffs, g) /\ g.expires = now + lifetime
  BY <1>1, <1>3, InstallEffect DEF Sound, NewGrant
<1>7. m.minted.grant = s.minted.grant + 1
  BY <1>3, MintEffect DEF MintKinds, Sound, Good
<1>8. m.grants = s.grants
  BY <1>3, MintEffect DEF MintKinds, Sound, Good, Fields
<1>25. /\ g.usage = 0
       /\ \A i \in Connections : new.usage[i] = f.usage[i] \/ (i = c /\ new.usage[i] = 0 /\ GrantsOf(f, i) = {})
  BY <1>1, <1>3, InstallAccounts DEF Sound
<1>26. m.runs = s.runs
  BY <1>3, MintEffect DEF MintKinds, Sound, Good, Fields
<1> HIDE DEF m
<1>27. PICK ended : Stops(f, m, ended)
  BY <1>4, <1>5, RevokeStops DEF Sound
<1>9. Goes(f, m) /\ f.minted = m.minted /\ f.grants \subseteq m.grants
  BY <1>4, <1>5, RevokeGoes, RevokeIsWeaker DEF Sound, Weaker
<1> HIDE DEF f, g
<1>10. Goes(f, s) /\ Sound(f)
  BY <1>3, <1>4, <1>9, GoesChain
<1>11. \A i \in Fields \ {"registrations", "consent", "pending"} : b'[i] = new[i]
  <2>1. \A i \in Fields \ {"pending"} : b'[i] = x[i]
    BY <1>2 DEF DiscardStaleProposals
  <2> QED
    BY <1>2, <2>1
<1>12. /\ b'.runs = f.runs /\ b'.requests = f.requests /\ b'.starts = f.starts /\ b'.global = f.global
       /\ b'.detached = f.detached /\ b'.undelivered = f.undelivered /\ b'.retired = f.retired
       /\ b'.targets = f.targets /\ b'.principals = f.principals /\ b'.minted = f.minted
       /\ b'.grants = f.grants \cup {g} /\ b'.usage = new.usage
  BY <1>6, <1>11 DEF Installed, Fields
<1>13. g.epoch = s.minted.grant + 1 /\ s.minted.grant \in Nat /\ g.expires \in Nat
  <2>1. g.epoch = new.minted.grant
    BY <1>6 DEF Installed
  <2>2. new.minted = b'.minted
    BY <1>11 DEF Fields
  <2>3. s.minted.grant \in Nat
    BY <1>3 DEF Sound, Good, Shape, MintKinds
  <2> QED
    BY <1>6, <1>7, <1>9, <1>12, <2>1, <2>2, <2>3
<1>14. \A h \in f.grants : h.epoch \in Nat /\ h.epoch <= s.minted.grant
  BY <1>3, <1>8, <1>9 DEF Sound, RunsOK, EpochsOK
<1>15. (\A h, k \in f.grants : h.epoch = k.epoch => h = k) /\ f.principals \cap f.retired = {}
  BY <1>10 DEF Sound, RunsOK, EpochsOK
<1>16. \A h, k \in b'.grants : h.epoch = k.epoch => h = k
  BY <1>12, <1>13, <1>14, <1>15
<1>17. f.minted.run \in Nat /\ f.minted.request \in Nat /\ f.minted.grant \in Nat
       /\ f.minted.grant = s.minted.grant + 1
  BY <1>7, <1>9, <1>10 DEF Sound, Good, Shape, MintKinds
<1>18. \A h \in f.grants : SameCover(h, h)
  BY DEF SameCover
<1>28. \A r \in DOMAIN f.runs : f.runs[r].epoch # g.epoch
  <2>1. \A r \in DOMAIN s.runs : s.runs[r].epoch \in Nat /\ s.runs[r].epoch <= s.minted.grant
    BY <1>3 DEF Sound, RunsOK, BudgetsOK
  <2>2. \A r \in DOMAIN f.runs : r \in DOMAIN s.runs /\ f.runs[r].epoch = s.runs[r].epoch
    BY <1>26, <1>27 DEF Stops, RunFields
  <2> QED
    BY <1>13, <2>1, <2>2
<1>29. IsFiniteSet(b'.grants)
  BY DEF Good, GrantsOK
<1>30. \A i \in Connections : \/ b'.usage[i] = f.usage[i]
                              \/ b'.usage[i] = 0 /\ \A h \in b'.grants : h.connection = i => h.usage = 0
  BY <1>12, <1>25 DEF GrantsOf
<1>31. Frugal(b', f)
  BY <1>12, <1>17, <1>25, <1>28, <1>29, <1>30 DEF Frugal
<1>19. KeepsWork(b', f)
  BY <1>12, <1>13, <1>15, <1>16, <1>17, <1>18, <1>31 DEF KeepsWork
<1>20. RunsOK(b')
  BY <1>10, <1>19, KeepsWorkIsOK DEF Sound, Good
<1>21. Later(f, s)
  BY <1>10 DEF Goes, Onward
<1>22. \A h \in b'.grants : \/ h.epoch > s.minted.grant
                            \/ \E k \in s.grants : /\ h.connection = k.connection /\ h.epoch = k.epoch
                                                   /\ h.expires = k.expires /\ h.slot = k.slot
  BY <1>12, <1>13, <1>21 DEF Later
<1>23. Later(b', s)
  BY <1>12, <1>21, <1>22 DEF Later
<1>24. Goes(b', s)
  BY <1>20, <1>23 DEF Goes, Onward
<1> QED
  BY <1>3, <1>24, GoesChain

\* Every method on authority takes the work on.
LEMMA GrantStepGoes ==
    ASSUME BrokerInv, RunsOK(b), GrantStep PROVE Goes(b', b)
<1>a. BrokerInv'
  BY GrantStepKeeps
<1>b. Good(b) /\ Good(b') /\ now \in 0 .. MaxTime
  BY <1>a DEF BrokerInv
<1>c. Sound(b) /\ now \in Nat
  BY <1>b, BrokerAssumption DEF Sound
<1>1. ASSUME NEW c \in Connections,
             \/ AcceptConnection(c) \/ Disconnect(c)
             \/ RevokeOrdinary(c) \/ RevokeMetadata(c) \/ RevokeConnection(c)
             \/ \E t \in GrantRequests : RequestApproval(c, t)
             \/ \E refs \in SUBSET Current(b) : RequestMetadataApproval(c, refs)
             \/ \E local \in Locals : RegisterControllerSession(c, local)
      PROVE  Goes(b', b)
  <2>1. CASE \/ AcceptConnection(c) \/ Disconnect(c)
             \/ RevokeOrdinary(c) \/ RevokeMetadata(c) \/ RevokeConnection(c)
    BY <1>b, <1>c, <2>1, ConnectionsGo
  <2>2. CASE \/ \E t \in GrantRequests : RequestApproval(c, t)
             \/ \E refs \in SUBSET Current(b) : RequestMetadataApproval(c, refs)
    BY <1>b, <1>c, <2>2, ProposalsGo
  <2>3. CASE \E local \in Locals : RegisterControllerSession(c, local)
    BY <1>b, <1>c, <2>3, EndingsGo
  <2> QED
    BY <1>1, <2>1, <2>2, <2>3
<1>2. ASSUME NEW x, NEW g, AttachTarget(x, g) PROVE Goes(b', b)
  BY <1>b, <1>c, <1>2, TargetsGo
<1>3. ASSUME NEW x, ForgetClosedTarget(x) PROVE Goes(b', b)
  BY <1>b, <1>c, <1>3, TargetsGo
<1>4. ASSUME NEW ref, CloseTarget(ref) \/ HumanTakeover(ref) PROVE Goes(b', b)
  BY <1>b, <1>c, <1>4, TargetsGo
<1>5. ASSUME NEW p, RejectApproval(p) PROVE Goes(b', b)
  BY <1>b, <1>c, <1>5, EndingsGo
<1>6. ASSUME NEW p, NEW sinks, PrepareOrdinaryEnrollmentReview(p, sinks) PROVE Goes(b', b)
  <2>1. b' = b
    BY <1>6 DEF PrepareOrdinaryEnrollmentReview
  <2> QED
    BY <1>c, <2>1, StillGoes
<1>7. ASSUME NEW l \in Lifetimes, NEW c, NEW slot, NEW scope, NEW handoffs,
             \E new, x : Decides(PollExpiry(b), c, slot, scope, handoffs, l, new, x)
      PROVE  Goes(b', b)
  <2>1. l \in Nat
    BY BrokerAssumption DEF Lifetimes
  <2> QED
    BY <1>b, <1>c, <1>7, <2>1, DecisionGoes, Zenon
<1>8. ASSUME NEW p, NEW l \in Lifetimes, NEW t, NEW h, Approve(p, t, h, l) PROVE Goes(b', b)
  BY <1>7, <1>8, ApproveDecides, Zenon
<1>9. ASSUME NEW p, NEW l \in Lifetimes, NEW refs, ApproveMetadata(p, refs, l) PROVE Goes(b', b)
  BY <1>7, <1>9, ApproveMetadataDecides, Zenon
<1>10. ASSUME NEW p, NEW l \in Lifetimes, ApproveEnrollmentMetadataGrant(p, l) PROVE Goes(b', b)
  BY <1>7, <1>10, ApproveEnrollmentDecides, Zenon
<1>11. ASSUME NEW r, NEW t, NEW l,
              \/ PrepareControllerEnrollment(r, t)
              \/ ApproveControllerEnrollment(r, t)
              \/ PrepareEnrollmentMetadataReview(r) \/ CancelEnrollmentMetadataReview(r)
              \/ RevokeEnrollmentMetadataDecision(r) \/ ApproveEnrollmentMetadataReview(t, l)
       PROVE  Goes(b', b)
  BY <1>b, <1>c, <1>11, RegistrationsGo
<1>12. ASSUME NEW r, \/ UnregisterControllerSession(r) \/ RequestEnrollmentMetadataApproval(r)
                     \/ RevokeEnrollmentMetadataGrant(r)
       PROVE  Goes(b', b)
  BY <1>b, <1>c, <1>12, EndingsGo, ProposalsGo
<1>13. CASE RevokeAll
  BY <1>b, <1>c, <1>13, EndingsGo
<1>14. CASE PollExpiryStep \/ Tick
  <2>1. b' = PollExpiry(b) \/ b' = b
    BY <1>14 DEF PollExpiryStep, Tick
  <2> QED
    BY <1>c, <2>1, PollGoes, StillGoes
<1> QED
  <2>1. ASSUME NEW p \in b.pending,
               \/ RejectApproval(p)
               \/ \E sinks \in SUBSET p.controls : PrepareOrdinaryEnrollmentReview(p, sinks)
               \/ \E l \in Lifetimes :
                     \/ \E t \in GrantRequests : \E h \in Handoffs(p, t) : Approve(p, t, h, l)
                     \/ \E refs \in SUBSET p.sources : ApproveMetadata(p, refs, l)
                     \/ ApproveEnrollmentMetadataGrant(p, l)
        PROVE  Goes(b', b)
    BY <2>1, <1>5, <1>6, <1>8, <1>9, <1>10, Zenon
  <2>2. ASSUME NEW r \in b.registrations,
               \/ \E ref \in Current(b) \cup closed : PrepareControllerEnrollment(r, ref)
               \/ \E t \in tokens : ApproveControllerEnrollment(r, t)
               \/ UnregisterControllerSession(r)
               \/ RequestEnrollmentMetadataApproval(r)
               \/ PrepareEnrollmentMetadataReview(r) \/ CancelEnrollmentMetadataReview(r)
               \/ RevokeEnrollmentMetadataDecision(r) \/ RevokeEnrollmentMetadataGrant(r)
        PROVE  Goes(b', b)
    BY <2>2, <1>11, <1>12, Zenon
  <2>3. CASE \E t \in tokens, l \in Lifetimes : ApproveEnrollmentMetadataReview(t, l)
    BY <2>3, <1>11, Zenon
  <2>4. CASE \/ \E x \in Sessions : \E g \in 1 .. MaxGeneration : AttachTarget(x, g)
             \/ \E x \in Sessions : ForgetClosedTarget(x)
             \/ \E ref \in Current(b) : CloseTarget(ref) \/ HumanTakeover(ref)
    BY <2>4, <1>2, <1>3, <1>4, Zenon
  <2>5. CASE RevokeAll \/ PollExpiryStep \/ Tick
    BY <2>5, <1>13, <1>14
  <2> QED
    BY <1>1, <2>1, <2>2, <2>3, <2>4, <2>5, Zenon DEF GrantStep, GuardedGrantStep, FreeGrantStep

-----------------------------------------------------------------------------
(* Work under way: charges, requests, leases and receipts. *)

\* The two records are one run, but for its accounts and what it has started.
SameRun(x, y) ==
    /\ DOMAIN x = RunFields
    /\ x.connection = y.connection /\ x.slot = y.slot /\ x.parent = y.parent /\ x.kind = y.kind
    /\ x.epoch = y.epoch /\ x.scope = y.scope /\ x.sources = y.sources /\ x.controls = y.controls
    /\ x.deadline = y.deadline /\ x.budget = y.budget /\ x.state = y.state

SameRuns(n, s) ==
    /\ DOMAIN n.runs = DOMAIN s.runs
    /\ \A r \in DOMAIN s.runs : SameRun(n.runs[r], s.runs[r]) /\ n.runs[r].usage \in 1 .. n.runs[r].budget

SameGrants(n, s) ==
    /\ \A g \in s.grants : \E h \in n.grants : SameCover(g, h)
    /\ \A h \in n.grants : \E g \in s.grants : SameCover(g, h)
    /\ \A g, h \in n.grants : g.epoch = h.epoch => g = h

\* A request is one of those open before, or a new one of a running run.
NextRequest(n, s, q) ==
    /\ DOMAIN q = RequestFields /\ q.operation \in Operations
    /\ q.id \in Nat /\ q.id <= n.minted.request
    /\ q.run \in DOMAIN s.runs /\ s.runs[q.run].state = "Running"
    /\ \/ q.id > s.minted.request
       \/ \E u \in s.requests : u.id = q.id /\ (u.committed => q.committed)

NextRequests(n, s) ==
    /\ \A q \in n.requests : NextRequest(n, s, q)
    /\ \A q, u \in n.requests : q.id = u.id => q = u

\* Receipts stay; a running call may record what it has started.
NextStarts(n, s) ==
    /\ s.starts \subseteq n.starts
    /\ \A y \in n.starts : /\ y.run \in DOMAIN s.runs
                           /\ s.runs[y.run].connection = y.connection
                           /\ s.runs[y.run].kind = "Workflow"
    /\ \A y, z \in n.starts : y.connection = z.connection /\ y.key = z.key => y = z
    /\ \A r \in DOMAIN s.runs :
          \/ n.runs[r].started = s.runs[r].started
          \/ /\ s.runs[r].kind = "WorkflowStart" /\ s.runs[r].state = "Running"
             /\ \A x \in n.runs[r].started :
                   \E y \in n.starts : y.connection = s.runs[r].connection /\ y.run = x.run

NextLeases(n, s) ==
    \A x \in DOMAIN n.targets : \A w \in n.targets[x].writer :
        /\ w.run \in DOMAIN s.runs /\ s.runs[w.run].state = "Running"
        /\ Ref(x, n.targets[x].generation) \in s.runs[w.run].scope.controls
        /\ w.epoch = n.targets[x].epoch

\* The same runs, further along.
Busy(n, s) ==
    /\ n.detached = s.detached /\ n.undelivered = s.undelivered
    /\ n.retired = s.retired /\ n.principals = s.principals
    /\ n.minted.run = s.minted.run /\ n.minted.grant = s.minted.grant
    /\ n.minted.request >= s.minted.request /\ n.global \in 0 .. GlobalBudget
    /\ SameRuns(n, s) /\ SameGrants(n, s)
    /\ NextRequests(n, s) /\ NextStarts(n, s) /\ NextLeases(n, s) /\ BudgetsOK(n)

\* Such a step takes the work on.
LEMMA BusyGoes ==
    ASSUME NEW s, NEW n, Sound(s), Good(n), Busy(n, s) PROVE Goes(n, s)
<1>0. /\ s.minted.run \in Nat /\ s.minted.grant \in Nat /\ n.minted.grant \in Nat
      /\ s.minted.request \in Nat /\ n.minted.request \in Nat /\ RunsOK(s)
  BY DEF Shape, MintKinds, Sound, Good
<1>1. /\ DOMAIN n.runs = DOMAIN s.runs
      /\ \A r \in DOMAIN s.runs : SameRun(n.runs[r], s.runs[r]) /\ n.runs[r].usage \in 1 .. n.runs[r].budget
  BY DEF Busy, SameRuns
<1>2. /\ n.detached = s.detached /\ n.undelivered = s.undelivered
      /\ n.retired = s.retired /\ n.principals = s.principals
      /\ n.minted.run = s.minted.run /\ n.minted.grant = s.minted.grant
      /\ n.minted.request >= s.minted.request /\ n.global \in 0 .. GlobalBudget
      /\ SameGrants(n, s) /\ NextRequests(n, s) /\ NextStarts(n, s) /\ NextLeases(n, s)
  BY DEF Busy
<1>3. TreeOK(n)
  <2> SUFFICES ASSUME NEW r \in DOMAIN n.runs PROVE RunOK(n, r)
    BY <1>2 DEF TreeOK
  <2>1. RunOK(s, r) /\ SameRun(n.runs[r], s.runs[r]) /\ n.runs[r].usage \in 1 .. n.runs[r].budget
    BY <1>0, <1>1 DEF RunsOK, TreeOK
  <2>2. n.runs[r].started # {} => n.runs[r].kind = "WorkflowStart"
    BY <1>1, <1>2, <2>1 DEF NextStarts, SameRun, RunOK
  <2>3. ASSUME NEW p \in n.runs[r].parent
        PROVE  /\ p \in DOMAIN n.runs /\ p < r
               /\ n.runs[p].connection = n.runs[r].connection
               /\ \A q \in n.runs[p].parent : n.runs[q].parent = {}
               /\ n.runs[r].state = "Running" => n.runs[p].state = "Running"
    <3>1. /\ p \in DOMAIN s.runs /\ p < r /\ s.runs[p].connection = s.runs[r].connection
          /\ \A q \in s.runs[p].parent : s.runs[q].parent = {}
          /\ s.runs[r].state = "Running" => s.runs[p].state = "Running"
      BY <2>1 DEF SameRun, RunOK
    <3>2. RunOK(s, p) /\ SameRun(n.runs[p], s.runs[p])
      BY <1>0, <1>1, <3>1 DEF RunsOK, TreeOK
    <3>3. ASSUME NEW q \in n.runs[p].parent PROVE n.runs[q].parent = {}
      <4>1. q \in DOMAIN s.runs
        BY <3>2 DEF SameRun, RunOK
      <4> QED
        BY <1>1, <3>1, <3>2, <4>1 DEF SameRun
    <3> QED
      BY <1>1, <2>1, <3>1, <3>2, <3>3 DEF SameRun
  <2> QED
    BY <1>2, <2>1, <2>2, <2>3 DEF RunOK, SameRun
<1>4. EpochsOK(n)
  BY <1>0, <1>2 DEF RunsOK, EpochsOK, SameGrants, SameCover
<1>5. CoveredOK(n)
  <2> SUFFICES ASSUME NEW r \in DOMAIN n.runs, n.runs[r].state = "Running"
               PROVE  \E g \in n.grants : Covers(g, n.runs[r])
    BY DEF CoveredOK
  <2>1. SameRun(n.runs[r], s.runs[r]) /\ r \in DOMAIN s.runs
    BY <1>1
  <2>2. PICK g \in s.grants : Covers(g, s.runs[r])
    BY <1>0, <2>1 DEF RunsOK, CoveredOK, SameRun
  <2>3. PICK h \in n.grants : SameCover(g, h)
    BY <1>2 DEF SameGrants
  <2> QED
    BY <2>1, <2>2, <2>3 DEF Covers, SameCover, SameRun
<1>6. RequestsOK(n)
  <2>1. ASSUME NEW q \in n.requests PROVE RequestOK(n, q)
    <3>1. NextRequest(n, s, q)
      BY <1>2 DEF NextRequests
    <3> QED
      BY <1>1, <3>1 DEF NextRequest, RequestOK, SameRun
  <2> QED
    BY <1>2, <2>1 DEF RequestsOK, NextRequests
<1>7. LeasesOK(n)
  <2> SUFFICES ASSUME NEW x \in DOMAIN n.targets, NEW w \in n.targets[x].writer PROVE LeaseOK(n, x, w)
    BY DEF LeasesOK
  <2>1. /\ w.run \in DOMAIN s.runs /\ s.runs[w.run].state = "Running"
        /\ Ref(x, n.targets[x].generation) \in s.runs[w.run].scope.controls
        /\ w.epoch = n.targets[x].epoch
    BY <1>2 DEF NextLeases
  <2> QED
    BY <1>1, <2>1 DEF LeaseOK, SameRun
<1>8. StartsOK(n)
  <2>1. \A y \in n.starts : /\ y.run \in DOMAIN n.runs
                            /\ n.runs[y.run].connection = y.connection
                            /\ n.runs[y.run].kind = "Workflow"
    BY <1>1, <1>2 DEF NextStarts, SameRun
  <2>2. \A y, z \in n.starts : y.connection = z.connection /\ y.key = z.key => y = z
    BY <1>2 DEF NextStarts
  <2>3. ASSUME NEW r \in DOMAIN n.runs, NEW x \in n.runs[r].started
        PROVE  /\ \E y \in n.starts : y.connection = n.runs[r].connection /\ y.run = x.run
               /\ n.runs[r].state = "Cancelled" => n.runs[x.run].state # "Running"
    <3>1. SameRun(n.runs[r], s.runs[r]) /\ r \in DOMAIN s.runs /\ s.starts \subseteq n.starts
      BY <1>1, <1>2 DEF NextStarts
    <3>2. CASE n.runs[r].started = s.runs[r].started
      <4>1. /\ \E y \in s.starts : y.connection = s.runs[r].connection /\ y.run = x.run
            /\ s.runs[r].state = "Cancelled" => s.runs[x.run].state # "Running"
        BY <1>0, <3>1, <3>2 DEF RunsOK, StartsOK
      <4>2. x.run \in DOMAIN s.runs
        BY <1>0, <4>1 DEF RunsOK, StartsOK
      <4> QED
        BY <1>1, <3>1, <4>1, <4>2 DEF SameRun
    <3>3. CASE /\ s.runs[r].kind = "WorkflowStart" /\ s.runs[r].state = "Running"
               /\ \A z \in n.runs[r].started :
                     \E y \in n.starts : y.connection = s.runs[r].connection /\ y.run = z.run
      BY <3>1, <3>3 DEF SameRun
    <3> QED
      BY <1>2, <3>1, <3>2, <3>3 DEF NextStarts
  <2> QED
    BY <2>1, <2>2, <2>3 DEF StartsOK
<1>9. DeliveryOK(n)
  BY <1>0, <1>1, <1>2 DEF RunsOK, DeliveryOK, SameRun
<1>15. BudgetsOK(n)
  BY DEF Busy
<1>10. RunsOK(n)
  BY <1>3, <1>4, <1>5, <1>6, <1>7, <1>8, <1>9, <1>15 DEF RunsOK
<1>11. \A g \in n.grants : \E h \in s.grants : /\ g.connection = h.connection /\ g.epoch = h.epoch
                                               /\ g.expires = h.expires /\ g.slot = h.slot
  BY <1>2 DEF SameGrants, SameCover
<1>12. \A q \in n.requests : \/ q.id > s.minted.request
                             \/ \E u \in s.requests : u.id = q.id /\ (u.committed => q.committed)
  BY <1>2, Zenon DEF NextRequests, NextRequest
<1>13. /\ n.minted.run >= s.minted.run /\ n.minted.grant >= s.minted.grant
       /\ s.starts \subseteq n.starts
       /\ \A r \in DOMAIN s.runs : n.runs[r].state = s.runs[r].state
  BY <1>0, <1>1, <1>2 DEF NextStarts, SameRun
<1>14. Later(n, s)
  BY <1>1, <1>2, <1>11, <1>12, <1>13 DEF Later
<1> QED
  BY <1>10, <1>14 DEF Goes, Onward

\* What a step leaves as it was.
LEMMA OldRequests ==
    ASSUME NEW s, NEW n, Sound(s), n.requests \subseteq s.requests,
           n.minted.request \in Nat, n.minted.request >= s.minted.request
    PROVE  NextRequests(n, s)
<1>1. s.minted.request \in Nat /\ RequestsOK(s)
  BY DEF Sound, Good, Shape, MintKinds, RunsOK
<1>2. ASSUME NEW q \in n.requests PROVE NextRequest(n, s, q)
  <2>1. q \in s.requests /\ RequestOK(s, q)
    BY <1>1 DEF RequestsOK
  <2>2. \E u \in s.requests : u.id = q.id /\ (u.committed => q.committed)
    BY <2>1, Zenon
  <2> QED
    BY <1>1, <2>1, <2>2 DEF NextRequest, RequestOK
<1> QED
  BY <1>1, <1>2 DEF NextRequests, RequestsOK

LEMMA OldStarts ==
    ASSUME NEW s, NEW n, Sound(s), n.starts = s.starts,
           \A r \in DOMAIN s.runs : n.runs[r].started = s.runs[r].started
    PROVE  NextStarts(n, s)
BY DEF Sound, RunsOK, StartsOK, NextStarts

LEMMA OldLeases ==
    ASSUME NEW s, NEW n, Sound(s), n.targets = s.targets PROVE NextLeases(n, s)
BY DEF Sound, RunsOK, LeasesOK, LeaseOK, NextLeases

LEMMA OldGrants ==
    ASSUME NEW s, NEW n, Sound(s), n.grants = s.grants PROVE SameGrants(n, s)
<1>1. \A g \in s.grants : SameCover(g, g)
  BY DEF SameCover
<1> QED
  BY <1>1 DEF Sound, RunsOK, EpochsOK, SameGrants

LEMMA OldRuns ==
    ASSUME NEW s, NEW n, Sound(s), n.runs = s.runs PROVE SameRuns(n, s)
BY DEF Sound, RunsOK, TreeOK, RunOK, SameRuns, SameRun

LEMMA OldAccounts ==
    ASSUME NEW s, NEW n, Sound(s), Good(n), SameRuns(n, s), n.global = s.global, n.usage = s.usage,
           n.grants = s.grants, n.minted.grant = s.minted.grant,
           \A r \in DOMAIN s.runs : n.runs[r].usage = s.runs[r].usage
    PROVE  BudgetsOK(n)
<1>1. Shape(s) /\ Shape(n) /\ TreeOK(s) /\ BudgetsOK(s)
  BY DEF Sound, Good, RunsOK
<1>2. /\ DOMAIN n.runs = DOMAIN s.runs
      /\ \A r \in DOMAIN s.runs :
            /\ n.runs[r].usage = s.runs[r].usage /\ n.runs[r].parent = s.runs[r].parent
            /\ n.runs[r].connection = s.runs[r].connection /\ n.runs[r].slot = s.runs[r].slot
            /\ n.runs[r].epoch = s.runs[r].epoch
  BY DEF SameRuns, SameRun
<1> QED
  BY <1>1, <1>2, SameAccountsKeep

\* A run that may be charged is retained and running.
LEMMA FittingRuns ==
    ASSUME NEW s, NEW c, NEW slot, NEW lineage, Fits(s, c, slot, lineage)
    PROVE  /\ s.global < GlobalBudget
           /\ \A r \in lineage : /\ r \in DOMAIN s.runs /\ s.runs[r].connection = c
                                 /\ s.runs[r].slot = slot /\ s.runs[r].state = "Running"
                                 /\ s.runs[r].usage < s.runs[r].budget
<1>1. ASSUME NEW r \in lineage PROVE r \in DOMAIN s.runs /\ s.runs[r].connection = c /\ s.runs[r].state = "Running"
  <2>1. r \in Lineage(s, r) /\ CheckRun(s, c, r)
    BY DEF Lineage, Fits
  <2>2. RunIsLive(s, c, r)
    BY <2>1 DEF CheckRun
  <2> QED
    BY <2>2 DEF RunIsLive
<1> QED
  BY <1>1 DEF Fits

\* What charge changes.
Paid(n, s, lineage) ==
    /\ DOMAIN n = Fields /\ \A f \in Fields \ {"global", "usage", "grants", "runs"} : n[f] = s[f]
    /\ n.global = s.global + 1 /\ SameGrants(n, s)
    /\ DOMAIN n.runs = DOMAIN s.runs
    /\ \A r \in DOMAIN s.runs :
          /\ SameRun(n.runs[r], s.runs[r]) /\ n.runs[r].started = s.runs[r].started
          /\ n.runs[r].usage = IF r \in lineage THEN s.runs[r].usage + 1 ELSE s.runs[r].usage

LEMMA ChargeEffect ==
    ASSUME NEW s, Sound(s), NEW c, NEW slot, NEW lineage
    PROVE  Paid(Charge(s, c, slot, lineage), s, lineage)
<1> DEFINE n == Charge(s, c, slot, lineage)
           f(g) == IF g.connection = c /\ g.slot = slot THEN Charged(g) ELSE g
           h(r) == IF r \in lineage THEN Charged(s.runs[r]) ELSE s.runs[r]
<1>1. /\ DOMAIN s = Fields /\ (\A g \in s.grants : DOMAIN g = GrantFields)
      /\ (\A g, k \in s.grants : g.epoch = k.epoch => g = k)
      /\ \A r \in DOMAIN s.runs : DOMAIN s.runs[r] = RunFields
  BY DEF Sound, Good, Shape, GrantsOK, RunsOK, EpochsOK, TreeOK, RunOK
<1>2. /\ DOMAIN n = Fields /\ n.global = s.global + 1
      /\ (\A i \in Fields \ {"global", "usage", "grants", "runs"} : n[i] = s[i])
      /\ n.grants = {f(g) : g \in s.grants}
  BY <1>1 DEF Charge, Fields
<1>3. n.runs = [r \in DOMAIN s.runs |-> h(r)]
  BY <1>1 DEF Charge, Fields
<1>4. \A g \in s.grants : SameCover(g, f(g))
  BY <1>1 DEF SameCover, GrantFields, Charged
<1>5. ASSUME NEW r \in DOMAIN s.runs
      PROVE  /\ SameRun(h(r), s.runs[r]) /\ h(r).started = s.runs[r].started
             /\ h(r).usage = IF r \in lineage THEN s.runs[r].usage + 1 ELSE s.runs[r].usage
  BY <1>1 DEF SameRun, RunFields, Charged
<1> HIDE DEF n, f, h
<1>6. SameGrants(n, s)
  <2>1. \A k \in n.grants : \E g \in s.grants : k = f(g)
    BY <1>2
  <2>2. \A g \in s.grants : f(g) \in n.grants
    BY <1>2
  <2> QED
    BY <1>1, <1>4, <2>1, <2>2 DEF SameGrants, SameCover
<1>7. Paid(n, s, lineage)
  BY <1>2, <1>3, <1>5, <1>6 DEF Paid
<1> QED
  BY <1>7 DEF n

\* It changes the accounts of the client, of its grant of the slot, and of a chain
\* of runs under that.
LEMMA ChargeBills ==
    ASSUME NEW s, Sound(s), NEW c, NEW slot, NEW lineage, Fits(s, c, slot, lineage), Chain(s, lineage)
    PROVE  /\ Billed(Charge(s, c, slot, lineage), s, c, slot, lineage) /\ Billable(s, c, slot, lineage)
           /\ BudgetsOK(Charge(s, c, slot, lineage))
<1> DEFINE n == Charge(s, c, slot, lineage)
<1>1. Paid(n, s, lineage)
  BY ChargeEffect
<1>2. DOMAIN s = Fields
  BY DEF Sound, Good, Shape
<1>3. n.usage = [s.usage EXCEPT ![c] = @ + 1]
  BY <1>2 DEF Charge, Fields
<1>4. n.grants = {Bill(g, c, slot) : g \in s.grants}
  BY <1>2 DEF Charge, Fields, Bill
<1> HIDE DEF n
<1>5. n.minted = s.minted
  BY <1>1 DEF Paid, Fields
<1>6. \A r \in DOMAIN s.runs :
         /\ n.runs[r].usage = IF r \in lineage THEN s.runs[r].usage + 1 ELSE s.runs[r].usage
         /\ n.runs[r].parent = s.runs[r].parent /\ n.runs[r].connection = s.runs[r].connection
         /\ n.runs[r].slot = s.runs[r].slot /\ n.runs[r].epoch = s.runs[r].epoch
  BY <1>1 DEF Paid, SameRun
<1>7. Billed(n, s, c, slot, lineage)
  BY <1>1, <1>3, <1>4, <1>5, <1>6 DEF Billed, Paid
<1>8. PICK g \in SlotGrant(s, c, slot) : TRUE
  BY DEF Fits
<1>9. g \in s.grants /\ g.connection = c /\ g.slot = slot
  BY DEF SlotGrant, SlotGrants, GrantsOf
<1>10. Billable(s, c, slot, lineage)
  BY <1>9, FittingRuns DEF Billable, Sound, Good, GrantsOK
<1>11. Shape(s) /\ TreeOK(s) /\ GrantsOK(s) /\ BudgetsOK(s)
  BY DEF Sound, Good, RunsOK
<1>12. BudgetsOK(n)
  BY <1>7, <1>10, <1>11, BilledIsOK
<1> QED
  BY <1>7, <1>10, <1>12 DEF n

\* A charge that fits every account takes the work on.
LEMMA ChargeGoes ==
    ASSUME NEW s, Sound(s), NEW c, NEW slot, NEW lineage, Fits(s, c, slot, lineage), Chain(s, lineage)
    PROVE  Goes(Charge(s, c, slot, lineage), s)
<1> DEFINE n == Charge(s, c, slot, lineage)
<1>1. Paid(n, s, lineage) /\ Good(n)
  BY ChargeEffect, ChargeIsSafe DEF Sound, Safe
<1>10. BudgetsOK(n)
  BY ChargeBills
<1> HIDE DEF n
<1>2. /\ n.detached = s.detached /\ n.undelivered = s.undelivered /\ n.retired = s.retired
      /\ n.principals = s.principals /\ n.minted = s.minted /\ n.targets = s.targets
      /\ n.requests = s.requests /\ n.starts = s.starts /\ n.global = s.global + 1 /\ SameGrants(n, s)
  BY <1>1 DEF Paid, Fields
<1>3. s.minted \in [MintKinds -> Nat] /\ s.global \in 0 .. GlobalBudget
  BY DEF Sound, Good, Shape, RunsOK, TreeOK
<1>4. s.global < GlobalBudget /\ \A r \in lineage : s.runs[r].usage < s.runs[r].budget
  BY FittingRuns
<1>5. SameRuns(n, s)
  <2> SUFFICES ASSUME NEW r \in DOMAIN s.runs
               PROVE  SameRun(n.runs[r], s.runs[r]) /\ n.runs[r].usage \in 1 .. n.runs[r].budget
    BY <1>1 DEF SameRuns, Paid
  <2>1. s.runs[r].usage \in 1 .. s.runs[r].budget /\ s.runs[r].budget \in Nat
    BY DEF Sound, RunsOK, TreeOK, RunOK
  <2>2. /\ SameRun(n.runs[r], s.runs[r])
        /\ n.runs[r].usage = IF r \in lineage THEN s.runs[r].usage + 1 ELSE s.runs[r].usage
    BY <1>1 DEF Paid
  <2>3. n.runs[r].budget = s.runs[r].budget
    BY <2>2 DEF SameRun
  <2>4. n.runs[r].usage \in 1 .. s.runs[r].budget
    BY <1>4, <2>1, <2>2
  <2> QED
    BY <2>2, <2>3, <2>4
<1>6. NextRequests(n, s) /\ NextLeases(n, s)
  BY <1>2, <1>3, OldRequests, OldLeases DEF MintKinds
<1>7. NextStarts(n, s)
  BY <1>1, <1>2, OldStarts DEF Paid
<1>8. n.global \in 0 .. GlobalBudget
  BY <1>2, <1>3, <1>4, BrokerAssumption
<1>9. Busy(n, s)
  BY <1>2, <1>3, <1>5, <1>6, <1>7, <1>8, <1>10 DEF Busy, MintKinds
<1> QED
  BY <1>1, <1>9, BusyGoes DEF n

\* A method whose last change is one of the work under way.
LEMMA BusyMoves ==
    ASSUME NEW s, Sound(b), Goes(s, b), Good(b'), Busy(b', s) PROVE Goes(b', b)
BY BusyGoes, GoesIsSound, GoesChain

\* A run that passes check_run.
LEMMA CheckedRun ==
    ASSUME NEW s, NEW c, NEW id, CheckRun(s, c, id)
    PROVE  /\ id \in DOMAIN s.runs /\ s.runs[id].connection = c /\ s.runs[id].state = "Running"
           /\ \A r \in Lineage(s, id) : /\ r \in DOMAIN s.runs /\ s.runs[r].connection = c
                                        /\ s.runs[r].state = "Running"
<1>1. id \in Lineage(s, id) /\ \A r \in Lineage(s, id) : RunIsLive(s, c, r)
  BY DEF Lineage, CheckRun
<1> QED
  BY <1>1 DEF RunIsLive

\* Its lineage can be charged.
LEMMA CheckedChain ==
    ASSUME NEW s, Sound(s), NEW c, NEW id, CheckRun(s, c, id) PROVE Chain(s, Lineage(s, id))
BY CheckedRun, LineageIsChain DEF Sound, RunsOK

\* A retried start records the run its receipt names.
LEMMA RetryGoes ==
    ASSUME Sound(b), Good(b'), NEW c, NEW context, NEW key, NEW spec, RetryStart(c, context, key, spec)
    PROVE  Goes(b', b)
<1> DEFINE s == PollExpiry(b)
           lineage == Lineage(s, context)
           m == Charge(s, c, Ordinary, lineage)
<1>1. /\ CheckRun(s, c, context) /\ s.runs[context].kind = "WorkflowStart"
      /\ Fits(s, c, Ordinary, lineage)
  BY DEF RetryStart, MayStart
<1>2. PICK x \in Receipt(s, c, key) :
         b' = [m EXCEPT !.runs[context].started = {[key |-> key, run |-> x.run]}]
  BY DEF RetryStart
<1>3. Goes(s, b) /\ Sound(s)
  BY PollGoes, GoesIsSound
<1>16. Chain(s, lineage)
  BY <1>1, <1>3, CheckedChain
<1> HIDE DEF s, lineage
<1>4. Goes(m, s) /\ Paid(m, s, lineage)
  BY <1>1, <1>3, <1>16, ChargeGoes, ChargeEffect
<1> HIDE DEF m
<1>5. Goes(m, b) /\ Sound(m)
  BY <1>3, <1>4, GoesChain
<1>6. context \in DOMAIN s.runs /\ s.runs[context].connection = c /\ s.runs[context].state = "Running"
  BY <1>1, CheckedRun
<1>7. /\ context \in DOMAIN m.runs /\ m.runs[context].connection = c
      /\ m.runs[context].state = "Running" /\ m.runs[context].kind = "WorkflowStart"
  BY <1>1, <1>4, <1>6 DEF Paid, SameRun
<1>8. /\ DOMAIN m = Fields /\ m.minted \in [MintKinds -> Nat] /\ m.global \in 0 .. GlobalBudget
      /\ \A r \in DOMAIN m.runs : DOMAIN m.runs[r] = RunFields
  BY <1>5 DEF Sound, Good, Shape, RunsOK, TreeOK, RunOK
<1>9. /\ b'.runs = [m.runs EXCEPT ![context].started = {[key |-> key, run |-> x.run]}]
      /\ b'.detached = m.detached /\ b'.undelivered = m.undelivered /\ b'.retired = m.retired
      /\ b'.principals = m.principals /\ b'.minted = m.minted /\ b'.targets = m.targets
      /\ b'.requests = m.requests /\ b'.starts = m.starts /\ b'.global = m.global /\ b'.grants = m.grants
      /\ b'.usage = m.usage
  BY <1>2, <1>8 DEF Fields
<1>10. /\ DOMAIN b'.runs = DOMAIN m.runs
       /\ \A r \in DOMAIN m.runs \ {context} : b'.runs[r] = m.runs[r]
       /\ b'.runs[context].started = {[key |-> key, run |-> x.run]}
       /\ SameRun(b'.runs[context], m.runs[context]) /\ b'.runs[context].usage = m.runs[context].usage
  BY <1>7, <1>8, <1>9 DEF SameRun, RunFields
<1>11. SameRuns(b', m)
  <2>1. SameRuns(m, m)
    BY <1>5, OldRuns
  <2> QED
    BY <1>10, <2>1 DEF SameRuns, SameRun
<1>12. NextRequests(b', m) /\ NextLeases(b', m) /\ SameGrants(b', m)
  BY <1>5, <1>8, <1>9, OldRequests, OldLeases, OldGrants DEF MintKinds
<1>13. x \in m.starts /\ x.connection = c
  BY <1>4 DEF Receipt, Paid, Fields
<1>14. NextStarts(b', m)
  <2>1. NextStarts(m, m)
    BY <1>5, OldStarts
  <2>2. \A z \in b'.runs[context].started :
           \E y \in b'.starts : y.connection = m.runs[context].connection /\ y.run = z.run
    BY <1>7, <1>9, <1>10, <1>13
  <2> QED
    BY <1>7, <1>9, <1>10, <2>1, <2>2 DEF NextStarts
<1>17. BudgetsOK(b')
  BY <1>5, <1>9, <1>10, <1>11, OldAccounts
<1>15. Busy(b', m)
  BY <1>8, <1>9, <1>11, <1>12, <1>14, <1>17 DEF Busy, MintKinds
<1> QED
  BY <1>5, <1>15, BusyMoves

\* Reading a status.
LEMMA StatusGoes ==
    ASSUME Sound(b), NEW c, NEW id, Status(c, id) PROVE Goes(b', b)
<1> DEFINE s == PollExpiry(b)
<1>1. Fits(s, c, Ordinary, {}) /\ b' = Charge(s, c, Ordinary, {})
  BY DEF Status
<1>2. Goes(s, b) /\ Sound(s)
  BY PollGoes, GoesIsSound
<1> HIDE DEF s
<1>4. Chain(s, {})
  BY DEF Chain
<1>3. Goes(b', s)
  BY <1>1, <1>2, <1>4, ChargeGoes
<1> QED
  BY <1>2, <1>3, GoesChain

\* A request that is settled or consumed.
LEMMA FewerRequestsGo ==
    ASSUME NEW s, Sound(s), NEW q PROVE Goes([s EXCEPT !.requests = @ \ {q}], s)
<1> DEFINE n == [s EXCEPT !.requests = @ \ {q}]
<1>1. /\ DOMAIN s = Fields /\ s.minted \in [MintKinds -> Nat] /\ s.global \in 0 .. GlobalBudget
  BY DEF Sound, Good, Shape, RunsOK, TreeOK
<1>2. /\ n.detached = s.detached /\ n.undelivered = s.undelivered /\ n.retired = s.retired
      /\ n.principals = s.principals /\ n.minted = s.minted /\ n.targets = s.targets
      /\ n.runs = s.runs /\ n.requests \subseteq s.requests
      /\ n.starts = s.starts /\ n.global = s.global /\ n.grants = s.grants /\ OnlyWork(n, s)
      /\ n.usage = s.usage
  BY <1>1 DEF Fields, OnlyWork
<1> HIDE DEF n
<1>3. Good(n)
  BY <1>2, OnlyWorkIsSafe DEF Sound, Safe
<1>4. NextRequests(n, s) /\ NextLeases(n, s) /\ SameGrants(n, s) /\ SameRuns(n, s) /\ NextStarts(n, s)
  BY <1>1, <1>2, OldRequests, OldLeases, OldGrants, OldRuns, OldStarts DEF MintKinds
<1>6. BudgetsOK(n)
  BY <1>2, <1>3, <1>4, OldAccounts
<1>5. Busy(n, s)
  BY <1>1, <1>2, <1>4, <1>6 DEF Busy, MintKinds
<1> QED
  BY <1>3, <1>5, BusyGoes DEF n

\* prepare_request opens a request of a running run.
LEMMA PrepareRequestGoes ==
    ASSUME Sound(b), Good(b'), NEW id, NEW q, q.operation \in Operations, PrepareRequest(id, q)
    PROVE  Goes(b', b)
<1> DEFINE s == PollExpiry(b)
           run == s.runs[id]
           lineage == Lineage(s, id)
           m == Charge(s, run.connection, run.slot, lineage)
           paid == Mint(m, "request")
           new == [id |-> paid.minted.request, run |-> id, operation |-> q.operation, ref |-> q.ref,
                   lease |-> q.lease, committed |-> FALSE]
<1>1. CheckRun(s, run.connection, id) /\ Fits(s, run.connection, run.slot, lineage)
  BY Zenon DEF PrepareRequest
<1>2. PICK mark : b' = [paid EXCEPT !.requests = @ \cup {new}, !.runs[id].prepared = mark]
  BY DEF PrepareRequest
<1>3. Goes(s, b) /\ Sound(s)
  BY PollGoes, GoesIsSound
<1> HIDE DEF s
<1>4. id \in DOMAIN s.runs /\ s.runs[id].state = "Running"
  BY <1>1, CheckedRun
<1>23. Chain(s, lineage)
  BY <1>1, <1>3, CheckedChain
<1> HIDE DEF run, lineage
<1>5. Goes(m, s) /\ Paid(m, s, lineage)
  BY <1>1, <1>3, <1>23, ChargeGoes, ChargeEffect
<1> HIDE DEF m
<1>6. Goes(m, b) /\ Sound(m)
  BY <1>3, <1>5, GoesChain
<1>7. id \in DOMAIN m.runs /\ m.runs[id].state = "Running"
  BY <1>4, <1>5 DEF Paid, SameRun
<1>8. /\ DOMAIN m = Fields /\ m.minted \in [MintKinds -> Nat] /\ m.global \in 0 .. GlobalBudget
      /\ \A r \in DOMAIN m.runs : DOMAIN m.runs[r] = RunFields
  BY <1>6 DEF Sound, Good, Shape, RunsOK, TreeOK, RunOK
<1>9. /\ DOMAIN paid = Fields /\ paid.minted = [m.minted EXCEPT !["request"] = @ + 1]
      /\ \A f \in Fields \ {"minted"} : paid[f] = m[f]
  BY <1>8 DEF Mint, Fields
<1> HIDE DEF paid
<1>10. /\ paid.minted.run = m.minted.run /\ paid.minted.grant = m.minted.grant
       /\ paid.minted.request = m.minted.request + 1 /\ m.minted.request \in Nat
  BY <1>8, <1>9 DEF MintKinds
<1>11. /\ DOMAIN new = RequestFields /\ new.id = paid.minted.request /\ new.run = id
       /\ new.operation = q.operation
  BY DEF RequestFields
<1> HIDE DEF new
<1>12. /\ b'.runs = [paid.runs EXCEPT ![id].prepared = mark] /\ b'.requests = paid.requests \cup {new}
       /\ \A f \in Fields \ {"runs", "requests"} : b'[f] = paid[f]
  BY <1>2, <1>9 DEF Fields
<1>13. /\ b'.runs = [m.runs EXCEPT ![id].prepared = mark] /\ b'.requests = m.requests \cup {new}
       /\ b'.minted = paid.minted
       /\ b'.detached = m.detached /\ b'.undelivered = m.undelivered /\ b'.retired = m.retired
       /\ b'.principals = m.principals /\ b'.targets = m.targets
       /\ b'.starts = m.starts /\ b'.global = m.global /\ b'.grants = m.grants
       /\ b'.usage = m.usage
  BY <1>9, <1>12 DEF Fields
<1>14. SameRuns(m, m) /\ NextRequests(m, m)
  BY <1>6, <1>8, OldRuns, OldRequests DEF MintKinds
<1>15. /\ DOMAIN b'.runs = DOMAIN m.runs
       /\ \A r \in DOMAIN m.runs : /\ SameRun(b'.runs[r], m.runs[r])
                                   /\ b'.runs[r].usage = m.runs[r].usage
                                   /\ b'.runs[r].started = m.runs[r].started
  BY <1>7, <1>8, <1>13 DEF SameRun, RunFields
<1>16. SameRuns(b', m)
  BY <1>14, <1>15 DEF SameRuns, SameRun
<1>17. NextLeases(b', m) /\ SameGrants(b', m) /\ NextStarts(b', m)
  BY <1>6, <1>13, <1>15, OldLeases, OldGrants, OldStarts
<1>18. \A u \in m.requests : u.id \in Nat /\ u.id <= m.minted.request
  BY <1>6 DEF Sound, RunsOK, RequestsOK, RequestOK
<1>19. ASSUME NEW u \in m.requests PROVE NextRequest(b', m, u)
  BY <1>10, <1>13, <1>14, <1>18 DEF NextRequests, NextRequest
<1>20. NextRequest(b', m, new)
  BY <1>7, <1>10, <1>11, <1>13 DEF NextRequest
<1>21. NextRequests(b', m)
  BY <1>10, <1>11, <1>13, <1>14, <1>18, <1>19, <1>20 DEF NextRequests
<1>24. BudgetsOK(b')
  BY <1>6, <1>10, <1>13, <1>15, <1>16, OldAccounts
<1>22. Busy(b', m)
  BY <1>8, <1>10, <1>13, <1>16, <1>17, <1>21, <1>24 DEF Busy
<1> QED
  BY <1>6, <1>22, BusyMoves

\* commit_control tells the run and everything above it of one more effect.
LEMMA CommitControlGoes ==
    ASSUME Sound(b), Good(b'), NEW q \in b.requests, CommitControl(q) PROVE Goes(b', b)
<1> DEFINE u == [q EXCEPT !.committed = TRUE]
           h(r) == IF r \in Lineage(b, q.run) THEN Effected(b.runs[r]) ELSE b.runs[r]
<1>1. /\ DOMAIN b = Fields /\ b.minted \in [MintKinds -> Nat] /\ b.global \in 0 .. GlobalBudget
      /\ \A r \in DOMAIN b.runs : DOMAIN b.runs[r] = RunFields
  BY DEF Sound, Good, Shape, RunsOK, TreeOK, RunOK
<1>2. RequestOK(b, q) /\ NextRequests(b, b) /\ SameRuns(b, b)
  BY <1>1, OldRequests, OldRuns DEF Sound, RunsOK, RequestsOK, MintKinds
<1>3. /\ b'.runs = [r \in DOMAIN b.runs |-> h(r)]
      /\ b'.requests = (b.requests \ {q}) \cup {u}
      /\ b'.detached = b.detached /\ b'.undelivered = b.undelivered /\ b'.retired = b.retired
      /\ b'.principals = b.principals /\ b'.targets = b.targets /\ b'.minted = b.minted
      /\ b'.starts = b.starts /\ b'.global = b.global /\ b'.grants = b.grants
      /\ b'.usage = b.usage
  BY <1>1 DEF CommitControl, Fields
<1>4. /\ DOMAIN u = RequestFields /\ u.id = q.id /\ u.run = q.run /\ u.operation = q.operation
  BY <1>2 DEF RequestOK, RequestFields
<1>5. u.committed = TRUE
  BY <1>2 DEF RequestOK, RequestFields
<1>6. \A r \in DOMAIN b.runs : /\ SameRun(h(r), b.runs[r]) /\ h(r).usage = b.runs[r].usage
                               /\ h(r).started = b.runs[r].started
  BY <1>1 DEF SameRun, RunFields, Effected
<1> HIDE DEF u, h
<1>7. SameRuns(b', b)
  BY <1>2, <1>3, <1>6 DEF SameRuns, SameRun
<1>8. NextLeases(b', b) /\ SameGrants(b', b) /\ NextStarts(b', b)
  BY <1>3, <1>6, OldLeases, OldGrants, OldStarts
<1>9. \E v \in b.requests : v.id = u.id /\ (v.committed => u.committed)
  BY <1>4, <1>5, Zenon
<1>10. NextRequest(b', b, u)
  BY <1>2, <1>3, <1>4, <1>9 DEF NextRequest, RequestOK
<1>11. ASSUME NEW v \in b.requests PROVE NextRequest(b', b, v)
  BY <1>2, <1>3 DEF NextRequests, NextRequest
<1>12. NextRequests(b', b)
  BY <1>2, <1>3, <1>4, <1>10, <1>11 DEF NextRequests
<1>14. BudgetsOK(b')
  BY <1>3, <1>6, <1>7, OldAccounts
<1>13. Busy(b', b)
  BY <1>1, <1>3, <1>7, <1>8, <1>12, <1>14 DEF Busy, MintKinds
<1> QED
  BY <1>13, StillGoes, BusyMoves

\* commit_lease gives the target to a running run that may control it.
LEMMA CommitLeaseGoes ==
    ASSUME Sound(b), Good(b'), NEW t, CommitLease(t) PROVE Goes(b', b)
<1> DEFINE s == Mint(b, "ownership")
           epoch == s.minted.ownership
           x == t.ref.session
<1>1. /\ DOMAIN b = Fields /\ b.minted \in [MintKinds -> Nat] /\ b.global \in 0 .. GlobalBudget
      /\ \A y \in DOMAIN b.targets : DOMAIN b.targets[y] = TargetFields
  BY DEF Sound, Good, Shape, TargetsOK, RunsOK, TreeOK
<1>2. /\ t.run \in DOMAIN b.runs /\ b.runs[t.run].state = "Running" /\ t.ref \in b.runs[t.run].scope.controls
  BY CheckedRun DEF CommitLease, CheckLeaseTarget
<1>3. t.ref = Ref(x, b.targets[x].generation) /\ x \in DOMAIN b.targets
  BY DEF CommitLease, Current, Ref
<1>4. b' = [s EXCEPT !.targets[x].epoch = epoch, !.targets[x].writer = {[run |-> t.run, epoch |-> epoch]}]
  BY DEF CommitLease
<1>5. Goes(s, b) /\ DOMAIN s = Fields /\ \A f \in Fields \ {"minted"} : s[f] = b[f]
  BY <1>1, MintGoes DEF MintKinds, Mint, Fields
<1> HIDE DEF s, epoch
<1>6. /\ Sound(s) /\ s.minted \in [MintKinds -> Nat] /\ s.global \in 0 .. GlobalBudget
      /\ s.runs = b.runs /\ s.targets = b.targets
  BY <1>5, GoesIsSound DEF Sound, Good, Shape, RunsOK, TreeOK, Fields
<1>7. /\ b'.runs = s.runs /\ b'.requests = s.requests
      /\ b'.detached = s.detached /\ b'.undelivered = s.undelivered /\ b'.retired = s.retired
      /\ b'.principals = s.principals /\ b'.minted = s.minted
      /\ b'.starts = s.starts /\ b'.global = s.global /\ b'.grants = s.grants
      /\ b'.usage = s.usage
  BY <1>4, <1>5 DEF Fields
<1>8. b'.targets = [s.targets EXCEPT ![x].epoch = epoch, ![x].writer = {[run |-> t.run, epoch |-> epoch]}]
  BY <1>4, <1>5 DEF Fields
<1>9. /\ DOMAIN b'.targets = DOMAIN s.targets /\ \A y \in DOMAIN s.targets \ {x} : b'.targets[y] = s.targets[y]
      /\ b'.targets[x].generation = s.targets[x].generation /\ b'.targets[x].epoch = epoch
      /\ b'.targets[x].writer = {[run |-> t.run, epoch |-> epoch]}
  BY <1>1, <1>3, <1>6, <1>8, ZenonT(40) DEF TargetFields
<1>10. NextLeases(b', s)
  <2>1. NextLeases(s, s)
    BY <1>6, OldLeases
  <2> SUFFICES ASSUME NEW y \in DOMAIN b'.targets, NEW w \in b'.targets[y].writer
               PROVE  /\ w.run \in DOMAIN s.runs /\ s.runs[w.run].state = "Running"
                      /\ Ref(y, b'.targets[y].generation) \in s.runs[w.run].scope.controls
                      /\ w.epoch = b'.targets[y].epoch
    BY DEF NextLeases
  <2>2. CASE y = x
    BY <1>2, <1>3, <1>6, <1>9, <2>2
  <2>3. CASE y # x
    BY <1>9, <2>1, <2>3 DEF NextLeases
  <2> QED
    BY <2>2, <2>3
<1>11. /\ NextRequests(b', s) /\ SameRuns(b', s) /\ SameGrants(b', s) /\ NextStarts(b', s)
  BY <1>6, <1>7, OldRequests, OldRuns, OldGrants, OldStarts DEF MintKinds
<1>13. BudgetsOK(b')
  BY <1>6, <1>7, <1>11, OldAccounts
<1>12. Busy(b', s)
  BY <1>6, <1>7, <1>10, <1>11, <1>13 DEF Busy, MintKinds
<1> QED
  BY <1>5, <1>12, BusyMoves

\* cancel_start cuts the run of a receipt.
LEMMA CancelStartGoes ==
    ASSUME Sound(b), NEW c, NEW key, CancelStart(c, key) PROVE Goes(b', b)
<1> DEFINE s == PollExpiry(b)
<1>1. PICK y \in s.starts : b' = Cut(s, {y.run}, "Cancelled")
  BY DEF CancelStart, Receipt
<1>2. Goes(s, b) /\ Sound(s)
  BY PollGoes, GoesIsSound
<1> HIDE DEF s
<1>3. s.runs[y.run].started = {} /\ "Cancelled" \in RunStates \ {"Running"}
  BY <1>2, ReceiptedRun DEF Sound, RunStates
<1>4. Goes(b', s)
  BY <1>1, <1>2, <1>3, CutGoes
<1> QED
  BY <1>2, <1>4, GoesChain

\* cancel_run cuts the workflows the call has started, then the call.
LEMMA CancelRunGoes ==
    ASSUME Sound(b), NEW c, NEW id, CancelRun(c, id) PROVE Goes(b', b)
<1> DEFINE s == PollExpiry(b)
           ids == {x.run : x \in s.runs[id].started}
           m == Cut(s, ids, "Cancelled")
<1>1. id \in DOMAIN s.runs /\ b' = Cut(m, {id}, "Cancelled")
  BY DEF CancelRun
<1>2. Goes(s, b) /\ Sound(s)
  BY PollGoes, GoesIsSound
<1> HIDE DEF s
<1>3. "Cancelled" \in RunStates \ {"Running"}
  BY DEF RunStates
<1>4. ASSUME NEW x \in s.runs[id].started
      PROVE  /\ x.run \in ids /\ x.run \in DOMAIN s.runs /\ s.runs[x.run].started = {}
  <2>1. PICK y \in s.starts : y.run = x.run
    BY <1>1, <1>2 DEF Sound, RunsOK, StartsOK
  <2> QED
    BY <1>2, <2>1, ReceiptedRun DEF Sound
<1>5. \A r \in ids : s.runs[r].started = {}
  BY <1>4
<1> HIDE DEF ids
<1>6. Goes(m, s)
  BY <1>2, <1>3, <1>5, CutGoes
<1>7. Stops(m, s, Descendants(s, ids)) /\ ids \cap DOMAIN s.runs \subseteq Descendants(s, ids)
  BY <1>2, <1>3, CutStops, DescendantsAreClosed DEF Sound, Good, RunsOK
<1> HIDE DEF m
<1>8. m.runs[id].started = s.runs[id].started /\ DOMAIN m.runs = DOMAIN s.runs
  BY <1>1, <1>7 DEF Stops, RunFields
<1>9. ASSUME NEW x \in m.runs[id].started PROVE m.runs[x.run].state # "Running"
  BY <1>4, <1>7, <1>8 DEF Stops
<1>10. Goes(m, b) /\ Sound(m)
  BY <1>2, <1>6, GoesChain
<1>11. Goes(b', m)
  BY <1>1, <1>3, <1>9, <1>10, CutGoes
<1> QED
  BY <1>10, <1>11, GoesChain

\* A completed run and what is left open below it.
LEMMA CompletedGoes ==
    ASSUME NEW s, Sound(s), NEW id, NEW bad PROVE Goes(Completed(s, id, bad), s)
<1>1. PICK state \in {"Failed", "Completed"} : Completed(s, id, bad) = Cut(s, {id}, state)
  BY Zenon DEF Completed
<1>2. state \in RunStates \ {"Running"} /\ state # "Cancelled"
  BY <1>1 DEF RunStates
<1> QED
  BY <1>1, <1>2, CutGoes

LEMMA CompleteGoes ==
    ASSUME Sound(b), NEW id, NEW bad, Complete(id, bad) PROVE Goes(b', b)
<1> DEFINE s == PollExpiry(b)
<1>1. b' = Completed(s, id, bad)
  BY DEF Complete
<1>2. Goes(s, b) /\ Sound(s)
  BY PollGoes, GoesIsSound
<1> HIDE DEF s
<1> QED
  BY <1>1, <1>2, CompletedGoes, GoesChain

LEMMA CompleteWithResultGoes ==
    ASSUME Sound(b), NEW q, CompleteWithResult(q) PROVE Goes(b', b)
<1> DEFINE m == [b EXCEPT !.requests = @ \ {q}]
           s == PollExpiry(m)
<1>1. b' = Completed(s, q.run, FALSE) \/ b' = s
  BY Zenon DEF CompleteWithResult
<1>2. Goes(m, b)
  BY FewerRequestsGo
<1> HIDE DEF m
<1>3. Goes(s, m)
  BY <1>2, PollGoes, GoesIsSound
<1> HIDE DEF s
<1>4. Goes(s, b) /\ Sound(s)
  BY <1>2, <1>3, GoesChain
<1> QED
  BY <1>1, <1>4, CompletedGoes, GoesChain

\* What forget_run asks for: an ended leaf without a receipt.
Forgettable(s, id) ==
    /\ s.runs[id].state # "Running" /\ \A r \in DOMAIN s.runs : id \notin s.runs[r].parent
    /\ \A y \in s.starts : y.run # id

\* Nobody needs such a run.
LEMMA ForgottenGoes ==
    ASSUME NEW s, NEW n, Sound(s), Good(n), NEW id, Forgettable(s, id),
           n = [s EXCEPT !.runs = [r \in DOMAIN @ \ {id} |-> @[r]]]
    PROVE  Goes(n, s)
<1>0. RunsOK(s) /\ DOMAIN s = Fields /\ s.minted \in [MintKinds -> Nat]
  BY DEF Sound, Good, Shape
<1>1. /\ s.runs[id].state # "Running" /\ (\A r \in DOMAIN s.runs : id \notin s.runs[r].parent)
      /\ \A y \in s.starts : y.run # id
  BY DEF Forgettable
<1>2. n = [s EXCEPT !.runs = [r \in DOMAIN @ \ {id} |-> @[r]]]
  OBVIOUS
<1>3. /\ DOMAIN n.runs = DOMAIN s.runs \ {id} /\ (\A r \in DOMAIN n.runs : n.runs[r] = s.runs[r])
      /\ n.requests = s.requests
      /\ n.detached = s.detached /\ n.undelivered = s.undelivered /\ n.retired = s.retired
      /\ n.principals = s.principals /\ n.minted = s.minted /\ n.targets = s.targets
      /\ n.starts = s.starts /\ n.global = s.global /\ n.grants = s.grants
      /\ n.usage = s.usage
  BY <1>0, <1>2 DEF Fields
<1>4. TreeOK(n)
  <2> SUFFICES ASSUME NEW r \in DOMAIN n.runs PROVE RunOK(n, r)
    BY <1>0, <1>3 DEF TreeOK, RunsOK
  <2>1. RunOK(s, r) /\ n.runs[r] = s.runs[r]
    BY <1>0, <1>3 DEF RunsOK, TreeOK
  <2>2. ASSUME NEW p \in s.runs[r].parent
        PROVE  /\ p \in DOMAIN n.runs /\ n.runs[p] = s.runs[p]
               /\ \A q \in s.runs[p].parent : n.runs[q].parent = {}
    <3>1. p \in DOMAIN s.runs /\ p # id /\ \A q \in s.runs[p].parent : s.runs[q].parent = {}
      BY <1>1, <1>3, <2>1 DEF RunOK
    <3>2. \A q \in s.runs[p].parent : q \in DOMAIN s.runs /\ q # id
      BY <1>0, <1>1, <3>1 DEF RunsOK, TreeOK, RunOK
    <3> QED
      BY <1>3, <3>1, <3>2
  <2> QED
    BY <1>3, <2>1, <2>2, SMTT(30) DEF RunOK
<1>5. EpochsOK(n) /\ CoveredOK(n) /\ DeliveryOK(n)
  BY <1>0, <1>3 DEF RunsOK, EpochsOK, CoveredOK, DeliveryOK
<1>6. RequestsOK(n)
  BY <1>0, <1>1, <1>3 DEF RunsOK, RequestsOK, RequestOK
<1>7. LeasesOK(n)
  BY <1>0, <1>1, <1>3 DEF RunsOK, LeasesOK, LeaseOK
<1>8. StartsOK(n)
  <2>1. StartsOK(s)
    BY <1>0 DEF RunsOK
  <2>2. ASSUME NEW r \in DOMAIN n.runs, NEW x \in n.runs[r].started
        PROVE  /\ \E y \in n.starts : y.connection = n.runs[r].connection /\ y.run = x.run
               /\ n.runs[r].state = "Cancelled" => n.runs[x.run].state # "Running"
    <3>1. /\ \E y \in s.starts : y.connection = s.runs[r].connection /\ y.run = x.run
          /\ s.runs[r].state = "Cancelled" => s.runs[x.run].state # "Running"
      BY <1>3, <2>1 DEF StartsOK
    <3>2. x.run \in DOMAIN n.runs
      BY <1>1, <1>3, <2>1, <3>1 DEF StartsOK
    <3> QED
      BY <1>3, <3>1, <3>2
  <2> QED
    BY <1>1, <1>3, <2>1, <2>2 DEF StartsOK
<1>12. BudgetsOK(n)
  <2>1. /\ IsFiniteSet(s.grants) /\ TreeOK(s) /\ BudgetsOK(s) /\ Shape(s) /\ Shape(n)
        /\ s.minted.grant \in Nat
    BY <1>0 DEF RunsOK, BudgetsOK, Sound, Good, MintKinds
  <2>2. Frugal(n, s)
    BY <1>3, <2>1 DEF Frugal
  <2> QED
    BY <2>1, <2>2, FrugalKeeps
<1>9. RunsOK(n)
  BY <1>4, <1>5, <1>6, <1>7, <1>8, <1>12 DEF RunsOK
<1>10. \A q \in n.requests : \E u \in s.requests : u.id = q.id /\ (u.committed => q.committed)
  BY <1>3, Zenon
<1>11. Later(n, s)
  BY <1>0, <1>3, <1>10 DEF Later, MintKinds
<1> QED
  BY <1>9, <1>11 DEF Goes, Onward

\* forget_run drops it.
LEMMA ForgetRunGoes ==
    ASSUME Sound(b), Good(b'), NEW c, NEW id, ForgetRun(c, id) PROVE Goes(b', b)
<1>1. Forgettable(b, id)
  BY DEF ForgetRun, Forgettable
<1>2. b' = [b EXCEPT !.runs = [r \in DOMAIN @ \ {id} |-> @[r]]]
  BY DEF ForgetRun
<1> QED
  BY <1>1, <1>2, ForgottenGoes

-----------------------------------------------------------------------------
(* Admission. *)

\* n has one run more than s, with everything a run needs.
NewRun(s, id, run) ==
    /\ DOMAIN run = RunFields /\ run.state = "Running" /\ run.started = {}
    /\ run.deadline \in Nat /\ run.budget \in Nat /\ run.usage \in 1 .. run.budget
    /\ \A p, q \in run.parent : p = q
    /\ \A p \in run.parent :
          /\ p \in DOMAIN s.runs /\ s.runs[p].connection = run.connection
          /\ s.runs[p].state = "Running"
          /\ \A q \in s.runs[p].parent : s.runs[q].parent = {}
    /\ run.parent # {} => run.kind = "Workflow"
    /\ \E g \in s.grants : Covers(g, run)

Admits(n, s, id) ==
    /\ DOMAIN n = Fields /\ \A f \in Fields \ {"runs", "minted"} : n[f] = s[f]
    /\ id = s.minted.run + 1 /\ n.minted = [s.minted EXCEPT !["run"] = id]
    /\ DOMAIN n.runs = DOMAIN s.runs \cup {id} /\ \A r \in DOMAIN s.runs : n.runs[r] = s.runs[r]
    /\ NewRun(s, id, n.runs[id]) /\ Room(s, n.runs[id])

\* Such a step takes the work on.
LEMMA AdmitsGoes ==
    ASSUME NEW s, NEW n, NEW id, Sound(s), Good(n), Admits(n, s, id) PROVE Goes(n, s)
<1>0. RunsOK(s) /\ s.minted \in [MintKinds -> Nat]
  BY DEF Sound, Good, Shape
<1>1. /\ n.requests = s.requests
      /\ n.detached = s.detached /\ n.undelivered = s.undelivered /\ n.retired = s.retired
      /\ n.principals = s.principals /\ n.targets = s.targets
      /\ n.starts = s.starts /\ n.global = s.global /\ n.grants = s.grants
      /\ n.usage = s.usage
  BY DEF Admits, Fields
<1>2. /\ n.minted.run = id /\ id = s.minted.run + 1 /\ s.minted.run \in Nat
      /\ n.minted.grant = s.minted.grant /\ n.minted.request = s.minted.request
      /\ s.minted.grant \in Nat /\ s.minted.request \in Nat
  BY <1>0 DEF Admits, MintKinds
<1>3. /\ DOMAIN n.runs = DOMAIN s.runs \cup {id} /\ (\A r \in DOMAIN s.runs : n.runs[r] = s.runs[r])
      /\ NewRun(s, id, n.runs[id])
  BY DEF Admits
<1>4. \A r \in DOMAIN s.runs : RunOK(s, r)
  BY <1>0 DEF RunsOK, TreeOK
<1>5. ASSUME NEW r \in DOMAIN s.runs PROVE RunOK(n, r)
  <2>1. RunOK(s, r) /\ n.runs[r] = s.runs[r]
    BY <1>3, <1>4
  <2>2. \A p \in s.runs[r].parent : /\ p \in DOMAIN s.runs /\ n.runs[p] = s.runs[p]
                                    /\ \A q \in s.runs[p].parent : q \in DOMAIN s.runs /\ n.runs[q] = s.runs[q]
    BY <1>3, <1>4 DEF RunOK
  <2>3. r \in Nat /\ r <= n.minted.run
    BY <1>2, <2>1 DEF RunOK
  <2> QED
    BY <1>3, <2>1, <2>2, <2>3 DEF RunOK
<1>6. RunOK(n, id)
  <2>1. \A p \in n.runs[id].parent : /\ p \in DOMAIN s.runs /\ n.runs[p] = s.runs[p] /\ p < id
                                     /\ \A q \in s.runs[p].parent : q \in DOMAIN s.runs /\ n.runs[q] = s.runs[q]
    BY <1>2, <1>3, <1>4 DEF RunOK, NewRun
  <2>2. n.runs[id].state \in RunStates
    BY <1>3 DEF NewRun, RunStates
  <2> QED
    BY <1>2, <1>3, <2>1, <2>2, SMTT(30) DEF RunOK, NewRun
<1>7. TreeOK(n)
  BY <1>0, <1>1, <1>3, <1>5, <1>6 DEF TreeOK, RunsOK
<1>8. EpochsOK(n)
  BY <1>0, <1>1, <1>2 DEF RunsOK, EpochsOK
<1>9. CoveredOK(n)
  BY <1>0, <1>1, <1>3 DEF RunsOK, CoveredOK, NewRun
<1>10. RequestsOK(n)
  BY <1>0, <1>1, <1>2, <1>3 DEF RunsOK, RequestsOK, RequestOK
<1>11. LeasesOK(n)
  BY <1>0, <1>1, <1>3 DEF RunsOK, LeasesOK, LeaseOK
<1>12. StartsOK(n)
  <2>1. StartsOK(s)
    BY <1>0 DEF RunsOK
  <2>2. ASSUME NEW r \in DOMAIN n.runs, NEW x \in n.runs[r].started
        PROVE  /\ \E y \in n.starts : y.connection = n.runs[r].connection /\ y.run = x.run
               /\ n.runs[r].state = "Cancelled" => n.runs[x.run].state # "Running"
    <3>1. r \in DOMAIN s.runs
      BY <1>3 DEF NewRun
    <3>2. /\ \E y \in s.starts : y.connection = s.runs[r].connection /\ y.run = x.run
          /\ s.runs[r].state = "Cancelled" => s.runs[x.run].state # "Running"
      BY <1>3, <2>1, <3>1 DEF StartsOK
    <3>3. x.run \in DOMAIN s.runs
      BY <2>1, <3>2 DEF StartsOK
    <3> QED
      BY <1>1, <1>3, <3>1, <3>2, <3>3
  <2> QED
    BY <1>1, <1>3, <2>1, <2>2 DEF StartsOK
<1>13. DeliveryOK(n)
  BY <1>0, <1>1, <1>3 DEF RunsOK, DeliveryOK, NewRun
<1>17. BudgetsOK(n)
  <2>1. Shape(s) /\ TreeOK(s) /\ BudgetsOK(s) /\ EpochsOK(s)
    BY DEF Sound, Good, RunsOK
  <2>2. id \notin DOMAIN s.runs
    BY <1>2, <1>4, SMTT(30) DEF RunOK
  <2>3. n.runs[id].parent \subseteq DOMAIN s.runs /\ Room(s, n.runs[id])
    BY <1>3 DEF NewRun, Admits
  <2>4. \E g \in s.grants : g.epoch = n.runs[id].epoch /\ g.epoch \in Nat /\ g.epoch <= s.minted.grant
    BY <1>3, <2>1 DEF NewRun, Covers, EpochsOK
  <2> QED
    BY <1>1, <1>2, <1>3, <2>1, <2>2, <2>3, <2>4, RoomIsEnough
<1>14. RunsOK(n)
  BY <1>7, <1>8, <1>9, <1>10, <1>11, <1>12, <1>13, <1>17 DEF RunsOK
<1>15. \A q \in n.requests : \E u \in s.requests : u.id = q.id /\ (u.committed => q.committed)
  BY <1>1, Zenon
<1>16. Later(n, s)
  BY <1>1, <1>2, <1>3, <1>15 DEF Later
<1> QED
  BY <1>14, <1>16 DEF Goes, Onward

\* What is above a run is older.
LEMMA LineageIsOlder ==
    ASSUME NEW s, TreeOK(s), NEW r \in DOMAIN s.runs, NEW a \in Lineage(s, r) PROVE a \in Nat /\ a <= r
<1>1. \A x \in DOMAIN s.runs : x \in Nat /\ \A y \in Parents(s, x) : y \in DOMAIN s.runs /\ y < x
  BY DEF TreeOK, RunOK, Parents
<1>2. \/ a = r \/ a \in Parents(s, r) \/ \E p \in Parents(s, r) : a \in Parents(s, p)
      \/ \E p \in Parents(s, r) : \E q \in Parents(s, p) : a \in Parents(s, q)
  BY DEF Lineage, Ancestors
<1>3. \A p \in Parents(s, r) : \A q \in Parents(s, p) : q \in DOMAIN s.runs /\ q < r
  BY <1>1
<1>4. \A p \in Parents(s, r) : \A q \in Parents(s, p) : \A x \in Parents(s, q) : x \in DOMAIN s.runs /\ x < r
  BY <1>1, <1>3
<1> QED
  BY <1>1, <1>2, <1>3, <1>4

\* A lineage of at most two runs leaves room for one level below.
LEMMA ShortLineage ==
    ASSUME NEW s, Sound(s), NEW c, NEW p, CheckRun(s, c, p), Cardinality(Lineage(s, p)) <= 2,
           NEW q \in s.runs[p].parent
    PROVE  s.runs[q].parent = {}
<1> DEFINE top == s.minted.run
<1>1. top \in Nat /\ \A r \in DOMAIN s.runs : RunOK(s, r)
  BY DEF Sound, Good, Shape, MintKinds, RunsOK, TreeOK
<1>2. p \in DOMAIN s.runs /\ Lineage(s, p) \subseteq DOMAIN s.runs
  BY CheckedRun
<1>3. Lineage(s, p) \subseteq 1 .. top
  BY <1>1, <1>2 DEF RunOK
<1>4. IsFiniteSet(1 .. top)
  BY <1>1, FS_Interval
<1>5. IsFiniteSet(Lineage(s, p))
  BY <1>3, <1>4, FS_Subset
<1>6. q \in DOMAIN s.runs /\ q < p /\ q \in Nat /\ p \in Nat
  BY <1>1, <1>2 DEF RunOK
<1> SUFFICES ASSUME NEW z \in s.runs[q].parent PROVE FALSE
  OBVIOUS
<1>7. z < q /\ z \in Nat
  BY <1>1, <1>6 DEF RunOK
<1>8. q \in Parents(s, p) /\ z \in Parents(s, q)
  BY <1>2, <1>6 DEF Parents
<1>9. {p, q, z} \subseteq Lineage(s, p)
  BY <1>8 DEF Lineage, Ancestors
<1>10. Cardinality({p, q, z}) = 3
  <2>1. IsFiniteSet({z}) /\ Cardinality({z}) = 1
    BY FS_Singleton
  <2>2. q \notin {z} /\ {z} \cup {q} = {q, z}
    BY <1>6, <1>7
  <2>0. IsFiniteSet({z} \cup {q}) /\ Cardinality({z} \cup {q}) = Cardinality({z}) + 1
    BY <2>1, <2>2, FS_AddElement
  <2>3. IsFiniteSet({q, z}) /\ Cardinality({q, z}) = 2
    BY <2>0, <2>1, <2>2
  <2>4. p \notin {q, z} /\ {q, z} \cup {p} = {p, q, z}
    BY <1>6, <1>7
  <2>5. Cardinality({q, z} \cup {p}) = Cardinality({q, z}) + 1
    BY <2>3, <2>4, FS_AddElement
  <2> QED
    BY <2>3, <2>4, <2>5
<1>11. Cardinality({p, q, z}) <= Cardinality(Lineage(s, p))
  BY <1>5, <1>9, FS_Subset
<1>12. Cardinality(Lineage(s, p)) \in Nat
  BY <1>5, FS_CardinalityType
<1> QED
  BY <1>10, <1>11, <1>12

\* What admit_in_slot lets a run do lies within the one grant of the slot.
LEMMA AdmittedScope ==
    ASSUME NEW s, Sound(s), NEW c, NEW slot, NEW parent, NEW spec, MayAdmit(s, c, slot, parent, spec),
           NEW scope, scope = Resolve(s, spec)
    PROVE  \E g \in SlotGrants(s, c, slot) :
              /\ SlotGrants(s, c, slot) = {g} /\ spec.deadline <= g.expires
              /\ scope.sources \cup UNION {s.runs[p].sources : p \in parent} \subseteq g.sources
              /\ scope.controls \cup UNION {s.runs[p].controls : p \in parent} \subseteq g.controls
<1>1. PICK g \in SlotGrant(s, c, slot) :
         /\ IF slot = Ordinary
            THEN Within(scope, spec, g) /\ spec.kind \in g.bindings
            ELSE /\ parent = {} /\ spec.kind = "Discovery"
                 /\ scope.sources # {} /\ scope.sources \subseteq g.sources
                 /\ scope.controls = {} /\ ~spec.invoke /\ ~spec.results
         /\ spec.deadline <= g.expires
  BY Zenon DEF MayAdmit
<1>2. g \in SlotGrants(s, c, slot) /\ g \in s.grants /\ g.connection = c /\ g.slot = slot
  BY DEF SlotGrant, SlotGrants, GrantsOf
<1>3. SlotGrants(s, c, slot) = {g}
  BY <1>2, SlotIsSingle DEF Sound, Good
<1>4. scope.sources \subseteq g.sources /\ scope.controls \subseteq g.controls
  <2>1. CASE slot = Ordinary
    BY <1>1, <2>1 DEF Within
  <2>2. CASE slot # Ordinary
    BY <1>1, <2>2
  <2> QED
    BY <2>1, <2>2
<1>5. ASSUME NEW p \in parent PROVE s.runs[p].sources \subseteq g.sources /\ s.runs[p].controls \subseteq g.controls
  <2>1. CheckRun(s, c, p) /\ s.runs[p].slot = slot
    BY DEF MayAdmit
  <2>2. p \in DOMAIN s.runs /\ s.runs[p].connection = c /\ s.runs[p].state = "Running"
    BY <2>1, CheckedRun
  <2>3. PICK h \in s.grants : Covers(h, s.runs[p])
    BY <2>2 DEF Sound, RunsOK, CoveredOK
  <2>4. h = g
    BY <1>2, <2>1, <2>2, <2>3 DEF Covers, Sound, Good, GrantsOK
  <2> QED
    BY <2>3, <2>4 DEF Covers
<1>6. /\ scope.sources \cup UNION {s.runs[p].sources : p \in parent} \subseteq g.sources
      /\ scope.controls \cup UNION {s.runs[p].controls : p \in parent} \subseteq g.controls
  BY <1>4, <1>5
<1> QED
  BY <1>1, <1>2, <1>3, <1>6

\* admit_in_slot: a charge (m), then one run more (n).
Admitting(s, c, slot, parent, spec, m, n) ==
    /\ (\A p, q \in parent : p = q) /\ spec \in RunSpecs /\ MayAdmit(s, c, slot, parent, spec)
    /\ m = Charge(s, c, slot, UNION {Lineage(s, p) : p \in parent})
    /\ n = Admitted(s, c, slot, parent, spec)

LEMMA AdmittedAdmits ==
    ASSUME NEW s, Sound(s), NEW c, NEW slot, NEW parent, NEW spec, NEW m, NEW n,
           Admitting(s, c, slot, parent, spec, m, n)
    PROVE  /\ Goes(m, s) /\ SameRuns(m, s) /\ Admits(n, m, m.minted.run + 1)
           /\ n.runs[m.minted.run + 1].connection = c /\ n.runs[m.minted.run + 1].slot = slot
           /\ n.runs[m.minted.run + 1].kind = spec.kind
<1> DEFINE lineage == UNION {Lineage(s, p) : p \in parent}
           paid == Mint(m, "run")
           id == paid.minted.run
           scope == Resolve(s, spec)
           sources == scope.sources \cup UNION {s.runs[p].sources : p \in parent}
           controls == scope.controls \cup UNION {s.runs[p].controls : p \in parent}
           epoch == CHOOSE e \in {g.epoch : g \in SlotGrants(s, c, slot)} : TRUE
           run == [connection |-> c, slot |-> slot, parent |-> parent, kind |-> spec.kind,
                   epoch |-> epoch, scope |-> scope,
                   target |-> {r \in Current(s) : r.session \in spec.target},
                   sources |-> sources, controls |-> controls,
                   deadline |-> spec.deadline, budget |-> spec.budget, usage |-> 1,
                   state |-> "Running", started |-> {}, prepared |-> FALSE, effects |-> 0]
<1>0. /\ (\A p, q \in parent : p = q) /\ spec \in RunSpecs /\ MayAdmit(s, c, slot, parent, spec)
      /\ m = Charge(s, c, slot, lineage) /\ n = Admitted(s, c, slot, parent, spec)
  BY DEF Admitting
<1>1. n = [paid EXCEPT !.runs = [r \in DOMAIN @ \cup {id} |-> IF r = id THEN run ELSE @[r]]]
  BY <1>0 DEF Admitted
<1>2. Fits(s, c, slot, lineage) /\ spec.budget \in 1 .. Budget /\ spec.deadline \in Nat
  BY <1>0, RunAssumption DEF MayAdmit
<1>3. PICK g \in SlotGrants(s, c, slot) :
              /\ SlotGrants(s, c, slot) = {g} /\ spec.deadline <= g.expires
              /\ sources \subseteq g.sources /\ controls \subseteq g.controls
  BY <1>0, AdmittedScope
<1>4. ASSUME NEW p \in parent
      PROVE  /\ p \in DOMAIN s.runs /\ s.runs[p].connection = c /\ s.runs[p].state = "Running"
             /\ spec.kind = "Workflow"
             /\ \A q \in s.runs[p].parent : q \in DOMAIN s.runs /\ s.runs[q].parent = {}
  <2>1. CheckRun(s, c, p) /\ IsWorkflow(spec) /\ Cardinality(Lineage(s, p)) <= 2
    BY <1>0 DEF MayAdmit
  <2>2. p \in DOMAIN s.runs /\ s.runs[p].connection = c /\ s.runs[p].state = "Running"
    BY <2>1, CheckedRun
  <2>3. \A q \in s.runs[p].parent : q \in DOMAIN s.runs
    BY <2>2 DEF Sound, RunsOK, TreeOK, RunOK
  <2>4. \A q \in s.runs[p].parent : s.runs[q].parent = {}
    BY <2>1, ShortLineage
  <2> QED
    BY <2>1, <2>2, <2>3, <2>4 DEF IsWorkflow
<1>5. epoch = g.epoch /\ g \in s.grants /\ g.connection = c /\ g.slot = slot
  BY <1>3 DEF SlotGrants, GrantsOf
<1>6. /\ DOMAIN run = RunFields /\ run.connection = c /\ run.slot = slot /\ run.parent = parent
      /\ run.kind = spec.kind /\ run.epoch = epoch /\ run.sources = sources /\ run.controls = controls
      /\ run.deadline = spec.deadline /\ run.budget = spec.budget /\ run.usage = 1
      /\ run.state = "Running" /\ run.started = {}
  BY DEF RunFields
<1>23. parent = {} => lineage = {}
  OBVIOUS
<1>24. \A p \in parent : lineage = Lineage(s, p)
  BY <1>0
<1> HIDE DEF scope, sources, controls, epoch, run, lineage
<1>25. Chain(s, lineage)
  <2>1. CASE parent = {}
    BY <1>23, <2>1 DEF Chain
  <2>2. ASSUME NEW p \in parent PROVE Chain(s, lineage)
    BY <1>4, <1>24, LineageIsChain DEF Sound, RunsOK
  <2> QED
    BY <2>1, <2>2
<1>26. ASSUME NEW p \in parent PROVE p \in lineage /\ Children(s, p) \cap lineage = {}
  <2>1. TreeOK(s) /\ p \in DOMAIN s.runs /\ lineage = Lineage(s, p)
    BY <1>4, <1>24 DEF Sound, RunsOK
  <2>2. \A x \in Children(s, p) : x \in Nat /\ p < x
    BY <2>1 DEF Children, TreeOK, RunOK
  <2>3. \A x \in Lineage(s, p) : x \in Nat /\ x <= p
    BY <2>1, LineageIsOlder
  <2>4. p \in Nat
    BY <2>1 DEF TreeOK, RunOK
  <2>5. \A x \in Children(s, p) : x \notin Lineage(s, p)
    BY <2>2, <2>3, <2>4
  <2>6. p \in Lineage(s, p)
    BY DEF Lineage
  <2> QED
    BY <2>1, <2>5, <2>6
<1>27. Room(m, run)
  <2>1. Shape(s) /\ TreeOK(s) /\ GrantsOK(s) /\ BudgetsOK(s)
    BY DEF Sound, Good, RunsOK
  <2>2. Billed(m, s, c, slot, lineage) /\ Billable(s, c, slot, lineage)
    BY <1>0, <1>2, <1>25, ChargeBills
  <2>3. /\ run.usage = 1 /\ run.connection = c /\ run.slot = slot
        /\ (\A p \in run.parent : p \in lineage /\ Children(s, p) \cap lineage = {})
        /\ run.parent = {} => lineage = {}
    BY <1>6, <1>23, <1>26
  <2> QED
    BY <2>1, <2>2, <2>3, BilledLeavesRoom
<1>7. Goes(m, s) /\ Paid(m, s, lineage)
  BY <1>0, <1>2, <1>25, ChargeGoes, ChargeEffect
<1>8. /\ DOMAIN m = Fields /\ m.minted \in [MintKinds -> Nat] /\ Sound(m)
  BY <1>7, GoesIsSound DEF Sound, Good, Shape
<1>9. /\ DOMAIN paid = Fields /\ paid.minted = [m.minted EXCEPT !["run"] = m.minted.run + 1]
      /\ \A f \in Fields \ {"minted"} : paid[f] = m[f]
  BY <1>8 DEF Mint, Fields
<1> HIDE DEF paid
<1>10. id = m.minted.run + 1 /\ m.minted.run \in Nat
  BY <1>8, <1>9 DEF MintKinds
<1>11. /\ DOMAIN n = Fields /\ (\A f \in Fields \ {"runs"} : n[f] = paid[f])
       /\ n.runs = [r \in DOMAIN paid.runs \cup {id} |-> IF r = id THEN run ELSE paid.runs[r]]
  BY <1>1, <1>9 DEF Fields
<1>12. (\A f \in Fields \ {"runs", "minted"} : n[f] = m[f]) /\ n.minted = paid.minted /\ paid.runs = m.runs
  BY <1>9, <1>11 DEF Fields
<1>13. \A r \in DOMAIN m.runs : r # id
  BY <1>8, <1>10 DEF Sound, RunsOK, TreeOK, RunOK
<1>14. /\ DOMAIN n.runs = DOMAIN m.runs \cup {id} /\ (\A r \in DOMAIN m.runs : n.runs[r] = m.runs[r])
       /\ n.runs[id] = run
  BY <1>11, <1>12, <1>13
<1>15. DOMAIN m.runs = DOMAIN s.runs /\ \A r \in DOMAIN s.runs : SameRun(m.runs[r], s.runs[r])
  BY <1>7 DEF Paid
<1>16. \E h \in m.grants : Covers(h, run)
  <2>1. PICK h \in m.grants : SameCover(g, h)
    BY <1>5, <1>7 DEF Paid, SameGrants
  <2> QED
    BY <1>3, <1>5, <1>6, <2>1 DEF Covers, SameCover
<1>17. \A p \in run.parent :
          /\ p \in DOMAIN m.runs /\ m.runs[p].connection = run.connection
          /\ m.runs[p].state = "Running"
          /\ \A q \in m.runs[p].parent : m.runs[q].parent = {}
  BY <1>4, <1>6, <1>15 DEF SameRun
<1>18. run.budget \in Nat /\ run.usage \in 1 .. run.budget /\ run.deadline \in Nat
  BY <1>2, <1>6, BrokerAssumption
<1>19. (run.parent # {} => run.kind = "Workflow") /\ \A p, q \in run.parent : p = q
  BY <1>0, <1>4, <1>6
<1>20. NewRun(m, id, run)
  BY <1>6, <1>16, <1>17, <1>18, <1>19 DEF NewRun
<1>21. Admits(n, m, id)
  BY <1>9, <1>10, <1>11, <1>12, <1>14, <1>20, <1>27 DEF Admits
<1>22. SameRuns(m, s)
  <2>1. \A r \in DOMAIN m.runs : m.runs[r].usage \in 1 .. m.runs[r].budget
    BY <1>8 DEF Sound, RunsOK, TreeOK, RunOK
  <2> QED
    BY <1>15, <2>1 DEF SameRuns
<1> QED
  BY <1>6, <1>7, <1>10, <1>14, <1>21, <1>22

\* admit_run.
LEMMA AdmitRunGoes ==
    ASSUME Sound(b), Good(b'), NEW c, NEW slot, NEW parent, \A p, q \in parent : p = q,
           NEW spec \in RunSpecs, AdmitRun(c, slot, parent, spec)
    PROVE  Goes(b', b)
<1> DEFINE s == PollExpiry(b)
           m == Charge(s, c, slot, UNION {Lineage(s, p) : p \in parent})
           id == m.minted.run + 1
<1>1. MayAdmit(s, c, slot, parent, spec) /\ b' = Admitted(s, c, slot, parent, spec)
  BY DEF AdmitRun
<1>2. Goes(s, b) /\ Sound(s)
  BY PollGoes, GoesIsSound
<1>a. Admitting(s, c, slot, parent, spec, m, b')
  BY <1>1 DEF Admitting
<1> HIDE DEF s, m
<1>3. Goes(m, s) /\ Admits(b', m, id)
  BY <1>2, <1>a, AdmittedAdmits
<1> HIDE DEF id
<1>4. Goes(m, b) /\ Sound(m)
  BY <1>2, <1>3, GoesChain
<1>5. Goes(b', m)
  BY <1>3, <1>4, AdmitsGoes
<1> QED
  BY <1>4, <1>5, GoesChain

\* Sources and controls of a run of the same client and slot may be added.
LEMMA WidenedRun ==
    ASSUME NEW m, Sound(m), NEW id, NEW run, NewRun(m, id, run), NEW r \in DOMAIN m.runs,
           m.runs[r].state = "Running", m.runs[r].connection = run.connection, m.runs[r].slot = run.slot,
           NEW x, DOMAIN x = RunFields,
           \A f \in RunFields \ {"sources", "controls"} : x[f] = run[f],
           x.sources = run.sources \cup m.runs[r].sources, x.controls = run.controls \cup m.runs[r].controls
    PROVE  NewRun(m, id, x)
<1>1. PICK g \in m.grants : Covers(g, run)
  BY DEF NewRun
<1>2. PICK h \in m.grants : Covers(h, m.runs[r])
  BY DEF Sound, RunsOK, CoveredOK
<1>3. h = g
  BY <1>1, <1>2 DEF Covers, Sound, Good, GrantsOK
<1>4. /\ x.connection = run.connection /\ x.slot = run.slot /\ x.epoch = run.epoch
      /\ x.deadline = run.deadline /\ x.state = run.state /\ x.started = run.started
      /\ x.budget = run.budget /\ x.usage = run.usage /\ x.parent = run.parent /\ x.kind = run.kind
  BY DEF RunFields
<1>5. Covers(g, x)
  BY <1>1, <1>2, <1>3, <1>4 DEF Covers
<1> QED
  BY <1>4, <1>5 DEF NewRun

\* A first start: the call is charged, the workflow admitted, the receipt kept.
LEMMA StartGoes ==
    ASSUME Sound(b), Good(b'), NEW c, NEW context, NEW key, NEW spec \in RunSpecs,
           StartWorkflow(c, context, key, spec)
    PROVE  Goes(b', b)
<1> DEFINE s == PollExpiry(b)
           lineage == Lineage(s, context)
           paid == Charge(s, c, Ordinary, lineage)
           m == Charge(paid, c, Ordinary, UNION {Lineage(paid, p) : p \in {}})
           n == Admitted(paid, c, Ordinary, {}, spec)
           id == n.minted.run
           sources == s.runs[context].sources
           controls == s.runs[context].controls
           y == [connection |-> c, key |-> key, spec |-> spec, epoch |-> s.runs[context].epoch, run |-> id]
           z == [key |-> key, run |-> id]
<1>1. /\ CheckRun(s, c, context) /\ s.runs[context].slot = Ordinary
      /\ s.runs[context].kind = "WorkflowStart" /\ spec.kind = "Workflow"
      /\ Fits(s, c, Ordinary, lineage) /\ Receipt(s, c, key) = {}
  BY Zenon DEF StartWorkflow, MayStart, IsWorkflow
<1>2. b' = IF ~MayAdmit(paid, c, Ordinary, {}, spec) THEN paid
           ELSE [n EXCEPT !.runs[id].sources = @ \cup sources, !.runs[id].controls = @ \cup controls,
                          !.runs[context].started = {z}, !.starts = @ \cup {y}]
  BY DEF StartWorkflow
<1>3. Goes(s, b) /\ Sound(s)
  BY PollGoes, GoesIsSound
<1>4. y.connection = c /\ y.key = key /\ y.run = id /\ z.run = id
  OBVIOUS
<1>9. Chain(s, lineage)
  BY <1>1, <1>3, CheckedChain
<1> HIDE DEF s, lineage, y, z
<1>5. Goes(paid, s) /\ Paid(paid, s, lineage)
  BY <1>1, <1>3, <1>9, ChargeGoes, ChargeEffect
<1>6. Goes(paid, b) /\ Sound(paid)
  BY <1>3, <1>5, GoesChain
<1>7. CASE ~MayAdmit(paid, c, Ordinary, {}, spec)
  <2>1. b' = paid
    BY <1>2, <1>7, Zenon
  <2> QED
    BY <1>6, <2>1
<1>8. CASE MayAdmit(paid, c, Ordinary, {}, spec)
  <2>1. b' = [n EXCEPT !.runs[id].sources = @ \cup sources, !.runs[id].controls = @ \cup controls,
                       !.runs[context].started = {z}, !.starts = @ \cup {y}]
    BY <1>2, <1>8, Zenon
  <2>2. Admitting(paid, c, Ordinary, {}, spec, m, n)
    BY <1>8 DEF Admitting
  <2> HIDE DEF paid
  <2>3. Safe(n, paid)
    BY <1>6, AdmittedIsSafe DEF Sound
  <2> HIDE DEF m, n
  <2>4. /\ Goes(m, paid) /\ SameRuns(m, paid) /\ Admits(n, m, m.minted.run + 1)
        /\ n.runs[m.minted.run + 1].connection = c /\ n.runs[m.minted.run + 1].slot = Ordinary
        /\ n.runs[m.minted.run + 1].kind = spec.kind
    BY <1>6, <2>2, AdmittedAdmits
  <2>5. Goes(m, b) /\ Sound(m) /\ m.minted \in [MintKinds -> Nat]
    BY <1>6, <2>4, GoesChain, SMTT(30) DEF Sound, Good, Shape
  <2>6. id = m.minted.run + 1 /\ m.minted.run \in Nat
    BY <2>4, <2>5 DEF Admits, MintKinds
  <2>7. Admits(n, m, id) /\ n.runs[id].connection = c /\ n.runs[id].slot = Ordinary /\ n.runs[id].kind = "Workflow"
    BY <1>1, <2>4, <2>6
  <2> HIDE DEF id
  <2>8. context \in DOMAIN s.runs /\ s.runs[context].connection = c /\ s.runs[context].state = "Running"
    BY <1>1, CheckedRun
  <2>9. context \in DOMAIN paid.runs /\ SameRun(paid.runs[context], s.runs[context])
    BY <1>5, <2>8 DEF Paid
  <2>10. context \in DOMAIN m.runs /\ SameRun(m.runs[context], paid.runs[context])
    BY <2>4, <2>9 DEF SameRuns
  <2>11. /\ m.runs[context].connection = c /\ m.runs[context].slot = Ordinary
         /\ m.runs[context].state = "Running" /\ m.runs[context].kind = "WorkflowStart"
         /\ m.runs[context].sources = sources /\ m.runs[context].controls = controls
    BY <1>1, <2>8, <2>9, <2>10 DEF SameRun
  <2> HIDE DEF sources, controls
  <2>12. context # id /\ \A r \in DOMAIN m.runs : DOMAIN m.runs[r] = RunFields /\ r # id
    BY <2>5, <2>6, <2>10 DEF Sound, RunsOK, TreeOK, RunOK
  <2>13. /\ DOMAIN n = Fields /\ DOMAIN n.runs = DOMAIN m.runs \cup {id}
         /\ (\A r \in DOMAIN m.runs : n.runs[r] = m.runs[r])
         /\ NewRun(m, id, n.runs[id]) /\ DOMAIN n.runs[id] = RunFields
    BY <2>7 DEF Admits, NewRun
  <2> DEFINE w == [n EXCEPT !.runs[id].sources = @ \cup sources, !.runs[id].controls = @ \cup controls]
  <2>14. /\ DOMAIN w = Fields /\ (\A f \in Fields \ {"runs"} : w[f] = n[f])
         /\ w.runs = [n.runs EXCEPT ![id].sources = @ \cup sources, ![id].controls = @ \cup controls]
    BY <2>13 DEF Fields
  <2>15. b' = [w EXCEPT !.runs[context].started = {z}, !.starts = @ \cup {y}]
    BY <2>1
  <2> HIDE DEF w
  <2>16. /\ DOMAIN w.runs = DOMAIN n.runs /\ (\A r \in DOMAIN m.runs : w.runs[r] = m.runs[r])
         /\ DOMAIN w.runs[id] = RunFields
         /\ \A f \in RunFields \ {"sources", "controls"} : w.runs[id][f] = n.runs[id][f]
         /\ w.runs[id].sources = n.runs[id].sources \cup sources
         /\ w.runs[id].controls = n.runs[id].controls \cup controls
    BY <2>12, <2>13, <2>14 DEF RunFields
  <2>17. NewRun(m, id, w.runs[id])
    BY <2>5, <2>7, <2>10, <2>11, <2>13, <2>16, WidenedRun, SMTT(30)
  <2>18. Admits(w, m, id)
    <3>1. \A f \in Fields \ {"runs", "minted"} : w[f] = m[f]
      BY <2>7, <2>14 DEF Admits
    <3>2. w.minted = n.minted
      BY <2>14 DEF Fields
    <3>3. Room(m, n.runs[id])
      BY <2>7 DEF Admits
    <3>4. /\ w.runs[id].usage = n.runs[id].usage /\ w.runs[id].parent = n.runs[id].parent
          /\ w.runs[id].connection = n.runs[id].connection /\ w.runs[id].slot = n.runs[id].slot
          /\ w.runs[id].epoch = n.runs[id].epoch
      BY <2>16 DEF RunFields
    <3>5. Room(m, w.runs[id])
      BY <3>3, <3>4 DEF Room
    <3> QED
      BY <2>7, <2>13, <2>14, <2>16, <2>17, <3>1, <3>2, <3>5 DEF Admits
  <2>19. Good(w)
    <3>1. OnlyWork(w, n) /\ Good(n)
      BY <2>3, <2>14 DEF OnlyWork, Safe
    <3> QED
      BY <3>1, OnlyWorkIsSafe DEF Safe
  <2>20. Goes(w, m)
    BY <2>5, <2>18, <2>19, AdmitsGoes
  <2>21. Goes(w, b) /\ Sound(w)
    BY <2>5, <2>20, GoesChain
  <2>22. /\ b'.runs = [w.runs EXCEPT ![context].started = {z}] /\ b'.starts = w.starts \cup {y}
         /\ b'.detached = w.detached /\ b'.undelivered = w.undelivered /\ b'.retired = w.retired
         /\ b'.principals = w.principals /\ b'.minted = w.minted /\ b'.targets = w.targets
         /\ b'.requests = w.requests /\ b'.global = w.global /\ b'.grants = w.grants
         /\ b'.usage = w.usage
    BY <2>14, <2>15 DEF Fields
  <2>23. /\ w.minted \in [MintKinds -> Nat] /\ w.global \in 0 .. GlobalBudget
    BY <2>21 DEF Sound, Good, Shape, RunsOK, TreeOK
  <2>24. /\ context \in DOMAIN w.runs /\ w.runs[context] = m.runs[context] /\ id \in DOMAIN w.runs
         /\ w.runs[id].connection = c /\ w.runs[id].kind = "Workflow"
    BY <2>7, <2>10, <2>13, <2>16 DEF RunFields
  <2>25. /\ DOMAIN b'.runs = DOMAIN w.runs
         /\ \A r \in DOMAIN w.runs \ {context} : b'.runs[r] = w.runs[r]
         /\ b'.runs[context].started = {z}
         /\ SameRun(b'.runs[context], w.runs[context]) /\ b'.runs[context].usage = w.runs[context].usage
    BY <2>10, <2>12, <2>22, <2>24 DEF SameRun, RunFields
  <2>26. SameRuns(b', w)
    <3>1. SameRuns(w, w)
      BY <2>21, OldRuns
    <3> QED
      BY <2>25, <3>1 DEF SameRuns, SameRun
  <2>27. NextRequests(b', w) /\ NextLeases(b', w) /\ SameGrants(b', w)
    BY <2>21, <2>22, <2>23, OldRequests, OldLeases, OldGrants DEF MintKinds
  <2>28. NextStarts(b', w)
    <3>1. NextStarts(w, w)
      BY <2>21, OldStarts
    <3>2. w.starts = s.starts
      <4>1. w.starts = m.starts
        BY <2>18 DEF Admits, Fields
      <4>2. m.starts = paid.starts
        BY <1>6, ChargeEffect DEF m, Paid, Fields
      <4>3. paid.starts = s.starts
        BY <1>5 DEF Paid, Fields
      <4> QED
        BY <4>1, <4>2, <4>3
    <3>3. \A u \in w.starts : ~(u.connection = c /\ u.key = key)
      BY <1>1, <3>2 DEF Receipt
    <3>4. \A u, v \in b'.starts : u.connection = v.connection /\ u.key = v.key => u = v
      BY <1>4, <2>22, <3>1, <3>3 DEF NextStarts
    <3>5. \A u \in b'.starts : /\ u.run \in DOMAIN w.runs /\ w.runs[u.run].connection = u.connection
                               /\ w.runs[u.run].kind = "Workflow"
      BY <1>4, <2>22, <2>24, <3>1 DEF NextStarts
    <3>6. \A x \in b'.runs[context].started :
             \E u \in b'.starts : u.connection = w.runs[context].connection /\ u.run = x.run
      BY <1>4, <2>11, <2>22, <2>24, <2>25
    <3> QED
      BY <2>11, <2>22, <2>24, <2>25, <3>4, <3>5, <3>6 DEF NextStarts
  <2>30. BudgetsOK(b')
    BY <2>21, <2>22, <2>25, <2>26, OldAccounts
  <2>29. Busy(b', w)
    BY <2>22, <2>23, <2>26, <2>27, <2>28, <2>30 DEF Busy, MintKinds
  <2> QED
    BY <2>21, <2>29, BusyMoves
<1> QED
  BY <1>7, <1>8

\* Every method on runs takes the work on.
LEMMA RunStepGoes ==
    ASSUME BrokerInv, RunsOK(b), RunStep PROVE Goes(b', b)
<1>a. Good(b) /\ Good(b') /\ Sound(b)
  BY RunStepKeeps DEF BrokerInv, Sound
<1>1. ASSUME NEW c, NEW slot, NEW parent, \A p, q \in parent : p = q, NEW spec \in RunSpecs,
             AdmitRun(c, slot, parent, spec)
      PROVE  Goes(b', b)
  BY <1>a, <1>1, AdmitRunGoes
<1>2. ASSUME NEW c, NEW id, NEW key, NEW spec \in RunSpecs,
             StartWorkflow(c, id, key, spec) \/ RetryStart(c, id, key, spec)
      PROVE  Goes(b', b)
  BY <1>a, <1>2, StartGoes, RetryGoes
<1>3. ASSUME NEW c \in Connections, NEW spec \in RunSpecs,
             \/ \E parent \in {{}} \cup {{r} : r \in DOMAIN b.runs} : AdmitRun(c, Ordinary, parent, spec)
             \/ \E slot \in {g.slot : g \in b.grants} \ {Ordinary} : AdmitRun(c, slot, {}, spec)
             \/ \E id \in DOMAIN b.runs, key \in Keys :
                   StartWorkflow(c, id, key, spec) \/ RetryStart(c, id, key, spec)
      PROVE  Goes(b', b)
  <2>1. \A parent \in {{}} \cup {{r} : r \in DOMAIN b.runs} : \A p, q \in parent : p = q
    OBVIOUS
  <2>2. CASE \E parent \in {{}} \cup {{r} : r \in DOMAIN b.runs} : AdmitRun(c, Ordinary, parent, spec)
    BY <1>1, <2>1, <2>2
  <2>3. CASE \E slot \in {g.slot : g \in b.grants} \ {Ordinary} : AdmitRun(c, slot, {}, spec)
    BY <1>1, <2>3
  <2>4. CASE \E id \in DOMAIN b.runs, key \in Keys :
                StartWorkflow(c, id, key, spec) \/ RetryStart(c, id, key, spec)
    BY <1>2, <2>4
  <2> QED
    BY <1>3, <2>2, <2>3, <2>4
<1>4. ASSUME NEW c, NEW key, CancelStart(c, key) PROVE Goes(b', b)
  BY <1>a, <1>4, CancelStartGoes
<1>5. ASSUME NEW c, NEW id, Status(c, id) \/ ForgetRun(c, id) \/ CancelRun(c, id) PROVE Goes(b', b)
  BY <1>a, <1>5, StatusGoes, ForgetRunGoes, CancelRunGoes
<1>6. ASSUME NEW id, NEW ref, PrepareLease(id, ref) PROVE Goes(b', b)
  <2>1. b' = b
    BY <1>6 DEF PrepareLease
  <2> QED
    BY <1>a, <2>1, StillGoes
<1>7. ASSUME NEW id, NEW q \in RequestsFor(b, id), PrepareRequest(id, q) PROVE Goes(b', b)
  <2>1. q.operation \in Operations
    BY DEF RequestsFor, Operations
  <2> QED
    BY <1>a, <1>7, <2>1, PrepareRequestGoes
<1>8. ASSUME NEW id, NEW bad, Complete(id, bad) PROVE Goes(b', b)
  BY <1>a, <1>8, CompleteGoes
<1>9. ASSUME NEW t, CommitLease(t) PROVE Goes(b', b)
  BY <1>a, <1>9, CommitLeaseGoes
<1>10. ASSUME NEW q \in b.requests, CommitControl(q) \/ SettleRequest(q) \/ CompleteWithResult(q) PROVE Goes(b', b)
  <2>1. CASE SettleRequest(q)
    BY <1>a, <2>1, FewerRequestsGo DEF SettleRequest
  <2> QED
    BY <1>a, <1>10, <2>1, CommitControlGoes, CompleteWithResultGoes
<1> QED
  BY <1>3, <1>4, <1>5, <1>6, <1>7, <1>8, <1>9, <1>10, Zenon DEF RunStep, GuardedRunStep, FreeRunStep

-----------------------------------------------------------------------------
(* The theorems on work. *)

\* The inductive invariant of authority and work together.
RunsInv == BrokerInv /\ RunsOK(b)

LEMMA RunsStart ==
    ASSUME GrantInit PROVE RunsInv
<1>1. BrokerInv /\ b = EmptyBroker
  BY BrokerStarts DEF GrantInit
<1>2. /\ b.principals = {} /\ b.grants = {} /\ DOMAIN b.targets = {} /\ DOMAIN b.runs = {}
      /\ b.requests = {} /\ b.starts = {} /\ b.global = 0
  BY <1>1 DEF EmptyBroker
<1>3. TreeOK(b) /\ EpochsOK(b) /\ CoveredOK(b)
  BY <1>2, BrokerAssumption DEF TreeOK, EpochsOK, CoveredOK
<1>4. RequestsOK(b) /\ LeasesOK(b) /\ StartsOK(b) /\ DeliveryOK(b)
  BY <1>2 DEF RequestsOK, LeasesOK, StartsOK, DeliveryOK
<1>5. /\ \A c \in Connections : b.usage[c] = 0
  BY <1>1 DEF EmptyBroker
<1>6. \A c \in Connections : Total(Costs(b), GrantsOf(b, c)) <= b.usage[c]
  <2>1. \A c \in Connections : GrantsOf(b, c) = {}
    BY <1>2 DEF GrantsOf
  <2> QED
    BY <1>5, <2>1, SumOfNone
<1>7. Total(b.usage, Connections) <= b.global
  <2>1. Summable(b.usage, Connections) /\ Summable(b.usage, {})
    BY <1>5, RunAssumption, FS_EmptySet DEF Summable
  <2>2. NoMore(b.usage, Connections, b.usage, {})
    BY <1>5 DEF NoMore
  <2>3. Total(b.usage, Connections) <= Total(b.usage, {})
    BY <2>1, <2>2, TotalIsBounded
  <2> QED
    BY <1>2, <2>3, SumOfNone
<1>8. BudgetsOK(b)
  BY <1>2, <1>5, <1>6, <1>7, FS_EmptySet DEF BudgetsOK
<1> QED
  BY <1>1, <1>3, <1>4, <1>8 DEF RunsInv, RunsOK

LEMMA RunsStep ==
    ASSUME RunsInv, [GrantStep \/ RunStep]_grantVars PROVE RunsInv' /\ Later(b', b)
<1>1. CASE GrantStep
  <2>1. BrokerInv'
    BY <1>1, GrantStepKeeps DEF RunsInv
  <2>2. Goes(b', b)
    BY <1>1, GrantStepGoes DEF RunsInv
  <2> QED
    BY <2>1, <2>2 DEF RunsInv, Goes, Onward
<1>2. CASE RunStep
  <2>1. BrokerInv'
    BY <1>2, RunStepKeeps DEF RunsInv
  <2>2. Goes(b', b)
    BY <1>2, RunStepGoes DEF RunsInv
  <2> QED
    BY <2>1, <2>2 DEF RunsInv, Goes, Onward
<1>3. CASE UNCHANGED grantVars
  <2>1. BrokerInv' /\ b' = b
    BY <1>3, StutterKeeps DEF RunsInv, grantVars
  <2>2. Goes(b, b)
    BY StillGoes DEF RunsInv, BrokerInv, Sound
  <2> QED
    BY <2>1, <2>2 DEF RunsInv, Goes, Onward
<1> QED
  BY <1>1, <1>2, <1>3

\* Open work has an owner, and accounts hold.
LEMMA RunsInvGivesOwners == RunsInv => RunInv
<1> SUFFICES ASSUME RunsInv PROVE RunInv
  OBVIOUS
<1>1. TreeOK(b) /\ RequestsOK(b) /\ LeasesOK(b)
  BY DEF RunsInv, RunsOK
<1>2. ASSUME NEW r \in DOMAIN b.runs PROVE Cardinality(b.runs[r].parent) <= 1
  <2>1. \A p, q \in b.runs[r].parent : p = q
    BY <1>1 DEF TreeOK, RunOK
  <2>2. CASE b.runs[r].parent = {}
    <3>1. Cardinality({}) = 0
      BY FS_EmptySet
    <3> QED
      BY <2>2, <3>1
  <2>3. ASSUME NEW p \in b.runs[r].parent PROVE Cardinality(b.runs[r].parent) <= 1
    <3>1. b.runs[r].parent = {p}
      BY <2>1
    <3>2. Cardinality({p}) = 1
      BY FS_Singleton
    <3> QED
      BY <3>1, <3>2
  <2> QED
    BY <2>2, <2>3
<1>3. RunTypeOK
  BY <1>1, <1>2 DEF RunTypeOK, TreeOK, RunOK, RequestsOK, RequestOK
<1>4. OpenWorkHasRunningOwner
  BY <1>1 DEF OpenWorkHasRunningOwner, RequestsOK, RequestOK, LeasesOK, LeaseOK
<1> QED
  BY <1>3, <1>4 DEF RunInv

\* A running run has all it was admitted under.
LEMMA RunsInvGivesAuthority == RunsInv => RunningIsAuthorized
<1> SUFFICES ASSUME RunsInv, NEW r \in DOMAIN b.runs, b.runs[r].state = "Running"
             PROVE  /\ b.runs[r].connection \in b.principals
                    /\ \E g \in SlotGrants(b, b.runs[r].connection, b.runs[r].slot) :
                          /\ g.epoch = b.runs[r].epoch /\ b.runs[r].deadline <= g.expires
                          /\ b.runs[r].sources \subseteq g.sources /\ b.runs[r].controls \subseteq g.controls
                    /\ b.runs[r].sources \cup b.runs[r].controls \subseteq Current(b)
                    /\ \A a \in Ancestors(b, r) : a \in DOMAIN b.runs /\ b.runs[a].state = "Running"
  BY DEF RunningIsAuthorized
<1>1. PICK g \in b.grants : Covers(g, b.runs[r])
  BY DEF RunsInv, RunsOK, CoveredOK
<1>2. g.connection \in b.principals /\ g.sources \cup g.controls \subseteq Current(b)
  BY DEF RunsInv, BrokerInv, Good, LiveOK, GrantTargets
<1>3. g \in SlotGrants(b, b.runs[r].connection, b.runs[r].slot)
  BY <1>1 DEF Covers, SlotGrants, GrantsOf
<1>4. \A a \in Ancestors(b, r) : a \in DOMAIN b.runs /\ b.runs[a].state = "Running"
  BY AncestorsOfRun DEF RunsInv, RunsOK, Lineage
<1> QED
  BY <1>1, <1>2, <1>3, <1>4 DEF Covers

\* What a cancelled call had started has ended.
LEMMA RunsInvGivesStops == RunsInv => CancelledStartStops
BY DEF RunsInv, RunsOK, StartsOK, CancelledStartStops

\* Every account covers those below it.
LEMMA RunsInvGivesNesting == RunsInv => BudgetsNest
BY DEF RunsInv, RunsOK, BudgetsOK, BudgetsNest, Total, Uses, Costs, Children, Roots

\* Runs form shallow trees within their grants, open work has a running owner,
\* receipts name retained runs, and what has ended delivers nothing, whatever
\* clients, user and application do (every method of the broker).
THEOREM RunsInvariant == RunsSpec => []RunsInv
BY RunsStart, RunsStep, PTL DEF RunsSpec

\* RunInv: no request can be settled for, and no lease held by, a run that has
\* ended, a lease carries its target's epoch, and no account is overdrawn
\* (cut, charge, commit_lease).
THEOREM OpenWorkIsOwned == RunsSpec => []RunInv
BY RunsInvGivesOwners, RunsInvariant, PTL

\* RunningIsAuthorized: no sequence of revocations, closures, expiries and
\* completions leaves a run behind without its client, its grant, its targets
\* or its running ancestors (cut, revoke_slot, invalidate_target, poll_expiry).
THEOREM NoRunIsLeftBehind == RunsSpec => []RunningIsAuthorized
BY RunsInvGivesAuthority, RunsInvariant, PTL

\* CancelledStartStops: cancelling the call that started a workflow stops the
\* workflow, also when the call had been answered before (cancel_run).
THEOREM CancellationReachesTheWorkflow == RunsSpec => []CancelledStartStops
BY RunsInvGivesStops, RunsInvariant, PTL

\* BudgetsNest: whatever is charged below an account is charged to it too, and no
\* order of starts, retries, refused admissions, forgotten runs, revocations and
\* new grants leaves an account below what was spent under it (charge, approve).
THEOREM AccountsNest == RunsSpec => []BudgetsNest
BY RunsInvGivesNesting, RunsInvariant, PTL

\* OutcomeIsFinal: a later cut, a second completion or a late cancellation does
\* not rewrite how a run ended (cut).
THEOREM OutcomesAreFinal == RunsSpec => OutcomeIsFinal
<1> DEFINE Final == \A r \in DOMAIN b.runs \cap DOMAIN b'.runs :
                       b.runs[r].state # "Running" => b'.runs[r].state = b.runs[r].state
<1>1. RunsInv /\ [GrantStep \/ RunStep]_grantVars => [Final]_grantVars
  BY RunsStep DEF Later
<1> QED
  BY <1>1, RunsInvariant, PTL DEF RunsSpec, OutcomeIsFinal

\* StartsOnce: as long as its client is connected, a start key stands for one
\* retained run (start_workflow, forget_run, disconnect).
THEOREM AKeyStartsOneRun == RunsSpec => StartsOnce
<1> DEFINE Once == /\ \A x \in b.starts : x.connection \in b'.principals =>
                         x \in b'.starts /\ x.run \in DOMAIN b'.runs
                   /\ \A x, y \in b'.starts : (x.connection = y.connection /\ x.key = y.key) => x = y
<1>1. RunsInv /\ [GrantStep \/ RunStep]_grantVars => [Once]_grantVars
  <2> SUFFICES ASSUME RunsInv, [GrantStep \/ RunStep]_grantVars PROVE Once
    OBVIOUS
  <2>1. Later(b', b) /\ EpochsOK(b') /\ StartsOK(b')
    BY RunsStep DEF RunsInv, RunsOK
  <2> QED
    BY <2>1 DEF Later, EpochsOK, StartsOK
<1> QED
  BY <1>1, RunsInvariant, PTL DEF RunsSpec, StartsOnce

-----------------------------------------------------------------------------
(* The connection: its queue, the frames its thread holds, what it has sent. *)

Frames == [id : Nat, expires : Nat, targets : SUBSET Refs,
           disclosure : SUBSET [run : Nat, epoch : Nat, deadline : Nat]]

\* What has been queued and not sent, and the ids in use.
Held(qs, ws) == {qs[i] : i \in 1 .. Len(qs)} \cup {w.frame : w \in ws}
Used(qs, ws, wr) == {f.id : f \in Held(qs, ws)} \cup {wr[i] : i \in 1 .. Len(wr)}

ChannelTypeOK(qs, ws, wr) ==
    /\ qs \in Seq(Frames) /\ wr \in Seq(Nat)
    /\ \A w \in ws : DOMAIN w = {"frame", "left"} /\ w.frame \in Frames /\ w.left \in 1 .. Pieces
    /\ \A u, w \in ws : u = w

\* A frame waits for a client that is connected, or for one whose connection is
\* closed.  The grant that metadata was read under, if it still stands, is a
\* metadata grant of that client and ends with the frame.
Bound(s, c, f, d) ==
    /\ d.epoch <= s.minted.grant
    /\ \A g \in s.grants : g.epoch = d.epoch =>
          g.connection = c /\ g.slot # Ordinary /\ g.expires = f.expires

FrameOK(s, sh, c, f) ==
    /\ c \in s.principals \cup sh
    /\ \A d \in f.disclosure : Bound(s, c, f, d)

FramesOK(s, sh, c, qs, ws) == \A f \in Held(qs, ws) : FrameOK(s, sh, c, f)

\* A request that has not been answered is not on its way to anyone.
IdsOK(s, used) ==
    /\ \A i \in used : i <= s.minted.request
    /\ \A q \in s.requests : ~q.committed => q.id \notin used

\* The pieces of the frame that is being sent are the last ones.
Halfway(ws, id, left) ==
    /\ Len(ws) % Pieces = Pieces - left
    /\ \A j \in 1 .. Len(ws) : j > Len(ws) - (Pieces - left) => ws[j] = id
    /\ Len(ws) - (Pieces - left) >= 1 => ws[Len(ws) - (Pieces - left)] # id

\* The i-th piece belongs to a frame of pieces in a row.
PieceOK(ws, i) ==
    LET start == i - ((i - 1) % Pieces)
    IN  /\ \A j \in start .. i : ws[j] = ws[i]
        /\ (start > 1) => ws[start - 1] # ws[i]

StreamOK(sh, c, qs, ws, wr) ==
    /\ \A i \in 1 .. Len(wr) : PieceOK(wr, i)
    /\ \A w \in ws : Halfway(wr, w.frame.id, w.left)
    /\ c \notin sh /\ ws = {} => Len(wr) % Pieces = 0
    /\ \A i, j \in 1 .. Len(qs) : qs[i].id = qs[j].id => i = j
    /\ \A i \in 1 .. Len(qs) : /\ \A w \in ws : qs[i].id # w.frame.id
                               /\ \A k \in 1 .. Len(wr) : qs[i].id # wr[k]

ChannelOK(s, sh, c, qs, ws, wr) ==
    /\ ChannelTypeOK(qs, ws, wr) /\ FramesOK(s, sh, c, qs, ws)
    /\ IdsOK(s, Used(qs, ws, wr)) /\ StreamOK(sh, c, qs, ws, wr)

\* All connections.
Connected ==
    /\ DOMAIN queue = Connections /\ DOMAIN writing = Connections /\ DOMAIN wire = Connections
    /\ \A c \in Connections : ChannelOK(b, shut, c, queue[c], writing[c], wire[c])

\* What a check has found and the lock keeps true until the write: the client,
\* the attachments, and the grant of metadata up to the end of its time.
Passed(s, t, c, f) ==
    /\ c \in s.principals /\ f.targets \subseteq Current(s)
    /\ \A d \in f.disclosure :
          \/ \E g \in s.grants : /\ g.connection = c /\ g.epoch = d.epoch
                                /\ g.slot # Ordinary /\ g.expires = f.expires
          \/ t >= f.expires

CheckedOK ==
    \A c \in checked : /\ c \in Connections /\ writing[c] # {}
                       /\ \A w \in writing[c] : Passed(b, now, c, w.frame)

PairedOK == paired \in [Connections -> SUBSET [targets : SUBSET Refs, expires : Nat]]

\* The inductive invariant of the broker and its connections.
DeliveryInv ==
    /\ RunsInv /\ failed \subseteq b.undelivered
    /\ PairedOK /\ Connected /\ CheckedOK

-----------------------------------------------------------------------------
(* Frames and pieces. *)

\* Counting on within a frame, and from its last piece.
LEMMA Remainders ==
    ASSUME NEW a \in Nat, NEW r \in Nat, a % Pieces = r
    PROVE  /\ r < Pieces /\ r <= a
           /\ r + 1 < Pieces => (a + 1) % Pieces = r + 1
           /\ r + 1 = Pieces => (a + 1) % Pieces = 0
<1> DEFINE P == Pieces
           k == a \div P
<1>0. P \in Nat \ {0}
  BY DeliveryAssumption
<1> HIDE DEF P
<1>1. k \in Nat /\ a = P * k + r /\ r < P
  BY <1>0 DEF P
<1> HIDE DEF k
<1>2. ASSUME NEW i \in Nat, NEW j \in 0 .. P - 1 PROVE (i * P + j) % P = j
  BY <1>0
<1>3. P * k \in Nat /\ P * k = k * P
  BY <1>0, <1>1
<1>4. ASSUME r + 1 < P PROVE (a + 1) % P = r + 1
  <2>1. r + 1 \in 0 .. P - 1
    BY <1>0, <1>4
  <2>2. a + 1 = k * P + (r + 1)
    BY <1>1, <1>3
  <2> QED
    BY <1>1, <1>2, <2>1, <2>2
<1>5. ASSUME r + 1 = P PROVE (a + 1) % P = 0
  <2>1. 0 \in 0 .. P - 1
    BY <1>0
  <2>2. a + 1 = k * P + P
    BY <1>1, <1>3, <1>5
  <2>3. k * P + P = (k + 1) * P + 0
    BY <1>0, <1>1
  <2>4. k + 1 \in Nat
    BY <1>1
  <2> QED
    BY <1>2, <2>1, <2>2, <2>3, <2>4
<1>6. r <= a
  BY <1>1, <1>3
<1> QED
  BY <1>1, <1>4, <1>5, <1>6 DEF P

\* One more piece of the frame that is being sent.
LEMMA PieceIsFramed ==
    ASSUME NEW ws \in Seq(Nat), NEW id \in Nat, NEW left \in 1 .. Pieces, Halfway(ws, id, left),
           \A i \in 1 .. Len(ws) : PieceOK(ws, i),
           NEW n, n = Append(ws, id)
    PROVE  /\ \A i \in 1 .. Len(n) : PieceOK(n, i)
           /\ left > 1 => Halfway(n, id, left - 1)
           /\ left = 1 => Len(n) % Pieces = 0
<1> DEFINE len == Len(ws)
           done == Pieces - left
<1>0. Pieces \in Nat \ {0} /\ left \in Nat
  BY DeliveryAssumption
<1>1. len \in Nat /\ done \in Nat /\ done < Pieces /\ left = Pieces - done
  BY <1>0
<1>2. n \in Seq(Nat) /\ Len(n) = len + 1 /\ n[len + 1] = id /\ \A i \in 1 .. len : n[i] = ws[i]
  OBVIOUS
<1>3. /\ len % Pieces = done /\ (\A j \in 1 .. len : j > len - done => ws[j] = id)
      /\ len - done >= 1 => ws[len - done] # id
  BY DEF Halfway
<1> HIDE DEF len, done
<1>4. /\ done <= len /\ (done + 1 < Pieces => (len + 1) % Pieces = done + 1)
      /\ (done + 1 = Pieces => (len + 1) % Pieces = 0)
  BY <1>1, <1>3, Remainders
<1>5. ASSUME NEW i \in 1 .. len PROVE PieceOK(n, i)
  <2> DEFINE start == i - ((i - 1) % Pieces)
  <2>1. start \in 1 .. i
    <3> DEFINE r == (i - 1) % Pieces
    <3>1. r \in Nat /\ i - 1 \in Nat
      BY <1>0, <1>1
    <3>2. r <= i - 1
      BY <3>1, Remainders
    <3> HIDE DEF r
    <3> QED
      BY <3>1, <3>2 DEF r
  <2>2. (\A j \in start .. i : ws[j] = ws[i]) /\ (start > 1 => ws[start - 1] # ws[i])
    BY DEF PieceOK, len
  <2> HIDE DEF start
  <2>3. (\A j \in start .. i : n[j] = n[i]) /\ (start > 1 => n[start - 1] # n[i])
    BY <1>1, <1>2, <2>1, <2>2, SMTT(30)
  <2> QED
    BY <2>3 DEF PieceOK, start
<1>6. PieceOK(n, len + 1)
  <2> DEFINE start == (len + 1) - done
  <2>1. start \in Nat /\ start >= 1 /\ start <= len + 1 /\ (len + 1) - 1 = len
    BY <1>1, <1>4
  <2>2. ASSUME NEW j \in start .. len + 1 PROVE n[j] = id
    <3>1. CASE j = len + 1
      BY <1>2, <3>1
    <3>2. CASE j # len + 1
      <4>1. j \in 1 .. len /\ j > len - done
        BY <1>1, <2>1, <3>2
      <4> QED
        BY <1>2, <1>3, <4>1
    <3> QED
      BY <3>1, <3>2
  <2>3. ASSUME start > 1 PROVE n[start - 1] # id
    <3>1. start - 1 = len - done /\ start - 1 \in 1 .. len
      BY <1>1, <2>1, <2>3
    <3> QED
      BY <1>1, <1>2, <1>3, <3>1
  <2>4. (len + 1) - (((len + 1) - 1) % Pieces) = start
    BY <1>3, <2>1
  <2> HIDE DEF start
  <2> QED
    BY <1>2, <2>2, <2>3, <2>4 DEF PieceOK
<1>7. ASSUME NEW i \in 1 .. Len(n) PROVE PieceOK(n, i)
  BY <1>1, <1>2, <1>5, <1>6
<1>8. ASSUME left > 1 PROVE Halfway(n, id, left - 1)
  <2>1. done + 1 < Pieces /\ Pieces - (left - 1) = done + 1 /\ Len(n) - (done + 1) = len - done
    BY <1>0, <1>1, <1>2, <1>8
  <2>2. Len(n) % Pieces = done + 1
    BY <1>2, <1>4, <2>1
  <2>3. ASSUME NEW j \in 1 .. Len(n), j > len - done PROVE n[j] = id
    <3>1. CASE j = len + 1
      BY <1>2, <3>1
    <3>2. CASE j # len + 1
      BY <1>1, <1>2, <1>3, <2>3, <3>2
    <3> QED
      BY <3>1, <3>2
  <2>4. ASSUME len - done >= 1 PROVE n[len - done] # id
    <3>1. len - done \in 1 .. len
      BY <1>1, <2>4
    <3> QED
      BY <1>2, <1>3, <2>4, <3>1
  <2> QED
    BY <2>1, <2>2, <2>3, <2>4 DEF Halfway
<1>9. ASSUME left = 1 PROVE Len(n) % Pieces = 0
  BY <1>0, <1>1, <1>2, <1>4, <1>9
<1> QED
  BY <1>7, <1>8, <1>9

-----------------------------------------------------------------------------
(* What a connection keeps. *)

\* n is a later broker than s, and a client that has left has a closed channel.
Passes(n, s, sh2, sh1) ==
    /\ Sound(s) /\ Goes(n, s)
    /\ sh1 \subseteq sh2 /\ s.principals \cup sh1 \subseteq n.principals \cup sh2

\* A connection the broker's step does not touch stays as it was.
LEMMA ChannelStays ==
    ASSUME NEW s, NEW n, NEW sh1, NEW sh2, Passes(n, s, sh2, sh1),
           NEW c, NEW qs, NEW ws, NEW wr, ChannelOK(s, sh1, c, qs, ws, wr)
    PROVE  ChannelOK(n, sh2, c, qs, ws, wr)
<1>1. /\ Later(n, s) /\ s.minted.grant \in Nat /\ n.minted.grant \in Nat
      /\ s.minted.request \in Nat /\ n.minted.request \in Nat
  BY DEF Passes, Sound, Goes, Onward, Good, Shape, MintKinds
<1>2. ASSUME NEW g \in n.grants PROVE g.epoch \in Nat
  BY DEF Passes, Goes, Onward, RunsOK, EpochsOK
<1>3. ASSUME NEW q \in n.requests PROVE q.id \in Nat
  BY DEF Passes, Goes, Onward, RunsOK, RequestsOK, RequestOK
<1>4. ChannelTypeOK(qs, ws, wr) /\ FramesOK(s, sh1, c, qs, ws) /\ IdsOK(s, Used(qs, ws, wr))
  BY DEF ChannelOK
<1>5. FramesOK(n, sh2, c, qs, ws)
  <2> SUFFICES ASSUME NEW f \in Held(qs, ws) PROVE FrameOK(n, sh2, c, f)
    BY DEF FramesOK
  <2>1. FrameOK(s, sh1, c, f)
    BY <1>4 DEF FramesOK
  <2>2. c \in n.principals \cup sh2
    BY <2>1 DEF FrameOK, Passes
  <2>3. ASSUME NEW d \in f.disclosure PROVE Bound(n, c, f, d)
    <3>1. Bound(s, c, f, d)
      BY <2>1 DEF FrameOK
    <3>2. d.epoch \in Nat
      <4>1. f \in Frames
        BY <1>4 DEF Held, ChannelTypeOK
      <4> QED
        BY <4>1 DEF Frames
    <3>3. d.epoch <= n.minted.grant
      BY <1>1, <3>1, <3>2 DEF Bound, Later
    <3>4. ASSUME NEW g \in n.grants, g.epoch = d.epoch
          PROVE  g.connection = c /\ g.slot # Ordinary /\ g.expires = f.expires
      <4>1. ~(g.epoch > s.minted.grant)
        BY <1>1, <1>2, <3>1, <3>2, <3>4 DEF Bound
      <4>2. PICK h \in s.grants : /\ g.connection = h.connection /\ g.epoch = h.epoch
                                  /\ g.expires = h.expires /\ g.slot = h.slot
        BY <1>1, <4>1 DEF Later
      <4> QED
        BY <3>1, <3>4, <4>2 DEF Bound
    <3> QED
      BY <3>3, <3>4 DEF Bound
  <2> QED
    BY <2>2, <2>3 DEF FrameOK
<1>6. IdsOK(n, Used(qs, ws, wr))
  <2>1. \A i \in Used(qs, ws, wr) : i \in Nat
    <3>0. Held(qs, ws) \subseteq Frames
      BY <1>4 DEF ChannelTypeOK, Held
    <3>1. \A f \in Held(qs, ws) : f.id \in Nat
      BY <3>0 DEF Frames
    <3>2. \A i \in 1 .. Len(wr) : wr[i] \in Nat
      BY <1>4 DEF ChannelTypeOK
    <3> QED
      BY <3>1, <3>2 DEF Used
  <2> DEFINE used == Used(qs, ws, wr)
  <2> HIDE DEF used
  <2>2. \A i \in used : i \in Nat /\ i <= s.minted.request
    BY <1>4, <2>1 DEF IdsOK, used
  <2>3. \A i \in used : i <= n.minted.request
    BY <1>1, <2>2 DEF Later
  <2>4. ASSUME NEW q \in n.requests, ~q.committed PROVE q.id \notin used
    <3>1. CASE q.id > s.minted.request
      BY <1>1, <1>3, <2>2, <3>1
    <3>2. ASSUME NEW u \in s.requests, u.id = q.id, u.committed => q.committed PROVE q.id \notin used
      <4>1. ~u.committed
        BY <2>4, <3>2, Zenon
      <4> QED
        BY <1>4, <3>2, <4>1, Zenon DEF IdsOK, used
    <3>3. q.id > s.minted.request \/ \E u \in s.requests : u.id = q.id /\ (u.committed => q.committed)
      BY <1>1, Zenon DEF Later
    <3> QED
      BY <3>1, <3>2, <3>3, Zenon
  <2> QED
    BY <2>3, <2>4, Zenon DEF IdsOK, used
<1>7. StreamOK(sh2, c, qs, ws, wr)
  <2>1. StreamOK(sh1, c, qs, ws, wr) /\ (c \notin sh2 => c \notin sh1)
    BY DEF ChannelOK, Passes
  <2> QED
    BY <2>1, Zenon DEF StreamOK
<1> QED
  BY <1>4, <1>5, <1>6, <1>7 DEF ChannelOK

\* A frame of a fresh id that is bound to the client can be queued.
LEMMA FrameIsQueued ==
    ASSUME NEW s, NEW sh, NEW c, NEW qs, NEW ws, NEW wr, ChannelOK(s, sh, c, qs, ws, wr),
           NEW f \in Frames, FrameOK(s, sh, c, f), f.id <= s.minted.request,
           f.id \notin Used(qs, ws, wr), \A q \in s.requests : q.id = f.id => q.committed
    PROVE  ChannelOK(s, sh, c, Append(qs, f), ws, wr)
<1> DEFINE n == Append(qs, f)
<1>1. /\ ChannelTypeOK(qs, ws, wr) /\ FramesOK(s, sh, c, qs, ws) /\ IdsOK(s, Used(qs, ws, wr))
      /\ StreamOK(sh, c, qs, ws, wr)
  BY DEF ChannelOK
<1>2. qs \in Seq(Frames) /\ Len(qs) \in Nat
  BY <1>1 DEF ChannelTypeOK
<1>3. /\ n \in Seq(Frames) /\ Len(n) = Len(qs) + 1 /\ n[Len(qs) + 1] = f
      /\ \A i \in 1 .. Len(qs) : n[i] = qs[i]
  BY <1>2
<1>4. \A i \in 1 .. Len(n) : i \in 1 .. Len(qs) \/ i = Len(qs) + 1
  BY <1>2, <1>3
<1> HIDE DEF n
<1>5. Held(n, ws) \subseteq Held(qs, ws) \cup {f}
  BY <1>3, <1>4 DEF Held
<1>6. Used(n, ws, wr) \subseteq Used(qs, ws, wr) \cup {f.id}
  BY <1>5 DEF Used
<1>7. ChannelTypeOK(n, ws, wr)
  BY <1>1, <1>3 DEF ChannelTypeOK
<1>8. FramesOK(s, sh, c, n, ws)
  BY <1>1, <1>5 DEF FramesOK
<1>9. IdsOK(s, Used(n, ws, wr))
  <2> DEFINE old == Used(qs, ws, wr)
             used == Used(n, ws, wr)
  <2>0. used \subseteq old \cup {f.id} /\ IdsOK(s, old)
    BY <1>1, <1>6
  <2> HIDE DEF old, used
  <2>1. \A i \in used : i <= s.minted.request
    BY <2>0 DEF IdsOK
  <2>2. ASSUME NEW q \in s.requests, ~q.committed PROVE q.id \notin used
    <3>1. q.id \notin old /\ q.id # f.id
      BY <2>0, <2>2, Zenon DEF IdsOK
    <3> QED
      BY <2>0, <3>1
  <2>3. IdsOK(s, used)
    BY <2>1, <2>2, Zenon DEF IdsOK
  <2> QED
    BY <2>3 DEF used
<1>10. StreamOK(sh, c, n, ws, wr)
  <2>1. /\ \A i \in 1 .. Len(qs) : qs[i].id # f.id
        /\ \A w \in ws : f.id # w.frame.id
        /\ \A k \in 1 .. Len(wr) : f.id # wr[k]
    BY DEF Used, Held
  <2>2. \A i, j \in 1 .. Len(n) : n[i].id = n[j].id => i = j
    <3>1. \A i, j \in 1 .. Len(qs) : qs[i].id = qs[j].id => i = j
      BY <1>1 DEF StreamOK
    <3> QED
      BY <1>3, <1>4, <2>1, <3>1
  <2>3. \A i \in 1 .. Len(n) : /\ \A w \in ws : n[i].id # w.frame.id
                               /\ \A k \in 1 .. Len(wr) : n[i].id # wr[k]
    <3>1. \A i \in 1 .. Len(qs) : /\ \A w \in ws : qs[i].id # w.frame.id
                                  /\ \A k \in 1 .. Len(wr) : qs[i].id # wr[k]
      BY <1>1 DEF StreamOK
    <3> QED
      BY <1>3, <1>4, <2>1, <3>1
  <2> QED
    BY <1>1, <2>2, <2>3, Zenon DEF StreamOK
<1>11. ChannelOK(s, sh, c, n, ws, wr)
  BY <1>7, <1>8, <1>9, <1>10 DEF ChannelOK
<1> QED
  BY <1>11 DEF n

\* Fewer ids are in use.
LEMMA FewerIds ==
    ASSUME NEW s, NEW old, NEW new, IdsOK(s, old), new \subseteq old PROVE IdsOK(s, new)
<1>1. \A i \in new : i <= s.minted.request
  BY DEF IdsOK
<1>2. \A q \in s.requests : ~q.committed => q.id \notin new
  BY Zenon DEF IdsOK
<1> QED
  BY <1>1, <1>2, Zenon DEF IdsOK

\* The writer thread takes the first frame of the queue.
LEMMA FrameIsTaken ==
    ASSUME NEW s, NEW sh, NEW c, NEW qs, NEW wr, ChannelOK(s, sh, c, qs, {}, wr),
           c \notin sh, qs # <<>>
    PROVE  ChannelOK(s, sh, c, Tail(qs), {[frame |-> Head(qs), left |-> Pieces]}, wr)
<1> DEFINE n == Tail(qs)
           f == Head(qs)
           u == [frame |-> f, left |-> Pieces]
<1>1. /\ ChannelTypeOK(qs, {}, wr) /\ FramesOK(s, sh, c, qs, {}) /\ IdsOK(s, Used(qs, {}, wr))
      /\ StreamOK(sh, c, qs, {}, wr)
  BY DEF ChannelOK
<1>2. qs \in Seq(Frames) /\ Len(qs) \in Nat /\ Len(qs) >= 1
  BY <1>1 DEF ChannelTypeOK
<1>3. /\ n \in Seq(Frames) /\ Len(n) = Len(qs) - 1 /\ f = qs[1] /\ f \in Frames
      /\ \A i \in 1 .. Len(n) : i + 1 \in 1 .. Len(qs) /\ n[i] = qs[i + 1]
  BY <1>2
<1>4. u.frame = f /\ u.left = Pieces /\ DOMAIN u = {"frame", "left"} /\ 1 \in 1 .. Len(qs)
  BY <1>2
<1>5. Pieces \in Nat \ {0}
  BY DeliveryAssumption
<1> HIDE DEF n, f, u
<1>6. Held(n, {u}) \subseteq Held(qs, {})
  BY <1>3, <1>4 DEF Held
<1>7. Used(n, {u}, wr) \subseteq Used(qs, {}, wr)
  BY <1>6 DEF Used
<1>8. ChannelTypeOK(n, {u}, wr)
  BY <1>1, <1>3, <1>4, <1>5 DEF ChannelTypeOK
<1>9. FramesOK(s, sh, c, n, {u})
  BY <1>1, <1>6 DEF FramesOK
<1>10. IdsOK(s, Used(n, {u}, wr))
  BY <1>1, <1>7, FewerIds
<1>11. StreamOK(sh, c, n, {u}, wr)
  <2>1. /\ \A i, j \in 1 .. Len(qs) : qs[i].id = qs[j].id => i = j
        /\ \A i \in 1 .. Len(qs) : \A k \in 1 .. Len(wr) : qs[i].id # wr[k]
        /\ Len(wr) % Pieces = 0
    BY <1>1 DEF StreamOK
  <2>2. Len(wr) \in Nat
    BY <1>1 DEF ChannelTypeOK
  <2>3. Halfway(wr, f.id, Pieces)
    <3>1. Pieces - Pieces = 0 /\ Len(wr) - 0 = Len(wr)
      BY <1>5, <2>2
    <3>2. \A j \in 1 .. Len(wr) : ~(j > Len(wr))
      BY <2>2
    <3>3. Len(wr) >= 1 => wr[Len(wr)] # f.id
      BY <1>3, <1>4, <2>1, <2>2
    <3> QED
      BY <2>1, <3>1, <3>2, <3>3 DEF Halfway
  <2>4. \A w \in {u} : Halfway(wr, w.frame.id, w.left)
    BY <1>4, <2>3
  <2>5. \A i, j \in 1 .. Len(n) : n[i].id = n[j].id => i = j
    BY <1>2, <1>3, <2>1, SMTT(30)
  <2>6. \A i \in 1 .. Len(n) : /\ \A w \in {u} : n[i].id # w.frame.id
                               /\ \A k \in 1 .. Len(wr) : n[i].id # wr[k]
    <3> SUFFICES ASSUME NEW i \in 1 .. Len(n)
                 PROVE  n[i].id # f.id /\ \A k \in 1 .. Len(wr) : n[i].id # wr[k]
      BY <1>4
    <3>1. i + 1 \in 1 .. Len(qs) /\ n[i] = qs[i + 1] /\ i + 1 # 1
      BY <1>2, <1>3
    <3> QED
      BY <1>3, <1>4, <2>1, <3>1
  <2>7. {u} # {}
    OBVIOUS
  <2>8. \A i \in 1 .. Len(wr) : PieceOK(wr, i)
    BY <1>1 DEF StreamOK
  <2> QED
    BY <2>4, <2>5, <2>6, <2>7, <2>8, Zenon DEF StreamOK
<1>12. ChannelOK(s, sh, c, n, {u}, wr)
  BY <1>8, <1>9, <1>10, <1>11 DEF ChannelOK
<1> QED
  BY <1>12 DEF n, f, u

\* The writer thread sends one more piece of the frame it holds.
LEMMA PieceIsWritten ==
    ASSUME NEW s, NEW sh, NEW c, NEW qs, NEW ws, NEW wr, ChannelOK(s, sh, c, qs, ws, wr), NEW w \in ws
    PROVE  ChannelOK(s, sh, c, qs, IF w.left = 1 THEN {} ELSE {[w EXCEPT !.left = w.left - 1]},
                     Append(wr, w.frame.id))
<1> DEFINE id == w.frame.id
           n == Append(wr, id)
           u == [w EXCEPT !.left = w.left - 1]
           ws2 == IF w.left = 1 THEN {} ELSE {u}
<1>1. /\ ChannelTypeOK(qs, ws, wr) /\ FramesOK(s, sh, c, qs, ws) /\ IdsOK(s, Used(qs, ws, wr))
      /\ StreamOK(sh, c, qs, ws, wr)
  BY DEF ChannelOK
<1>2. /\ wr \in Seq(Nat) /\ DOMAIN w = {"frame", "left"} /\ w.frame \in Frames /\ w.left \in 1 .. Pieces
  BY <1>1 DEF ChannelTypeOK
<1>3. id \in Nat /\ Len(wr) \in Nat
  BY <1>2 DEF Frames
<1>4. /\ DOMAIN u = {"frame", "left"} /\ u.frame = w.frame /\ u.left = w.left - 1
  BY <1>2
<1>5. /\ n \in Seq(Nat) /\ Len(n) = Len(wr) + 1 /\ n[Len(wr) + 1] = id
      /\ \A i \in 1 .. Len(wr) : n[i] = wr[i]
  BY <1>2, <1>3
<1>6. \A k \in 1 .. Len(n) : k \in 1 .. Len(wr) \/ k = Len(wr) + 1
  BY <1>3, <1>5
<1>7. /\ \A i \in 1 .. Len(n) : PieceOK(n, i)
      /\ w.left > 1 => Halfway(n, id, w.left - 1)
      /\ w.left = 1 => Len(n) % Pieces = 0
  <2>1. Halfway(wr, id, w.left) /\ \A i \in 1 .. Len(wr) : PieceOK(wr, i)
    BY <1>1 DEF StreamOK
  <2> HIDE DEF id
  <2> QED
    BY <1>2, <1>3, <2>1, PieceIsFramed
<1>8. /\ w.left = 1 => ws2 = {}
      /\ w.left # 1 => ws2 = {u}
  OBVIOUS
<1>9. w.left # 1 => w.left > 1 /\ u.left \in 1 .. Pieces
  BY <1>2, <1>4, DeliveryAssumption
<1> HIDE DEF n, u, ws2
<1>10. Held(qs, ws2) \subseteq Held(qs, ws) /\ id \in {f.id : f \in Held(qs, ws)}
  BY <1>4, <1>8 DEF Held
<1>11. Used(qs, ws2, n) \subseteq Used(qs, ws, wr)
  <2>1. \A k \in 1 .. Len(n) : n[k] \in Used(qs, ws, wr)
    BY <1>5, <1>6, <1>10 DEF Used
  <2> QED
    BY <1>10, <2>1 DEF Used
<1>12. ChannelTypeOK(qs, ws2, n)
  BY <1>1, <1>2, <1>4, <1>5, <1>8, <1>9 DEF ChannelTypeOK
<1>13. FramesOK(s, sh, c, qs, ws2)
  BY <1>1, <1>10 DEF FramesOK
<1>14. IdsOK(s, Used(qs, ws2, n))
  BY <1>1, <1>11, FewerIds
<1>15. StreamOK(sh, c, qs, ws2, n)
  <2>1. \A x \in ws2 : Halfway(n, x.frame.id, x.left)
    BY <1>4, <1>7, <1>8, <1>9
  <2>2. ws2 = {} => Len(n) % Pieces = 0
    BY <1>7, <1>8
  <2>3. \A i, j \in 1 .. Len(qs) : qs[i].id = qs[j].id => i = j
    BY <1>1 DEF StreamOK
  <2>4. \A i \in 1 .. Len(qs) : /\ \A x \in ws2 : qs[i].id # x.frame.id
                                /\ \A k \in 1 .. Len(n) : qs[i].id # n[k]
    <3>1. \A i \in 1 .. Len(qs) : qs[i].id # id /\ \A k \in 1 .. Len(wr) : qs[i].id # wr[k]
      BY <1>1 DEF StreamOK
    <3>2. \A x \in ws2 : x.frame.id = id
      BY <1>4, <1>8
    <3> HIDE DEF id
    <3> QED
      BY <1>5, <1>6, <3>1, <3>2
  <2> QED
    BY <1>7, <2>1, <2>2, <2>3, <2>4, Zenon DEF StreamOK
<1>16. ChannelOK(s, sh, c, qs, ws2, n)
  BY <1>12, <1>13, <1>14, <1>15 DEF ChannelOK
<1> QED
  BY <1>16 DEF n, u, ws2

\* A frame is dropped and its connection closed.
LEMMA FrameIsDropped ==
    ASSUME NEW s, NEW sh, NEW c, NEW qs, NEW ws, NEW wr, ChannelOK(s, sh, c, qs, ws, wr), c \in sh
    PROVE  ChannelOK(s, sh, c, qs, {}, wr)
<1>1. /\ ChannelTypeOK(qs, ws, wr) /\ FramesOK(s, sh, c, qs, ws) /\ IdsOK(s, Used(qs, ws, wr))
      /\ StreamOK(sh, c, qs, ws, wr)
  BY DEF ChannelOK
<1>2. Held(qs, {}) \subseteq Held(qs, ws)
  BY DEF Held
<1>3. Used(qs, {}, wr) \subseteq Used(qs, ws, wr)
  BY <1>2 DEF Used
<1>4. ChannelTypeOK(qs, {}, wr) /\ FramesOK(s, sh, c, qs, {})
  BY <1>1, <1>2 DEF ChannelTypeOK, FramesOK
<1>5. IdsOK(s, Used(qs, {}, wr))
  BY <1>1, <1>3, FewerIds
<1>6. StreamOK(sh, c, qs, {}, wr)
  BY <1>1, Zenon DEF StreamOK
<1> QED
  BY <1>4, <1>5, <1>6 DEF ChannelOK

\* A client that has left is not connected; all others are as they were.
LEMMA DisconnectLeaves ==
    ASSUME NEW s, Good(s), NEW c \in Connections PROVE Disconnected(s, c).principals = s.principals \ {c}
<1> DEFINE cut == Revoke(s, c)
           n == Disconnected(s, c)
<1>1. DOMAIN cut = Fields /\ cut.principals = s.principals
  BY ClientEffect DEF Good, Shape
<1> HIDE DEF cut
<1>2. n = [cut EXCEPT !.principals = @ \ {c},
                      !.retired = @ \cup {c},
                      !.registrations = {r \in @ : r.connection # c},
                      !.runs = [r \in {x \in DOMAIN @ : @[x].connection # c} |-> @[r]],
                      !.starts = {x \in @ : x.connection # c}]
  BY DEF Disconnected, cut
<1> HIDE DEF n
<1>3. n.principals = cut.principals \ {c}
  BY <1>1, <1>2 DEF Fields
<1> QED
  BY <1>1, <1>3 DEF n

-----------------------------------------------------------------------------
(* The broker's part of the steps. *)

\* The client of a request is connected.
LEMMA RequestHasClient ==
    ASSUME RunsInv, NEW q \in b.requests
    PROVE  /\ RequestOK(b, q) /\ b.runs[q.run].connection \in b.principals
           /\ b.runs[q.run].connection \in Connections
           /\ \E g \in b.grants : Covers(g, b.runs[q.run])
<1>1. RequestOK(b, q)
  BY DEF RunsInv, RunsOK, RequestsOK
<1>2. PICK g \in b.grants : Covers(g, b.runs[q.run])
  BY <1>1 DEF RunsInv, RunsOK, CoveredOK, RequestOK
<1>3. g.connection \in b.principals /\ b.principals \subseteq Connections
  BY DEF RunsInv, BrokerInv, Good, LiveOK, Shape
<1> QED
  BY <1>1, <1>2, <1>3 DEF Covers

\* A method of the broker; the channel of a client that leaves is closed with it.
LEMMA BrokerStepPasses ==
    ASSUME RunsInv, BrokerStep PROVE RunsInv' /\ Passes(b', b, shut', shut)
<1>1. RunsInv' /\ Later(b', b)
  BY RunsStep DEF BrokerStep, GrantStep, RunStep
<1>2. shut' = shut \cup (b.principals \ b'.principals)
  BY DEF BrokerStep
<1>3. Sound(b) /\ Goes(b', b)
  BY <1>1 DEF RunsInv, BrokerInv, Sound, Goes, Onward
<1> QED
  BY <1>1, <1>2, <1>3 DEF Passes

\* The application's poll disconnects a client it no longer serves.
LEMMA RemovePeerPasses ==
    ASSUME RunsInv, NEW c \in Connections, RemovePeer(c)
    PROVE  RunsInv' /\ Passes(b', b, shut', shut)
<1>1. Disconnect(c)
  BY DEF RemovePeer, Disconnect, Keep
<1>2. BrokerInv'
  BY <1>1, DisconnectStep DEF RunsInv
<1>3. Sound(b) /\ b' = Disconnected(b, c) /\ shut' = shut \cup {c}
  BY DEF RunsInv, BrokerInv, Sound, RemovePeer
<1>4. Goes(b', b)
  BY <1>3, DisconnectGoes
<1>5. b'.principals = b.principals \ {c}
  BY <1>3, DisconnectLeaves DEF Sound
<1> QED
  BY <1>2, <1>3, <1>4, <1>5 DEF Passes, RunsInv, Goes, Onward

\* The host's approval of a pairing is a decision of the broker; every client stays.
LEMMA PairPasses ==
    ASSUME RunsInv, NEW p \in b.pending, NEW t \in GrantRequests, NEW l \in Lifetimes, Pair(p, t, l)
    PROVE  RunsInv' /\ Passes(b', b, shut', shut)
<1>1. Approve(p, t, {}, l) /\ t.controls = {} /\ shut' = shut
  BY DEF Pair
<1>2. GrantStep
  BY <1>1 DEF GrantStep, GuardedGrantStep, Handoffs
<1>3. RunsInv' /\ Later(b', b)
  BY <1>2, RunsStep
<1>4. Sound(b) /\ Goes(b', b)
  BY <1>3 DEF RunsInv, BrokerInv, Sound, Goes, Onward
<1>5. b'.principals = b.principals
  <2> DEFINE s == PollExpiry(b)
             c == p.connection
             scope == Resolve(s, t)
             f == Cleared(s, c, Ordinary)
  <2>1. PICK new, x : Decides(s, c, Ordinary, scope, {}, l, new, x)
    BY <1>1, ApproveDecides DEF RunsInv
  <2>2. Good(s) /\ s.principals = b.principals
    BY PollEffect DEF RunsInv, BrokerInv, Polled
  <2> HIDE DEF s, c, scope, f
  <2>3. /\ c \in s.principals /\ Ordinary \in Slots /\ DOMAIN x = Fields
        /\ new = Install(s, c, Ordinary, scope, {}, l)
        /\ \A i \in Fields \ {"registrations", "consent"} : x[i] = new[i]
        /\ b' = DiscardStaleProposals(x, {c})
    BY <2>1 DEF Decides
  <2>4. PICK g : Installed(new, f, c, Ordinary, scope, {}, g)
    BY <2>2, <2>3, InstallEffect DEF f
  <2>5. f.principals = s.principals
    BY <2>2, <2>3, ClearedEffect DEF f
  <2>6. new.principals = f.principals /\ x.principals = new.principals
    BY <2>3, <2>4 DEF Installed, Fields
  <2>7. b'.principals = x.principals
    BY <2>3 DEF DiscardStaleProposals, Fields
  <2> QED
    BY <2>2, <2>5, <2>6, <2>7
<1> QED
  BY <1>1, <1>3, <1>4, <1>5 DEF Passes

\* An answer marks its request as answered.
LEMMA AnswerPasses ==
    ASSUME RunsInv, NEW q \in b.requests, NEW f, Answer(q, f)
    PROVE  /\ RunsInv' /\ Passes(b', b, shut', shut)
           /\ \A v \in b'.requests : v.id = q.id => v.committed
<1> DEFINE u == [q EXCEPT !.committed = TRUE]
<1>1. /\ DOMAIN b = Fields /\ b.minted \in [MintKinds -> Nat] /\ b.global \in 0 .. GlobalBudget
      /\ Sound(b)
  BY DEF RunsInv, BrokerInv, Sound, Good, Shape, RunsOK, TreeOK
<1>2. RequestOK(b, q) /\ NextRequests(b, b) /\ SameRuns(b, b)
  BY <1>1, OldRequests, OldRuns DEF Sound, RunsOK, RequestsOK, MintKinds
<1>3. b' = [b EXCEPT !.requests = (b.requests \ {q}) \cup {u}]
  BY DEF Answer
<1>4. /\ DOMAIN u = RequestFields /\ u.id = q.id /\ u.run = q.run /\ u.operation = q.operation
  BY <1>2 DEF RequestOK, RequestFields
<1>5. u.committed = TRUE
  BY <1>2 DEF RequestOK, RequestFields
<1>6. Keep /\ shut \subseteq shut'
  BY DEF Answer, SendFrame, Keep
<1> HIDE DEF u
<1>7. /\ DOMAIN b' = Fields /\ \A i \in Fields \ {"requests"} : b'[i] = b[i]
  BY <1>1, <1>3 DEF Fields
<1>8. /\ b'.runs = b.runs
      /\ b'.requests = (b.requests \ {q}) \cup {u}
      /\ b'.detached = b.detached /\ b'.undelivered = b.undelivered /\ b'.retired = b.retired
      /\ b'.principals = b.principals /\ b'.targets = b.targets /\ b'.minted = b.minted
      /\ b'.starts = b.starts /\ b'.global = b.global /\ b'.grants = b.grants
      /\ b'.usage = b.usage
  BY <1>1, <1>3 DEF Fields
<1>9. OnlyWork(b', b)
  BY <1>7 DEF OnlyWork
<1>10. BrokerInv'
  BY <1>6, <1>9, OnlyWorkMoves DEF RunsInv
<1>11. NextLeases(b', b) /\ SameGrants(b', b) /\ NextStarts(b', b)
  BY <1>1, <1>8, OldLeases, OldGrants, OldStarts
<1>12. SameRuns(b', b)
  BY <1>2, <1>8 DEF SameRuns, SameRun
<1>13. \E v \in b.requests : v.id = u.id /\ (v.committed => u.committed)
  BY <1>4, <1>5, Zenon
<1>14. NextRequest(b', b, u)
  BY <1>2, <1>4, <1>8, <1>13 DEF NextRequest, RequestOK
<1>15. ASSUME NEW v \in b.requests PROVE NextRequest(b', b, v)
  BY <1>2, <1>8 DEF NextRequests, NextRequest
<1>16. NextRequests(b', b)
  BY <1>2, <1>4, <1>8, <1>14, <1>15 DEF NextRequests
<1>18. Good(b')
  BY <1>10 DEF BrokerInv
<1>22. BudgetsOK(b')
  BY <1>1, <1>8, <1>12, <1>18, OldAccounts
<1>17. Busy(b', b)
  BY <1>1, <1>8, <1>11, <1>12, <1>16, <1>22 DEF Busy, MintKinds
<1>19. Goes(b', b)
  BY <1>1, <1>17, <1>18, BusyGoes
<1>20. RunsInv' /\ Passes(b', b, shut', shut)
  BY <1>1, <1>6, <1>8, <1>10, <1>19 DEF Passes, RunsInv, Goes, Onward
<1>21. ASSUME NEW v \in b'.requests, v.id = q.id PROVE v.committed
  <2>1. v = u
    <3>1. \A x, y \in b'.requests : x.id = y.id => x = y
      BY <1>19 DEF Goes, Onward, RunsOK, RequestsOK
    <3> QED
      BY <1>4, <1>8, <1>21, <3>1
  <2> QED
    BY <1>5, <2>1, Zenon
<1> QED
  BY <1>20, <1>21

\* An answered run is settled, completed and forgotten, or its client loses the
\* connection.
LEMMA RetryCompletionPasses ==
    ASSUME RunsInv, NEW q \in b.requests, RetryCompletion(q)
    PROVE  RunsInv' /\ Passes(b', b, shut', shut)
<1> DEFINE c == b.runs[q.run].connection
           first == [b EXCEPT !.requests = @ \ {q}]
           settled == PollExpiry(first)
           done == IF CheckRun(settled, c, q.run) THEN Completed(settled, q.run, FALSE) ELSE settled
           kept == \/ done.runs[q.run].state = "Running"
                   \/ \E r \in DOMAIN done.runs : q.run \in done.runs[r].parent
                   \/ \E x \in done.starts : x.run = q.run
<1>1. /\ b' = IF kept THEN Disconnected(done, c)
              ELSE [done EXCEPT !.runs = [r \in DOMAIN @ \ {q.run} |-> @[r]]]
      /\ shut' = IF kept THEN shut \cup {c} ELSE shut
      /\ Keep
  BY DEF RetryCompletion, Keep
<1>2. Sound(b) /\ BrokerInv /\ c \in Connections
  BY RequestHasClient DEF RunsInv, BrokerInv, Sound
<1> HIDE DEF c
<1>3. Goes(first, b) /\ Safe(first, b) /\ first.principals = b.principals
  <2>1. Goes(first, b)
    BY <1>2, FewerRequestsGo
  <2>2. OnlyWork(first, b) /\ first.principals = b.principals
    BY <1>2 DEF OnlyWork, Sound, Good, Shape, Fields
  <2> QED
    BY <1>2, <2>1, <2>2, OnlyWorkIsSafe DEF Sound
<1>4. Sound(first)
  BY <1>2, <1>3, GoesIsSound
<1> HIDE DEF first
<1>5. Goes(settled, first) /\ Safe(settled, first) /\ settled.principals = first.principals
  BY <1>4, PollGoes, PollIsSafe, PollEffect DEF Sound, Polled
<1>6. Goes(settled, b) /\ Sound(settled)
  BY <1>2, <1>3, <1>5, GoesChain
<1>7. Safe(settled, b) /\ settled.principals = b.principals
  BY <1>2, <1>3, <1>5, SafeChain DEF Sound
<1> HIDE DEF settled
<1>8. Goes(done, b) /\ Safe(done, b) /\ done.principals = b.principals
  <2> DEFINE m == Completed(settled, q.run, FALSE)
  <2>1. PICK state : m = Cut(settled, {q.run}, state)
    BY DEF Completed
  <2>2. Goes(m, settled)
    BY <1>6, CompletedGoes
  <2> HIDE DEF m
  <2>3. Safe(m, settled) /\ m.principals = settled.principals
    <3>1. Good(settled) /\ Shape(settled) /\ TargetsOK(settled)
      BY <1>6 DEF Sound, Good
    <3>2. Safe(Cut(settled, {q.run}, state), settled)
      BY <3>1, CutIsSafe
    <3>3. SameAuthority(Cut(settled, {q.run}, state), settled)
      BY <3>1, CutEffect
    <3> QED
      BY <2>1, <3>2, <3>3 DEF SameAuthority
  <2>4. Goes(m, b) /\ Safe(m, b) /\ m.principals = b.principals
    BY <1>2, <1>6, <1>7, <2>2, <2>3, GoesChain, SafeChain DEF Sound
  <2>5. done = m \/ done = settled
    BY DEF m
  <2> HIDE DEF done
  <2> QED
    BY <1>6, <1>7, <2>4, <2>5
<1>9. Sound(done)
  BY <1>2, <1>8, GoesIsSound
<1>10. ~kept => Forgettable(done, q.run)
  BY DEF Forgettable
<1> HIDE DEF done, kept
<1>11. CASE kept
  <2> DEFINE n == Disconnected(done, c)
  <2>1. b' = n /\ shut' = shut \cup {c}
    BY <1>1, <1>11
  <2>2. Goes(n, done) /\ n.principals = done.principals \ {c}
    BY <1>2, <1>9, DisconnectGoes, DisconnectLeaves DEF Sound
  <2>3. Good(n) /\ Follows(n, done)
    BY <1>2, <1>9, DisconnectEffect, WeakerFollows DEF Sound
  <2> HIDE DEF n
  <2>4. Goes(n, b) /\ Follows(n, b)
    BY <1>2, <1>8, <2>2, <2>3, GoesChain, FollowsChain DEF Sound, Safe
  <2>5. BrokerInv'
    BY <1>1, <1>2, <2>1, <2>3, <2>4, Moves DEF Keep
  <2> QED
    BY <1>2, <1>8, <2>1, <2>2, <2>4, <2>5 DEF Passes, RunsInv, Goes, Onward
<1>12. CASE ~kept
  <2> DEFINE n == [done EXCEPT !.runs = [r \in DOMAIN @ \ {q.run} |-> @[r]]]
  <2>1. b' = n /\ shut' = shut
    BY <1>1, <1>12
  <2>2. OnlyWork(n, done) /\ n.principals = done.principals
    BY <1>9 DEF OnlyWork, Sound, Good, Shape, Fields
  <2>3. Safe(n, done)
    BY <1>9, <2>2, OnlyWorkIsSafe DEF Sound
  <2>4. Goes(n, done)
    BY <1>9, <1>10, <1>12, <2>3, ForgottenGoes DEF Safe
  <2> HIDE DEF n
  <2>5. Goes(n, b) /\ Safe(n, b)
    BY <1>2, <1>8, <2>3, <2>4, GoesChain, SafeChain DEF Sound
  <2>6. BrokerInv'
    BY <1>1, <1>2, <2>1, <2>5, SafeMoves
  <2> QED
    BY <1>2, <1>8, <2>1, <2>2, <2>5, <2>6 DEF Passes, RunsInv, Goes, Onward
<1> QED
  BY <1>11, <1>12

\* The steps of the connection leave the broker alone.
LEMMA StillPasses ==
    ASSUME RunsInv, UNCHANGED grantVars, NEW sh, shut \subseteq sh
    PROVE  RunsInv' /\ Passes(b', b, sh, shut)
<1>1. BrokerInv' /\ b' = b
  BY StutterKeeps DEF RunsInv, grantVars
<1>2. Sound(b) /\ Goes(b, b)
  BY StillGoes DEF RunsInv, BrokerInv, Sound
<1> QED
  BY <1>1, <1>2 DEF Passes, RunsInv, Goes, Onward

-----------------------------------------------------------------------------
(* The lock from the check to the write. *)

\* Outside the guard time goes on, and nothing else but the broker changes.
LEMMA TimeGoesOn ==
    ASSUME FreeGrantStep \/ RunStep PROVE now' = now \/ now' = now + 1
<1>1. ASSUME NEW c, AcceptConnection(c) PROVE now' = now
  BY <1>1 DEF AcceptConnection, Keep
<1>2. ASSUME NEW c, NEW t, RequestApproval(c, t) PROVE now' = now
  BY <1>2 DEF RequestApproval, Keep
<1>3. ASSUME NEW c, NEW refs, RequestMetadataApproval(c, refs) PROVE now' = now
  BY <1>3 DEF RequestMetadataApproval, Keep
<1>4. ASSUME NEW x, ForgetClosedTarget(x) PROVE now' = now
  BY <1>4 DEF ForgetClosedTarget, Keep
<1>5. ASSUME NEW ref, HumanTakeover(ref) PROVE now' = now
  BY <1>5 DEF HumanTakeover, Keep
<1>6. ASSUME NEW p, RejectApproval(p) PROVE now' = now
  BY <1>6 DEF RejectApproval, Keep
<1>7. ASSUME PollExpiryStep \/ Tick PROVE now' = now \/ now' = now + 1
  BY <1>7 DEF PollExpiryStep, Tick, Keep
<1>8. CASE FreeGrantStep
  BY <1>1, <1>2, <1>3, <1>4, <1>5, <1>6, <1>7, <1>8, Zenon DEF FreeGrantStep
<1>9. ASSUME NEW c, NEW slot, NEW parent, NEW spec, AdmitRun(c, slot, parent, spec) PROVE now' = now
  BY <1>9 DEF AdmitRun, Keep
<1>10. ASSUME NEW c, NEW id, NEW key, NEW spec, StartWorkflow(c, id, key, spec) PROVE now' = now
  BY <1>10 DEF StartWorkflow, Keep
<1>11. ASSUME NEW c, NEW id, NEW key, NEW spec, RetryStart(c, id, key, spec) PROVE now' = now
  BY <1>11 DEF RetryStart, Keep
<1>12. ASSUME NEW c, NEW key, CancelStart(c, key) PROVE now' = now
  BY <1>12 DEF CancelStart, Keep
<1>13. ASSUME NEW c, NEW id, Status(c, id) \/ ForgetRun(c, id) \/ CancelRun(c, id) PROVE now' = now
  BY <1>13 DEF Status, ForgetRun, CancelRun, Keep
<1>14. ASSUME NEW id, NEW ref, PrepareLease(id, ref) PROVE now' = now
  BY <1>14 DEF PrepareLease, Keep
<1>15. ASSUME NEW id, NEW q, PrepareRequest(id, q) PROVE now' = now
  BY <1>15 DEF PrepareRequest, Keep
<1>16. ASSUME NEW id, NEW bad, Complete(id, bad) PROVE now' = now
  BY <1>16 DEF Complete, Keep
<1>17. ASSUME NEW t, CommitLease(t) PROVE now' = now
  BY <1>17 DEF CommitLease, Keep
<1>18. ASSUME NEW q, CommitControl(q) \/ SettleRequest(q) \/ CompleteWithResult(q) PROVE now' = now
  BY <1>18 DEF CommitControl, SettleRequest, CompleteWithResult, Keep
<1>19. CASE RunStep
  BY <1>9, <1>10, <1>11, <1>12, <1>13, <1>14, <1>15, <1>16, <1>17, <1>18, <1>19, Zenon
  DEF RunStep, GuardedRunStep, FreeRunStep
<1> QED
  BY <1>8, <1>19

\* What a check has found stays true through what the guard does not order.
LEMMA PassedStays ==
    ASSUME NEW s, NEW n, Spares(n, s), now \in Nat, NEW t \in Nat, now <= t,
           NEW c, NEW f \in Frames, Passed(s, now, c, f)
    PROVE  Passed(n, t, c, f)
<1>1. f.expires \in Nat
  BY DEF Frames
<1>2. c \in n.principals /\ f.targets \subseteq Current(n)
  BY DEF Passed, Spares
<1>3. ASSUME NEW d \in f.disclosure, ~(t >= f.expires)
      PROVE  \E g \in n.grants : /\ g.connection = c /\ g.epoch = d.epoch
                                 /\ g.slot # Ordinary /\ g.expires = f.expires
  <2>1. ~(now >= f.expires)
    BY <1>1, <1>3
  <2>2. PICK g \in s.grants : /\ g.connection = c /\ g.epoch = d.epoch
                              /\ g.slot # Ordinary /\ g.expires = f.expires
    BY <2>1 DEF Passed
  <2> QED
    BY <2>1, <2>2 DEF Spares
<1> QED
  BY <1>2, <1>3 DEF Passed

\* A broker step outside the guard leaves every check true.
LEMMA FreeStepKeepsChecks ==
    ASSUME DeliveryInv, FreeGrantStep \/ FreeRunStep, RunsInv', UNCHANGED <<checked, writing>>
    PROVE  CheckedOK'
<1>1. BrokerInv /\ RunsInv /\ CheckedOK /\ Connected
  BY DEF DeliveryInv, RunsInv
<1>2. Spares(b', b)
  BY <1>1, FreeGrantStepSpares, RunStepKeeps DEF RunStep
<1>3. now \in Nat /\ now' \in Nat /\ now <= now'
  <2>1. now' = now \/ now' = now + 1
    BY TimeGoesOn DEF RunStep
  <2>2. now \in Nat
    BY <1>1, BrokerAssumption DEF BrokerInv
  <2> QED
    BY <2>1, <2>2
<1>4. ASSUME NEW c \in checked, NEW w \in writing[c] PROVE Passed(b', now', c, w.frame)
  <2>1. c \in Connections /\ Passed(b, now, c, w.frame)
    BY <1>1 DEF CheckedOK
  <2>2. w.frame \in Frames
    BY <1>1, <2>1 DEF Connected, ChannelOK, ChannelTypeOK
  <2> QED
    BY <1>2, <1>3, <2>1, <2>2, PassedStays
<1> QED
  BY <1>1, <1>4 DEF CheckedOK

\* A frame that is found valid is authorized, for the client it waits for.
LEMMA ValidIsAuthorized ==
    ASSUME DeliveryInv, NEW c \in Connections, c \notin shut, NEW w \in writing[c], IsValid(w.frame)
    PROVE  Authorized(c, w.frame) /\ Passed(b, now, c, w.frame)
<1> DEFINE f == w.frame
<1>1. ChannelTypeOK(queue[c], writing[c], wire[c]) /\ FramesOK(b, shut, c, queue[c], writing[c])
  BY DEF DeliveryInv, Connected, ChannelOK
<1>2. f \in Frames /\ FrameOK(b, shut, c, f)
  BY <1>1 DEF ChannelTypeOK, FramesOK, Held
<1> HIDE DEF f
<1>3. c \in b.principals /\ f.targets \subseteq Current(b) /\ now < f.expires
  BY <1>2 DEF FrameOK, IsValid, f
<1>4. ASSUME NEW d \in f.disclosure
      PROVE  /\ \E g \in b.grants : /\ g.connection = c /\ g.epoch = d.epoch
                                    /\ g.slot # Ordinary /\ g.expires = f.expires
             /\ d.run \notin failed
  <2>1. IsLive(d)
    BY <1>4 DEF IsValid, f
  <2>2. PICK g \in b.grants : g.epoch = d.epoch
    BY <2>1 DEF IsLive
  <2>3. g.connection = c /\ g.slot # Ordinary /\ g.expires = f.expires
    BY <1>2, <2>2 DEF FrameOK, Bound
  <2>4. d.run \notin failed
    BY <2>1 DEF IsLive, DeliveryInv
  <2> QED
    BY <2>2, <2>3, <2>4
<1>5. Passed(b, now, c, f)
  BY <1>3, <1>4 DEF Passed
<1>6. Authorized(c, f)
  BY <1>3, <1>4 DEF Authorized, GrantsOf
<1> QED
  BY <1>5, <1>6 DEF f

\* Every step keeps what the lock protects.
LEMMA ChecksStay ==
    ASSUME DeliveryInv, RunsInv', DeliveryStep PROVE CheckedOK'
<1>0. ASSUME checked' = {} PROVE CheckedOK'
  BY <1>0 DEF CheckedOK
<1>1. ASSUME GuardFree, checked' = checked PROVE CheckedOK'
  BY <1>0, <1>1 DEF GuardFree
<1>2. CASE BrokerStep
  <2>1. UNCHANGED <<checked, writing>>
    BY <1>2 DEF BrokerStep
  <2>2. CASE GuardFree
    BY <1>1, <2>1, <2>2
  <2>3. CASE FreeGrantStep \/ FreeRunStep
    BY <2>1, <2>3, FreeStepKeepsChecks
  <2> QED
    BY <1>2, <2>2, <2>3 DEF BrokerStep
<1>3. ASSUME NEW p, NEW t, NEW l, Pair(p, t, l) PROVE CheckedOK'
  BY <1>1, <1>3 DEF Pair
<1>4. ASSUME NEW q, Observe(q) PROVE CheckedOK'
  BY <1>1, <1>4 DEF Observe, Answer
<1>5. ASSUME NEW q, Disclose(q) PROVE CheckedOK'
  BY <1>1, <1>5 DEF Disclose, Answer
<1>6. ASSUME NEW q, RetryCompletion(q) PROVE CheckedOK'
  BY <1>1, <1>6 DEF RetryCompletion
<1>7. ASSUME NEW c \in Connections, Take(c) PROVE CheckedOK'
  <2>1. /\ writing[c] = {} /\ checked' = checked /\ b' = b /\ now' = now
        /\ writing' = [writing EXCEPT ![c] = {[frame |-> Head(queue[c]), left |-> Pieces]}]
    BY <1>7 DEF Take, grantVars
  <2>2. CheckedOK /\ DOMAIN writing = Connections
    BY DEF DeliveryInv, Connected
  <2>3. ASSUME NEW d \in checked PROVE d # c /\ writing'[d] = writing[d]
    BY <2>1, <2>2 DEF CheckedOK
  <2> QED
    BY <2>1, <2>2, <2>3 DEF CheckedOK
<1>8. ASSUME NEW c \in Connections, CheckPiece(c) PROVE CheckedOK'
  <2>1. /\ c \notin shut /\ checked' = {c} /\ writing' = writing /\ b' = b /\ now' = now
    BY <1>8 DEF CheckPiece, grantVars
  <2>2. PICK w \in writing[c] : IsValid(w.frame)
    BY <1>8 DEF CheckPiece
  <2>3. \A u \in writing[c] : u = w
    BY DEF DeliveryInv, Connected, ChannelOK, ChannelTypeOK
  <2>4. Passed(b, now, c, w.frame)
    BY <2>1, <2>2, ValidIsAuthorized
  <2> QED
    BY <2>1, <2>2, <2>3, <2>4 DEF CheckedOK
<1>9. ASSUME NEW c, WritePiece(c) \/ WriteBlocks(c) PROVE CheckedOK'
  BY <1>0, <1>9 DEF WritePiece, WriteBlocks
<1>10. ASSUME NEW c, GiveUp(c) \/ PeerCloses(c) \/ RemovePeer(c) PROVE CheckedOK'
  BY <1>1, <1>10 DEF GiveUp, PeerCloses, RemovePeer
<1> QED
  BY <1>2, <1>3, <1>4, <1>5, <1>6, <1>7, <1>8, <1>9, <1>10, Zenon DEF DeliveryStep

-----------------------------------------------------------------------------
(* The theorems on delivery. *)

LEMMA DeliveryStarts ==
    ASSUME Init PROVE DeliveryInv
<1>1. RunsInv
  BY RunsStart DEF Init
<1>2. /\ shut = {} /\ checked = {} /\ failed = {} /\ queue = [c \in Connections |-> <<>>]
      /\ writing = [c \in Connections |-> {}] /\ wire = [c \in Connections |-> <<>>]
      /\ paired = [c \in Connections |-> {}]
  BY DEF Init, DeliveryInit
<1>3. ASSUME NEW c PROVE ChannelOK(b, {}, c, <<>>, {}, <<>>)
  <2>1. Held(<<>>, {}) = {} /\ Used(<<>>, {}, <<>>) = {}
    BY DEF Held, Used
  <2>2. ChannelTypeOK(<<>>, {}, <<>>)
    BY DEF ChannelTypeOK
  <2>3. FramesOK(b, {}, c, <<>>, {}) /\ IdsOK(b, Used(<<>>, {}, <<>>))
    BY <2>1 DEF FramesOK, IdsOK
  <2>4. 0 % Pieces = 0 /\ Len(<<>>) = 0 /\ 1 .. 0 = {}
    BY DeliveryAssumption
  <2>5. StreamOK({}, c, <<>>, {}, <<>>)
    BY <2>4 DEF StreamOK
  <2> QED
    BY <2>2, <2>3, <2>5 DEF ChannelOK
<1>4. PairedOK /\ CheckedOK
  BY <1>2 DEF PairedOK, CheckedOK
<1> QED
  BY <1>1, <1>2, <1>3, <1>4 DEF DeliveryInv, Connected

\* A step of the broker that leaves the connections alone.
LEMMA UntouchedStays ==
    ASSUME DeliveryInv, Passes(b', b, shut', shut), UNCHANGED <<queue, writing, wire>>
    PROVE  Connected'
<1>1. ASSUME NEW c \in Connections PROVE ChannelOK(b', shut', c, queue[c], writing[c], wire[c])
  BY ChannelStays DEF DeliveryInv, Connected
<1> QED
  BY <1>1 DEF DeliveryInv, Connected

\* An answer queues a frame, or closes the connection.
LEMMA AnswerConnects ==
    ASSUME DeliveryInv, NEW q \in b.requests, NEW f \in Frames, Answer(q, f), f.id = q.id,
           FrameOK(b, shut, b.runs[q.run].connection, f)
    PROVE  RunsInv' /\ Passes(b', b, shut', shut) /\ Connected'
<1> DEFINE c == b.runs[q.run].connection
<1>0. RunsInv
  BY DEF DeliveryInv
<1>1. /\ RunsInv' /\ Passes(b', b, shut', shut) /\ \A v \in b'.requests : v.id = q.id => v.committed
  BY <1>0, AnswerPasses
<1>2. /\ ~q.committed /\ UNCHANGED <<writing, wire>>
      /\ \/ queue' = queue
         \/ shut' = shut /\ queue' = [queue EXCEPT ![c] = Append(@, f)]
  BY DEF Answer, SendFrame
<1>3. ASSUME NEW d \in Connections PROVE ChannelOK(b', shut', d, queue[d], writing[d], wire[d])
  BY <1>1, ChannelStays DEF DeliveryInv, Connected
<1>4. CASE queue' = queue
  BY <1>1, <1>2, <1>3, <1>4 DEF DeliveryInv, Connected
<1>5. CASE shut' = shut /\ queue' = [queue EXCEPT ![c] = Append(@, f)]
  <2>1. RequestOK(b, q) /\ c \in b.principals /\ c \in Connections
    BY <1>0, RequestHasClient
  <2>2. /\ b'.grants = b.grants /\ b'.minted = b.minted /\ b'.principals = b.principals
    <3>1. DOMAIN b = Fields /\ b' = [b EXCEPT !.requests = (@ \ {q}) \cup {[q EXCEPT !.committed = TRUE]}]
      BY <1>0 DEF Answer, RunsInv, BrokerInv, Good, Shape
    <3> QED
      BY <3>1 DEF Fields
  <2>3. FrameOK(b', shut', c, f)
    BY <1>5, <2>2 DEF FrameOK, Bound
  <2>4. f.id <= b'.minted.request
    BY <2>1, <2>2 DEF RequestOK
  <2>5. f.id \notin Used(queue[c], writing[c], wire[c])
    <3>1. IdsOK(b, Used(queue[c], writing[c], wire[c]))
      BY <2>1 DEF DeliveryInv, Connected, ChannelOK
    <3> QED
      BY <1>2, <3>1, Zenon DEF IdsOK
  <2>6. \A v \in b'.requests : v.id = f.id => v.committed
    BY <1>1, Zenon
  <2> HIDE DEF c
  <2>7. ChannelOK(b', shut', c, Append(queue[c], f), writing[c], wire[c])
    BY <1>3, <2>1, <2>3, <2>4, <2>5, <2>6, FrameIsQueued
  <2> QED
    BY <1>1, <1>2, <1>3, <1>5, <2>1, <2>7 DEF DeliveryInv, Connected
<1> QED
  BY <1>2, <1>4, <1>5, Zenon

\* The answer to a paired client is bound to the client alone.
LEMMA ObserveConnects ==
    ASSUME DeliveryInv, NEW q \in b.requests, Observe(q)
    PROVE  RunsInv' /\ Passes(b', b, shut', shut) /\ Connected' /\ paired' = paired
<1> DEFINE c == b.runs[q.run].connection
<1>1. RequestOK(b, q) /\ c \in b.principals /\ c \in Connections
  BY RequestHasClient DEF DeliveryInv
<1>2. PICK p \in paired[c] :
         Answer(q, [id |-> q.id, expires |-> p.expires, targets |-> p.targets, disclosure |-> {}])
  BY DEF Observe
<1> DEFINE f == [id |-> q.id, expires |-> p.expires, targets |-> p.targets, disclosure |-> {}]
<1>3. f.id = q.id /\ f.disclosure = {} /\ Answer(q, f)
  BY <1>2
<1>4. f \in Frames
  <2>1. q.id \in Nat
    BY <1>1 DEF RequestOK
  <2>2. p.expires \in Nat /\ p.targets \in SUBSET Refs
    BY <1>1 DEF DeliveryInv, PairedOK
  <2> QED
    BY <2>1, <2>2 DEF Frames
<1> HIDE DEF f
<1>5. FrameOK(b, shut, c, f)
  BY <1>1, <1>3 DEF FrameOK
<1>6. paired' = paired
  BY <1>3 DEF Answer
<1> QED
  BY <1>3, <1>4, <1>5, <1>6, AnswerConnects

\* Metadata is bound to the grant it was read under.
LEMMA DiscloseConnects ==
    ASSUME DeliveryInv, NEW q \in b.requests, Disclose(q)
    PROVE  RunsInv' /\ Passes(b', b, shut', shut) /\ Connected' /\ paired' = paired
<1> DEFINE run == b.runs[q.run]
           c == run.connection
<1>1. RequestOK(b, q) /\ c \in b.principals /\ c \in Connections
  BY RequestHasClient DEF DeliveryInv
<1>2. /\ run.slot[1] = "Enrollment"
      /\ \E g \in SlotGrant(b, c, run.slot) :
            Answer(q, [id |-> q.id, expires |-> g.expires, targets |-> g.sources,
                       disclosure |-> {[run |-> q.run, epoch |-> g.epoch, deadline |-> run.deadline]}])
  BY DEF Disclose
<1>3. PICK g \in SlotGrant(b, c, run.slot) :
         Answer(q, [id |-> q.id, expires |-> g.expires, targets |-> g.sources,
                    disclosure |-> {[run |-> q.run, epoch |-> g.epoch, deadline |-> run.deadline]}])
  BY <1>2
<1> DEFINE d == [run |-> q.run, epoch |-> g.epoch, deadline |-> run.deadline]
           f == [id |-> q.id, expires |-> g.expires, targets |-> g.sources, disclosure |-> {d}]
<1>4. /\ f.id = q.id /\ f.disclosure = {d} /\ f.expires = g.expires /\ f.targets = g.sources
      /\ d.epoch = g.epoch /\ Answer(q, f)
  BY <1>3
<1>5. g \in b.grants /\ g.connection = c /\ g.slot = run.slot
  BY DEF SlotGrant, SlotGrants, GrantsOf
<1>6. g.slot # Ordinary
  BY <1>2, <1>5 DEF Ordinary
<1>7. /\ TreeOK(b) /\ EpochsOK(b) /\ LiveOK(b) /\ TargetsOK(b)
  BY DEF DeliveryInv, RunsInv, RunsOK, BrokerInv, Good
<1>8. f \in Frames
  <2>1. q.id \in Nat /\ q.run \in Nat /\ run.deadline \in Nat
    BY <1>1, <1>7 DEF RequestOK, TreeOK, RunOK
  <2>2. g.epoch \in Nat /\ g.expires \in Nat
    BY <1>5, <1>7 DEF EpochsOK
  <2>3. g.sources \in SUBSET Refs
    <3>1. g.sources \subseteq Current(b)
      BY <1>5, <1>7 DEF LiveOK, GrantTargets
    <3> QED
      BY <1>7, <3>1, CurrentRefs
  <2> HIDE DEF run
  <2>4. d \in [run : Nat, epoch : Nat, deadline : Nat]
    BY <2>1, <2>2
  <2> HIDE DEF d
  <2> QED
    BY <2>1, <2>2, <2>3, <2>4 DEF Frames
<1> HIDE DEF f, d
<1>9. FrameOK(b, shut, c, f)
  <2>1. d.epoch <= b.minted.grant /\ \A h \in b.grants : h.epoch = d.epoch => h = g
    BY <1>4, <1>5, <1>7 DEF EpochsOK
  <2>2. Bound(b, c, f, d)
    BY <1>4, <1>5, <1>6, <2>1 DEF Bound
  <2> QED
    BY <1>1, <1>4, <2>2 DEF FrameOK
<1>10. paired' = paired
  BY <1>4 DEF Answer
<1> QED
  BY <1>4, <1>8, <1>9, <1>10, AnswerConnects

\* The connection's own steps.
LEMMA ChannelStepConnects ==
    ASSUME DeliveryInv, NEW c \in Connections,
           \/ Take(c) \/ CheckPiece(c) \/ WritePiece(c) \/ WriteBlocks(c) \/ GiveUp(c) \/ PeerCloses(c)
    PROVE  RunsInv' /\ Passes(b', b, shut', shut) /\ Connected' /\ paired' = paired
<1> DEFINE Still(d) == ChannelOK(b', shut', d, queue[d], writing[d], wire[d])
<1>0. /\ RunsInv /\ DOMAIN queue = Connections /\ DOMAIN writing = Connections
      /\ DOMAIN wire = Connections
  BY DEF DeliveryInv, Connected
<1>1. UNCHANGED grantVars /\ shut \subseteq shut' /\ paired' = paired
  BY DEF Take, CheckPiece, WritePiece, WriteBlocks, GiveUp, PeerCloses
<1>2. RunsInv' /\ Passes(b', b, shut', shut)
  BY <1>0, <1>1, StillPasses
<1>3. ASSUME NEW d \in Connections PROVE Still(d)
  BY <1>2, ChannelStays DEF DeliveryInv, Connected
<1>4. CASE Take(c)
  <2> DEFINE w == [frame |-> Head(queue[c]), left |-> Pieces]
             n == Tail(queue[c])
  <2>1. /\ c \notin shut' /\ writing[c] = {} /\ queue[c] # <<>> /\ wire' = wire
        /\ writing' = [writing EXCEPT ![c] = {w}] /\ queue' = [queue EXCEPT ![c] = n]
    BY <1>4 DEF Take
  <2>2. ChannelOK(b', shut', c, n, {w}, wire[c])
    BY <1>3, <2>1, FrameIsTaken
  <2> HIDE DEF w, n
  <2> QED
    BY <1>0, <1>1, <1>2, <1>3, <2>1, <2>2 DEF Connected
<1>5. CASE WritePiece(c)
  <2>1. PICK w \in writing[c] :
           /\ wire' = [wire EXCEPT ![c] = Append(@, w.frame.id)]
           /\ writing' = [writing EXCEPT ![c] = IF w.left = 1 THEN {}
                                                ELSE {[w EXCEPT !.left = w.left - 1]}]
    BY <1>5 DEF WritePiece
  <2> DEFINE ws == IF w.left = 1 THEN {} ELSE {[w EXCEPT !.left = w.left - 1]}
             n == Append(wire[c], w.frame.id)
  <2>2. queue' = queue /\ writing' = [writing EXCEPT ![c] = ws] /\ wire' = [wire EXCEPT ![c] = n]
    BY <1>5, <2>1 DEF WritePiece
  <2>3. ChannelOK(b', shut', c, queue[c], ws, n)
    BY <1>3, PieceIsWritten
  <2> HIDE DEF ws, n
  <2> QED
    BY <1>0, <1>1, <1>2, <1>3, <2>2, <2>3 DEF Connected
<1>6. CASE GiveUp(c)
  <2>1. /\ queue' = queue /\ wire' = wire /\ c \in shut' /\ writing' = [writing EXCEPT ![c] = {}]
    BY <1>6 DEF GiveUp
  <2>2. ChannelOK(b', shut', c, queue[c], {}, wire[c])
    BY <1>3, <2>1, FrameIsDropped
  <2> QED
    BY <1>0, <1>1, <1>2, <1>3, <2>1, <2>2 DEF Connected
<1>7. CASE PeerCloses(c) \/ CheckPiece(c) \/ WriteBlocks(c)
  <2>1. UNCHANGED <<queue, writing, wire>>
    BY <1>7 DEF PeerCloses, CheckPiece, WriteBlocks
  <2> QED
    BY <1>1, <1>2, <2>1, UntouchedStays
<1> QED
  BY <1>4, <1>5, <1>6, <1>7

\* A pairing is recorded with the attachments and the end it was approved for.
LEMMA PairIsRecorded ==
    ASSUME DeliveryInv, NEW p \in b.pending, NEW t, NEW l \in Lifetimes, Pair(p, t, l) PROVE PairedOK'
<1> DEFINE c == p.connection
           r == [targets |-> Resolve(b, t).sources, expires |-> now + l]
<1>1. paired' = [paired EXCEPT ![c] = {r}] /\ PairedOK
  BY DEF Pair, DeliveryInv
<1>2. Resolve(b, t).sources \subseteq Refs
  <2>1. TargetsOK(b) /\ Resolve(b, t).sources \subseteq Current(b)
    BY DEF DeliveryInv, RunsInv, BrokerInv, Good, Resolve
  <2> QED
    BY <2>1, CurrentRefs
<1>3. now + l \in Nat
  <2>1. now \in Nat /\ l \in Nat
    BY BrokerAssumption DEF DeliveryInv, RunsInv, BrokerInv, Lifetimes
  <2> QED
    BY <2>1
<1>4. r \in [targets : SUBSET Refs, expires : Nat]
  BY <1>2, <1>3
<1> HIDE DEF r
<1> QED
  BY <1>1, <1>4 DEF PairedOK

\* Every step takes the broker on and keeps the connections.
LEMMA StepConnects ==
    ASSUME DeliveryInv, DeliveryStep PROVE RunsInv' /\ Later(b', b) /\ Connected' /\ PairedOK'
<1> DEFINE Goal == RunsInv' /\ Later(b', b) /\ Connected' /\ PairedOK'
<1>0. RunsInv /\ PairedOK
  BY DEF DeliveryInv
<1>1. Passes(b', b, shut', shut) => Later(b', b)
  BY DEF Passes, Goes, Onward
<1>2. paired' = paired => PairedOK'
  BY <1>0 DEF PairedOK
<1>3. ASSUME RunsInv', Passes(b', b, shut', shut), UNCHANGED <<queue, writing, wire>>, PairedOK'
      PROVE  Goal
  BY <1>1, <1>3, UntouchedStays
<1>4. ASSUME BrokerStep PROVE Goal
  <2>1. RunsInv' /\ Passes(b', b, shut', shut)
    BY <1>0, <1>4, BrokerStepPasses
  <2>2. UNCHANGED <<queue, writing, wire>> /\ paired' = paired
    BY <1>4 DEF BrokerStep
  <2> QED
    BY <1>2, <1>3, <2>1, <2>2
<1>5. ASSUME NEW p \in b.pending, NEW t \in GrantRequests, NEW l \in Lifetimes, Pair(p, t, l) PROVE Goal
  <2>1. RunsInv' /\ Passes(b', b, shut', shut)
    BY <1>0, <1>5, PairPasses
  <2>2. UNCHANGED <<queue, writing, wire>>
    BY <1>5 DEF Pair
  <2>3. PairedOK'
    BY <1>5, PairIsRecorded
  <2> QED
    BY <1>3, <2>1, <2>2, <2>3
<1>6. ASSUME NEW q \in b.requests, Observe(q) PROVE Goal
  BY <1>1, <1>2, <1>6, ObserveConnects
<1>7. ASSUME NEW q \in b.requests, Disclose(q) PROVE Goal
  BY <1>1, <1>2, <1>7, DiscloseConnects
<1>8. ASSUME NEW q \in b.requests, RetryCompletion(q) PROVE Goal
  <2>1. RunsInv' /\ Passes(b', b, shut', shut)
    BY <1>0, <1>8, RetryCompletionPasses
  <2>2. UNCHANGED <<queue, writing, wire>> /\ paired' = paired
    BY <1>8 DEF RetryCompletion
  <2> QED
    BY <1>2, <1>3, <2>1, <2>2
<1>9. ASSUME NEW c \in Connections,
             \/ Take(c) \/ CheckPiece(c) \/ WritePiece(c) \/ WriteBlocks(c) \/ GiveUp(c) \/ PeerCloses(c)
      PROVE  Goal
  BY <1>1, <1>2, <1>9, ChannelStepConnects
<1>10. ASSUME NEW c \in Connections, RemovePeer(c) PROVE Goal
  <2>1. RunsInv' /\ Passes(b', b, shut', shut)
    BY <1>0, <1>10, RemovePeerPasses
  <2>2. UNCHANGED <<queue, writing, wire>> /\ paired' = paired
    BY <1>10 DEF RemovePeer
  <2> QED
    BY <1>2, <1>3, <2>1, <2>2
<1> HIDE DEF Goal
<1>11. ASSUME \E p \in b.pending, t \in GrantRequests, l \in Lifetimes : Pair(p, t, l) PROVE Goal
  BY <1>5, <1>11, Zenon
<1>12. ASSUME \E q \in b.requests : Observe(q) \/ Disclose(q) \/ RetryCompletion(q) PROVE Goal
  BY <1>6, <1>7, <1>8, <1>12, Zenon
<1>13. ASSUME NEW c \in Connections,
              \/ Take(c) \/ CheckPiece(c) \/ WritePiece(c) \/ WriteBlocks(c) \/ GiveUp(c)
              \/ PeerCloses(c) \/ RemovePeer(c)
       PROVE  Goal
  BY <1>9, <1>10, <1>13, Zenon
<1>14. Goal
  BY <1>4, <1>11, <1>12, <1>13, Zenon DEF DeliveryStep
<1> QED
  BY <1>14 DEF Goal

\* Every step keeps the invariant.
LEMMA DeliveryKeeps ==
    ASSUME DeliveryInv, [Next]_vars PROVE DeliveryInv' /\ Later(b', b)
<1>1. CASE Next
  <2>1. RunsInv' /\ Later(b', b) /\ Connected' /\ PairedOK'
    BY <1>1, StepConnects DEF Next
  <2>2. CheckedOK'
    BY <1>1, <2>1, ChecksStay DEF Next
  <2> DEFINE ended == {r \in DOMAIN b'.runs : b'.runs[r].state \notin {"Running", "Completed"}}
  <2>3. b.undelivered \subseteq b'.undelivered /\ DeliveryOK(b')
    BY <2>1 DEF Later, RunsInv, RunsOK
  <2>4. ended \subseteq b'.undelivered /\ failed' = failed \cup ended
    BY <1>1, <2>3 DEF DeliveryOK, Next
  <2>5. failed' \subseteq b'.undelivered
    BY <2>3, <2>4 DEF DeliveryInv
  <2> QED
    BY <2>1, <2>2, <2>5 DEF DeliveryInv
<1>2. CASE UNCHANGED vars
  <2>1. /\ UNCHANGED grantVars /\ shut' = shut /\ UNCHANGED <<queue, writing, wire, failed>>
        /\ UNCHANGED <<paired, checked>> /\ b' = b /\ now' = now
    BY <1>2 DEF vars, ioVars, grantVars
  <2>2. RunsInv' /\ Passes(b', b, shut', shut)
    BY <2>1, StillPasses DEF DeliveryInv
  <2>3. Connected'
    BY <2>1, <2>2, UntouchedStays
  <2>4. Later(b', b)
    BY <2>2 DEF Passes, Goes, Onward
  <2>5. PairedOK' /\ CheckedOK'
    BY <2>1 DEF DeliveryInv, PairedOK, CheckedOK
  <2> QED
    BY <2>1, <2>2, <2>3, <2>4, <2>5 DEF DeliveryInv
<1> QED
  BY <1>1, <1>2

\* Nobody but the writer thread takes or ends its check, or writes.
LEMMA OnlyTheWriter ==
    ASSUME DeliveryStep
    PROVE  \/ UNCHANGED <<checked, wire>>
           \/ \E c \in Connections : CheckPiece(c) \/ WritePiece(c) \/ WriteBlocks(c)
<1> DEFINE Same == UNCHANGED <<checked, wire>>
<1>1. ASSUME BrokerStep PROVE Same
  BY <1>1 DEF BrokerStep
<1>2. ASSUME NEW p, NEW t, NEW l, Pair(p, t, l) PROVE Same
  BY <1>2 DEF Pair
<1>3. ASSUME NEW q, Observe(q) \/ Disclose(q) PROVE Same
  BY <1>3 DEF Observe, Disclose, Answer
<1>4. ASSUME NEW q, RetryCompletion(q) PROVE Same
  BY <1>4 DEF RetryCompletion
<1>5. ASSUME NEW c, Take(c) \/ GiveUp(c) \/ PeerCloses(c) \/ RemovePeer(c) PROVE Same
  BY <1>5 DEF Take, GiveUp, PeerCloses, RemovePeer
<1> HIDE DEF Same
<1>6. Same \/ \E c \in Connections : CheckPiece(c) \/ WritePiece(c) \/ WriteBlocks(c)
  BY <1>1, <1>2, <1>3, <1>4, <1>5, Zenon DEF DeliveryStep
<1> QED
  BY <1>6 DEF Same

\* A frame belongs to a client that is connected or whose connection is closed,
\* and enrollment metadata to the grant it was read under; while a writer holds
\* the lock, what its check found stays true up to the end of the grant's time,
\* whatever the broker, the threads and the peers do (commit_disclosure, the
\* outbound channel, write_until, remove_peer).  Nothing is said of the grant
\* behind the answer to a paired client: the code binds it to the pairing's end.
THEOREM DeliveryInvariant == Spec => []DeliveryInv
BY DeliveryStarts, DeliveryKeeps, PTL DEF Spec

\* StreamStaysFramed: the pieces of a frame are contiguous, and a frame that is
\* cut short is the last thing written on its connection (write_frame, close).
THEOREM StreamsStayFramed == Spec => []StreamStaysFramed
<1>1. DeliveryInv => StreamStaysFramed
  <2> SUFFICES ASSUME DeliveryInv, NEW c \in Connections, NEW i \in DOMAIN wire[c]
               PROVE  PieceOK(wire[c], i)
    BY DEF StreamStaysFramed, PieceOK
  <2>1. wire[c] \in Seq(Nat) /\ \A j \in 1 .. Len(wire[c]) : PieceOK(wire[c], j)
    BY DEF DeliveryInv, Connected, ChannelOK, ChannelTypeOK, StreamOK
  <2> QED
    BY <2>1
<1> QED
  BY <1>1, DeliveryInvariant, PTL

\* EveryPieceIsAuthorized: a piece is written only after a check of its own that
\* found it authorized, and of what was found only the end of a time and the end
\* of the run can have been overtaken when it is written (is_valid and
\* write_until under the admission lock; poll_expiry and complete take no guard).
THEOREM PiecesAreAuthorized == Spec => EveryPieceIsAuthorized
<1> DEFINE Sent == \A c \in Connections : \A w \in writing[c] :
                      /\ c \in checked' \ checked => Authorized(c, w.frame)
                      /\ wire'[c] # wire[c] => c \in checked /\ StillAuthorized(c, w.frame)
<1>1. DeliveryInv /\ [Next]_vars => [Sent]_vars
  <2> SUFFICES ASSUME DeliveryInv, DeliveryStep, NEW c \in Connections, NEW w \in writing[c]
               PROVE  /\ c \in checked' \ checked => Authorized(c, w.frame)
                      /\ wire'[c] # wire[c] => c \in checked /\ StillAuthorized(c, w.frame)
    BY DEF Next
  <2>0. \A u \in writing[c] : u = w
    BY DEF DeliveryInv, Connected, ChannelOK, ChannelTypeOK
  <2>1. ASSUME c \in checked' \ checked PROVE Authorized(c, w.frame)
    <3>1. checked' # checked /\ checked' # {}
      BY <2>1
    <3>2. PICK d \in Connections : CheckPiece(d)
      BY <3>1, OnlyTheWriter DEF WritePiece, WriteBlocks
    <3>3. d = c /\ c \notin shut /\ \E u \in writing[c] : IsValid(u.frame)
      BY <2>1, <3>2 DEF CheckPiece
    <3>4. IsValid(w.frame)
      BY <2>0, <3>3
    <3> QED
      BY <3>3, <3>4, ValidIsAuthorized
  <2>2. ASSUME wire'[c] # wire[c] PROVE c \in checked /\ StillAuthorized(c, w.frame)
    <3>1. wire' # wire
      BY <2>2
    <3>2. PICK d \in Connections : WritePiece(d)
      BY <3>1, OnlyTheWriter DEF CheckPiece, WriteBlocks
    <3>3. PICK u \in writing[d] : wire' = [wire EXCEPT ![d] = Append(@, u.frame.id)]
      BY <3>2 DEF WritePiece
    <3>4. c \in checked
      BY <2>2, <3>2, <3>3 DEF WritePiece
    <3>5. Passed(b, now, c, w.frame)
      BY <3>4 DEF DeliveryInv, CheckedOK
    <3> QED
      BY <3>4, <3>5 DEF Passed, StillAuthorized, GrantsOf
  <2> QED
    BY <2>1, <2>2
<1> QED
  BY <1>1, DeliveryInvariant, PTL DEF Spec, EveryPieceIsAuthorized

\* RunInv, RunningIsAuthorized, CancelledStartStops and BudgetsNest: what the broker
\* promises of its work it keeps beside its connections, where answers complete runs and
\* closed channels disconnect clients.
THEOREM WorkStaysAuthorizedInDelivery == Spec => [](RunInv /\ RunningIsAuthorized /\ CancelledStartStops /\ BudgetsNest)
<1>1. DeliveryInv => RunInv /\ RunningIsAuthorized /\ CancelledStartStops /\ BudgetsNest
  BY RunsInvGivesOwners, RunsInvGivesAuthority, RunsInvGivesStops, RunsInvGivesNesting DEF DeliveryInv
<1> QED
  BY <1>1, DeliveryInvariant, PTL
=============================================================================
