-------------------------- MODULE MultipleTesting ---------------------------
(***************************************************************************)
(* StatisticalValidator.adjust_multiple_testing                            *)
(* (core/research/statistical_validation.py:165-231): the adjusted p-value *)
(* of each of M hypotheses, computed on the p-values in sorted order, and  *)
(* the number of them below alpha.                                         *)
(*                                                                         *)
(* A p-value is a number of 0 .. Unit, for 0 to 1; adjusted values are in  *)
(* 1/Ranks of that, so that the division by a rank is whole.               *)
(***************************************************************************)
EXTENDS Integers, FiniteSets, FiniteSetsExt

CONSTANTS M,       \* the number of hypotheses
          Unit,    \* the p-value 1
          Ranks,   \* a common multiple of 1 .. M
          Alphas   \* significance levels, in p-values

ASSUME TestingAssumption ==
  /\ {M, Unit, Ranks} \subseteq Nat \ {0}
  /\ \A k \in 1 .. M : Ranks % k = 0
  /\ Alphas \subseteq 1 .. Unit

VARIABLES family   \* the p-values, method, alpha and result of a call

Hypotheses == 1 .. M
Methods == {"BONFERRONI", "HOLM_BONFERRONI", "BENJAMINI_HOCHBERG"}

\* The orders that np.argsort may return: equal values come in any order.
SortedOrders(p) ==
  { order \in [Hypotheses -> Hypotheses] :
      /\ \A a, b \in Hypotheses : order[a] = order[b] => a = b
      /\ \A a, b \in Hypotheses : a < b => p[order[a]] <= p[order[b]] }

\* Mutant: an adjusted value may exceed 1.
Uncapped(x) == x

Capped(x) == IF x < Unit * Ranks THEN x ELSE Unit * Ranks

\* Mutant: the factor of rank k is one too small.
HolmAtNext(q, k) == Capped(q[k] * (M - k) * Ranks)

\* Rank k of the sorted p-values q, before monotonicity is enforced.
HolmAt(q, k) == Capped(q[k] * (M - k + 1) * Ranks)
HochbergAt(q, k) == Capped(q[k] * M * (Ranks \div k))

\* The two passes that make the adjusted values rise with the rank.
HolmSorted(q) == [k \in Hypotheses |-> Max({ HolmAt(q, j) : j \in 1 .. k })]
HochbergSorted(q) == [k \in Hypotheses |-> Min({ HochbergAt(q, j) : j \in k .. M })]

\* adj_sorted, put back to where the hypotheses stand.
PutBack(order, sorted) ==
  [h \in Hypotheses |-> sorted[CHOOSE k \in Hypotheses : order[k] = h]]

Adjusted(method, p, order) ==
  LET q == [k \in Hypotheses |-> p[order[k]]] IN
  CASE method = "BONFERRONI" -> [h \in Hypotheses |-> Capped(p[h] * M * Ranks)]
    [] method = "HOLM_BONFERRONI" -> PutBack(order, HolmSorted(q))
    [] method = "BENJAMINI_HOCHBERG" -> PutBack(order, HochbergSorted(q))

Significant(adj, alpha) == { h \in Hypotheses : adj[h] < alpha * Ranks }

NoFamily == [method |-> "NONE", p |-> [h \in Hypotheses |-> 0], alpha |-> 0,
             adj |-> [h \in Hypotheses |-> 0], count |-> 0]

MInit == family = NoFamily

Adjust ==
  /\ family = NoFamily
  /\ \E method \in Methods, p \in [Hypotheses -> 0 .. Unit], alpha \in Alphas :
       \E order \in SortedOrders(p) :
         LET adj == Adjusted(method, p, order) IN
         family' = [method |-> method, p |-> p, alpha |-> alpha, adj |-> adj,
                    count |-> Cardinality(Significant(adj, alpha))]

-----------------------------------------------------------------------------
MTypeOK ==
  /\ family.method \in Methods \cup {"NONE"}
  /\ \A h \in Hypotheses : family.adj[h] \in 0 .. Unit * Ranks
  /\ family.count \in 0 .. M

\* The textbook procedures, on values instead of ranks.  Bonferroni: below alpha
\* divided by M.  Holm steps down from the smallest and stops at the first value
\* that is not below alpha divided by the number of values not yet rejected.
\* Benjamini and Hochberg step up: rejected is what is not above some value below
\* its share of alpha.
Rejected(method, p, alpha) ==
  LET Above(t) == Cardinality({ h \in Hypotheses : p[h] >= t })
      Below(t) == Cardinality({ h \in Hypotheses : p[h] <= t })
      Values == { p[h] : h \in Hypotheses }
  IN CASE method = "BONFERRONI" -> { h \in Hypotheses : p[h] * M < alpha }
       [] method = "HOLM_BONFERRONI" ->
            { h \in Hypotheses : \A t \in Values : t <= p[h] => t * Above(t) < alpha }
       [] method = "BENJAMINI_HOCHBERG" ->
            { h \in Hypotheses : \E t \in Values : t >= p[h] /\ t * M < alpha * Below(t) }

\* The adjusted values below alpha are those of the hypotheses that the textbook
\* procedure rejects, with ties sorted in any order, and the count is theirs
\* (statistical_validation.py:190-219).
RejectsTextbook ==
  family # NoFamily =>
    /\ Significant(family.adj, family.alpha) = Rejected(family.method, family.p, family.alpha)
    /\ family.count = Cardinality(Rejected(family.method, family.p, family.alpha))
=============================================================================
