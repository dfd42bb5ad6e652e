---------------------------- MODULE CorpusProofs ----------------------------
(***************************************************************************)
(* Proofs about the parts of the corpus, which share no state: for any     *)
(* corpus, graph, meetings, uploads and files, any number of overlapping   *)
(* searches, walks, queries and syncs, and any of the faults.              *)
(*                                                                         *)
(* The reranker: sorting by places rearranges (SortRearranges), the caps   *)
(* only lower scores (DiversifyLowers), and so an answer is in order but   *)
(* for what is over a cap (RanksByScore).                                  *)
(* Search: SearchInv says that what a live search has found is of a kind   *)
(* its user may see and readable since it began wherever the gate lets it  *)
(* pass, that every hop shown is next to a readable seed, that a query has *)
(* one owner, and that calls were charged before.                          *)
(* Graph: a path of d steps from a seed, induction being by a least        *)
(* counterexample (LeastOf), is what a walk covers round by round.         *)
(* Meetings: StoredInv and FoundInv say what each statement of a search    *)
(* has found of the meetings that are still there, as far as its LIMIT     *)
(* goes (Cut).                                                             *)
(* Ingest: ScanInv says what is known of a file past the scan; IndexInv    *)
(* that what is indexed is chunked from the text of its file; and ReadInv  *)
(* that what the chunker has closed so far carries what it should, up to   *)
(* the lines it holds. Sums exist and agree by LeastOf (Adds, TotalIs),    *)
(* and joined lines cost little more than their sum (JoinedCosts).         *)
(* The connector: DocumentInv says what NoDuplicates needs, that a         *)
(* document exists exactly with its resource; CursorInv what CursorCovers  *)
(* needs, that a file below the cursor of a sync under way has a resource, *)
(* is still owed one by that sync or was written behind its back; and      *)
(* MarkInv what DeletedMeansArchived needs, that only resources are marked.*)
(***************************************************************************)
EXTENDS Connector, Search, KnowledgeGraph, Meetings, Ingest,
        FiniteSetTheorems, FunctionTheorems, SequenceTheorems, WellFoundedInduction, TLAPS

\* The reranker and search.

\* Scored results: n of them, each with a whole number.
AreScored(results, n) == DOMAIN results = 1..n /\ \A i \in 1..n : results[i].score \in Int

LEMMA AheadOrders ==
    ASSUME NEW results, NEW n \in Nat, AreScored(results, n)
    PROVE  \A i, j, k \in 1..n :
               /\ ~Ahead(results, i, i)
               /\ i # j => Ahead(results, i, j) \/ Ahead(results, j, i)
               /\ ~(Ahead(results, i, j) /\ Ahead(results, j, i))
               /\ Ahead(results, i, j) /\ Ahead(results, j, k) => Ahead(results, i, k)
BY DEF AreScored, Ahead

\* Each place from 1 to n is that of one result, and who is ahead comes first.
LEMMA PlacesAreOne ==
    ASSUME NEW results, NEW n \in Nat, AreScored(results, n)
    PROVE  /\ \A i \in 1..n : Place(results, i) \in 1..n
           /\ \A i, j \in 1..n : Ahead(results, i, j) => Place(results, i) < Place(results, j)
           /\ \A k \in 1..n : \E i \in 1..n : Place(results, i) = k
<1> DEFINE D == 1..n
           Above(i) == {j \in D : Ahead(results, j, i)}
<1>1. IsFiniteSet(D) /\ Cardinality(D) = n BY FS_Interval
<1>2. \A i \in D : Place(results, i) = 1 + Cardinality(Above(i)) BY DEF Place, AreScored
<1>3. \A i \in D : /\ Above(i) \in SUBSET D /\ IsFiniteSet(Above(i)) /\ Cardinality(Above(i)) \in Nat
                   /\ Cardinality(Above(i)) <= n /\ Cardinality(Above(i)) # n
  <2> SUFFICES ASSUME NEW i \in D
      PROVE  /\ Above(i) \in SUBSET D /\ IsFiniteSet(Above(i)) /\ Cardinality(Above(i)) \in Nat
             /\ Cardinality(Above(i)) <= n /\ Cardinality(Above(i)) # n
      OBVIOUS
  <2>1. Above(i) \in SUBSET D /\ i \notin Above(i) BY AheadOrders
  <2> HIDE DEF Above, D
  <2>2. IsFiniteSet(Above(i)) /\ Cardinality(Above(i)) <= n /\ (Cardinality(Above(i)) = n => Above(i) = D)
        BY <1>1, <2>1, FS_Subset
  <2>3. Cardinality(Above(i)) \in Nat BY <2>2, FS_CardinalityType
  <2> QED BY <2>1, <2>2, <2>3
<1>4. ASSUME NEW i \in D, NEW j \in D, Ahead(results, i, j) PROVE Cardinality(Above(i)) < Cardinality(Above(j))
  <2>1. Above(i) \subseteq Above(j) /\ i \in Above(j) /\ i \notin Above(i) BY <1>4, AheadOrders
  <2>2. Above(i) \in SUBSET Above(j) BY <2>1
  <2> HIDE DEF Above, D
  <2>3. Cardinality(Above(i)) <= Cardinality(Above(j)) /\ (Cardinality(Above(j)) = Cardinality(Above(i)) => Above(i) = Above(j))
        BY <1>3, <2>2, FS_Subset
  <2> QED BY <1>3, <2>1, <2>3
<1> HIDE DEF Above
<1>5. \A i \in D : Place(results, i) \in D BY <1>2, <1>3
<1>6. \A i, j \in D : Ahead(results, i, j) => Place(results, i) < Place(results, j) BY <1>2, <1>3, <1>4
<1> DEFINE f == [i \in D |-> Place(results, i)]
<1>7. f \in Injection(D, D)
  <2>1. f \in [D -> D] BY <1>5
  <2>2. ASSUME NEW i \in D, NEW j \in D, f[i] = f[j] PROVE i = j
    <3>1. Place(results, i) = Place(results, j) /\ Place(results, i) \in Int BY <1>5, <2>2
    <3>2. ~Ahead(results, i, j) /\ ~Ahead(results, j, i) BY <1>6, <3>1
    <3> QED BY <3>2, AheadOrders
  <2> HIDE DEF f, D
  <2> QED BY <2>1, <2>2, Fun_IsInj
<1>8. f \in Surjection(D, D)
  <2> HIDE DEF f, D
  <2> QED BY <1>1, <1>7, FS_Injection
<1>9. \A k \in D : \E i \in D : f[i] = k
  <2> HIDE DEF f, D
  <2> QED BY <1>8, Fun_SurjectionProperties
<1> QED BY <1>5, <1>6, <1>9

\* Sorting rearranges: o tells where each result comes from.
Sorts(o, results, n) ==
    /\ o \in [1..n -> 1..n]
    /\ \A i \in 1..n : \E k \in 1..n : o[k] = i
    /\ \A k, l \in 1..n : k < l => Ahead(results, o[k], o[l])

LEMMA SortRearranges ==
    ASSUME NEW results, NEW n \in Nat, AreScored(results, n)
    PROVE  \E o : /\ Sorts(o, results, n)
                  /\ DOMAIN SortByScore(results) = 1..n /\ \A k \in 1..n : SortByScore(results)[k] = results[o[k]]
<1> DEFINE o == [k \in 1..n |-> CHOOSE i \in 1..n : Place(results, i) = k]
<1>1. \A k \in 1..n : o[k] \in 1..n /\ Place(results, o[k]) = k BY PlacesAreOne
<1>2. o \in [1..n -> 1..n] BY <1>1
<1>3. DOMAIN SortByScore(results) = 1..n /\ \A k \in 1..n : SortByScore(results)[k] = results[o[k]]
      BY DEF SortByScore, AreScored
<1> HIDE DEF o
<1>4. ASSUME NEW k \in 1..n, NEW l \in 1..n, k < l PROVE Ahead(results, o[k], o[l])
  <2>1. o[k] # o[l] BY <1>1, <1>4
  <2>2. CASE Ahead(results, o[l], o[k])
    <3>1. Place(results, o[l]) < Place(results, o[k]) BY <1>1, <2>2, PlacesAreOne
    <3>2. l < k BY <1>1, <3>1
    <3> QED BY <1>4, <3>2
  <2> QED BY <1>1, <2>1, <2>2, AheadOrders
<1>5. ASSUME NEW i \in 1..n PROVE \E k \in 1..n : o[k] = i
  <2> DEFINE k == Place(results, i)
  <2>1. k \in 1..n BY PlacesAreOne
  <2>2. Place(results, o[k]) = Place(results, i) /\ o[k] \in 1..n BY <1>1, <2>1
  <2>3. ~Ahead(results, o[k], i) /\ ~Ahead(results, i, o[k])
    <3>1. Place(results, i) \in Int BY <2>1
    <3> QED BY <2>2, <3>1, PlacesAreOne
  <2> QED BY <2>1, <2>2, <2>3, AheadOrders
<1> QED BY <1>2, <1>3, <1>4, <1>5 DEF Sorts

\* Results of the reranker: each is its four fields, its scores are naturals.
ResultFields == {"id", "doc", "score", "base"}
AreResults(results, n) ==
    /\ DOMAIN results = 1..n
    /\ \A i \in 1..n : DOMAIN results[i] = ResultFields /\ results[i].score \in Nat /\ results[i].base \in Nat

LEMMA ScoreIsKept ==
    ASSUME NEW r, NEW v, DOMAIN r = ResultFields
    PROVE  LET t == [r EXCEPT !.score = v]
           IN DOMAIN t = ResultFields /\ t.id = r.id /\ t.doc = r.doc /\ t.base = r.base /\ t.score = v
BY DEF ResultFields

\* How many results of its document come before a result.
Earlier(results, k) == {j \in 1..(k - 1) : results[j].doc = results[k].doc}

LEMMA EarlierCounts ==
    ASSUME NEW results, NEW k \in Nat
    PROVE  IsFiniteSet(Earlier(results, k)) /\ Cardinality(Earlier(results, k)) \in Nat
<1>1. IsFiniteSet(1..(k - 1)) BY FS_Interval
<1>2. Earlier(results, k) \in SUBSET (1..(k - 1)) BY DEF Earlier
<1>3. IsFiniteSet(Earlier(results, k)) BY <1>1, <1>2, FS_Subset
<1> QED BY <1>3, FS_CardinalityType

\* What the penalty makes of a score.
Lowered(score, before, cap) == Clamp(0, score, score - 200 * (before - cap + 1))

LEMMA PenaltyLowers ==
    ASSUME NEW score \in Nat, NEW before \in Nat, NEW cap \in Nat, ~(before < cap)
    PROVE  /\ Lowered(score, before, cap) \in Nat /\ Lowered(score, before, cap) <= score
           /\ \A more \in Nat, less \in Nat :
                  more > before /\ less <= score => Lowered(less, more, cap) <= Lowered(score, before, cap)
<1> DEFINE p == 200 * (before - cap + 1)
<1>1. p \in Nat /\ p > 0 OBVIOUS
<1>2. \A more \in Nat : more > before => 200 * (more - cap + 1) \in Nat /\ 200 * (more - cap + 1) > p OBVIOUS
<1>3. Lowered(score, before, cap) = Clamp(0, score, score - p) BY DEF Lowered
<1> HIDE DEF p
<1>4. Clamp(0, score, score - p) \in Nat /\ Clamp(0, score, score - p) <= score BY <1>1 DEF Clamp
<1>5. \A q \in Nat, less \in Nat : q > p /\ less <= score => Clamp(0, less, less - q) <= Clamp(0, score, score - p)
      BY <1>1 DEF Clamp
<1> QED BY <1>2, <1>3, <1>4, <1>5 DEF Lowered

\* The caps keep everything but scores, which fall for the results over the
\* cap only, and never let a later result of a document pass an earlier one.
LEMMA DiversifyLowers ==
    ASSUME NEW results, NEW n \in Nat, NEW cap \in Nat, AreResults(results, n),
           \A k, l \in 1..n : k < l => results[k].score >= results[l].score
    PROVE  LET d == Diversify(results, cap)
           IN /\ AreResults(d, n)
              /\ \A k \in 1..n :
                     /\ d[k].id = results[k].id /\ d[k].doc = results[k].doc /\ d[k].base = results[k].base
                     /\ d[k].score <= results[k].score
                     /\ d[k].score < results[k].score => Cardinality(Earlier(results, k)) >= cap
              /\ \A k, l \in 1..n : k < l /\ results[k].doc = results[l].doc => d[k].score >= d[l].score
<1> DEFINE d == Diversify(results, cap)
           before(k) == Cardinality(Earlier(results, k))
           lowered(k) == Lowered(results[k].score, before(k), cap)
<1>1. DOMAIN d = 1..n /\ \A k \in 1..n :
          d[k] = IF before(k) < cap THEN results[k] ELSE [results[k] EXCEPT !.score = lowered(k)]
      BY DEF Diversify, Earlier, AreResults, Lowered
<1>2. \A k \in 1..n : before(k) \in Nat BY EarlierCounts
<1>3. \A k, l \in 1..n : k < l /\ results[k].doc = results[l].doc => before(k) < before(l)
  <2> SUFFICES ASSUME NEW k \in 1..n, NEW l \in 1..n, k < l, results[k].doc = results[l].doc
               PROVE  before(k) < before(l)
      OBVIOUS
  <2>1. Earlier(results, k) \in SUBSET Earlier(results, l) /\ k \in Earlier(results, l) /\ k \notin Earlier(results, k)
        BY DEF Earlier
  <2>2. IsFiniteSet(Earlier(results, l)) BY EarlierCounts
  <2>3. before(k) <= before(l) /\ (before(l) = before(k) => Earlier(results, l) = Earlier(results, k))
        BY <2>1, <2>2, FS_Subset
  <2> HIDE DEF before
  <2> QED BY <1>2, <2>1, <2>3
<1>4. \A k \in 1..n : before(k) < cap => d[k] = results[k] BY <1>1
<1>5. ASSUME NEW k \in 1..n, ~(before(k) < cap)
      PROVE  /\ DOMAIN d[k] = ResultFields /\ d[k].id = results[k].id /\ d[k].doc = results[k].doc
             /\ d[k].base = results[k].base /\ d[k].score = lowered(k)
  <2>1. d[k] = [results[k] EXCEPT !.score = lowered(k)] BY <1>1, <1>5
  <2>2. DOMAIN results[k] = ResultFields BY DEF AreResults
  <2> HIDE DEF d, lowered
  <2> QED BY <2>1, <2>2, ScoreIsKept
<1> HIDE DEF d, before
<1>6. \A k \in 1..n : results[k].score \in Nat BY DEF AreResults
<1> HIDE DEF before
<1>7. \A k \in 1..n : ~(before(k) < cap) => lowered(k) \in Nat /\ lowered(k) <= results[k].score
      BY <1>2, <1>6, PenaltyLowers
<1>8. ASSUME NEW k \in 1..n, NEW l \in 1..n, k < l, results[k].doc = results[l].doc, ~(before(k) < cap)
      PROVE  lowered(l) <= lowered(k)
  <2>1. before(l) \in Nat /\ before(l) > before(k) /\ results[l].score \in Nat /\ results[l].score <= results[k].score
        BY <1>2, <1>3, <1>6, <1>8
  <2> QED BY <1>2, <1>6, <1>8, <2>1, PenaltyLowers
<1> HIDE DEF lowered
<1>9. AreResults(d, n)
  <2>1. ASSUME NEW k \in 1..n PROVE DOMAIN d[k] = ResultFields /\ d[k].score \in Nat /\ d[k].base \in Nat
    <3>1. CASE before(k) < cap BY <1>4, <3>1 DEF AreResults
    <3>2. CASE ~(before(k) < cap) BY <1>5, <1>7, <3>2 DEF AreResults
    <3> QED BY <3>1, <3>2
  <2> QED BY <1>1, <2>1 DEF AreResults
<1>10. ASSUME NEW k \in 1..n
       PROVE  /\ d[k].id = results[k].id /\ d[k].doc = results[k].doc /\ d[k].base = results[k].base
              /\ d[k].score <= results[k].score
              /\ d[k].score < results[k].score => before(k) >= cap
  <2>1. CASE before(k) < cap BY <1>4, <1>6, <2>1
  <2>2. CASE ~(before(k) < cap) BY <1>2, <1>5, <1>7, <2>2
  <2> QED BY <2>1, <2>2
<1>11. ASSUME NEW k \in 1..n, NEW l \in 1..n, k < l, results[k].doc = results[l].doc PROVE d[k].score >= d[l].score
  <2>1. CASE before(k) < cap
    <3>1. d[k].score = results[k].score BY <1>4, <2>1
    <3>2. d[l].score <= results[l].score /\ d[l].score \in Nat BY <1>10, <1>9 DEF AreResults
    <3> QED BY <1>6, <1>11, <3>1, <3>2
  <2>2. CASE ~(before(k) < cap)
    <3>1. ~(before(l) < cap) BY <1>2, <1>3, <1>11, <2>2
    <3>2. d[k].score = lowered(k) /\ d[l].score = lowered(l) BY <1>5, <2>2, <3>1
    <3> QED BY <1>7, <1>8, <1>11, <2>2, <3>1, <3>2
  <2> QED BY <2>1, <2>2
<1> QED BY <1>9, <1>10, <1>11 DEF d, before

\* What is ranked: n candidates, each scored by some weights.
ScoredBy(weights, candidates) ==
    [k \in DOMAIN candidates |->
        [id |-> candidates[k].id, doc |-> candidates[k].doc,
         score |-> Score(weights, candidates[k]), base |-> Score(weights, candidates[k])]]

LEMMA ScoreIsNatural ==
    ASSUME NEW c, c.signals \in [SignalNames -> Int], NEW mode \in DOMAIN WEIGHT_PRESETS, NEW available
    PROVE  Score(Effective(mode, available), c) \in Nat
<1> DEFINE w == Effective(mode, available)
<1>1. /\ w.semantic \in Int /\ w.lexical \in Int /\ w.phrase \in Int
      /\ w.title \in Int /\ w.authority \in Int /\ w.freshness \in Int
      BY DEF Effective, WEIGHT_PRESETS, Weights
<1>2. /\ c.signals.semantic \in Int /\ c.signals.lexical \in Int /\ c.signals.phrase \in Int
      /\ c.signals.title \in Int /\ c.signals.authority \in Int /\ c.signals.freshness \in Int
      BY DEF SignalNames
<1>3. \A n \in Int : Clamp(0, 10500, n) \in Nat BY DEF Clamp
<1> HIDE DEF w
<1>4. \A a, b \in Int : a * b \in Int OBVIOUS
<1> DEFINE raw == w.semantic * c.signals.semantic + w.lexical * c.signals.lexical
                  + w.phrase * c.signals.phrase + w.title * c.signals.title
                  + w.authority * c.signals.authority + w.freshness * c.signals.freshness
           penalty == IF c.conflict THEN 100 * Conflict ELSE 0
<1>5. raw \in Int
  <2>1. /\ w.semantic * c.signals.semantic \in Int /\ w.lexical * c.signals.lexical \in Int
        /\ w.phrase * c.signals.phrase \in Int /\ w.title * c.signals.title \in Int
        /\ w.authority * c.signals.authority \in Int /\ w.freshness * c.signals.freshness \in Int
        BY <1>1, <1>2, <1>4
  <2>2. \A a, b, d, e, f, g \in Int : a + b + d + e + f + g \in Int OBVIOUS
  <2> QED BY ONLY <2>1, <2>2
<1>6. penalty \in Int BY DEF Conflict
<1>7. Score(w, c) = Clamp(0, 10500, raw - penalty) BY DEF Score
<1> HIDE DEF raw, penalty
<1>8. raw - penalty \in Int BY <1>5, <1>6
<1> QED BY <1>3, <1>7, <1>8 DEF w

\* The reranker answers with the candidates, each once, and a result comes
\* after a weaker one only when it is over the cap of its document.
Ranks(out, candidates, n, cap) ==
    /\ DOMAIN out = 1..n
    /\ \A k \in 1..n : \E i \in 1..n : out[k].id = candidates[i].id /\ out[k].doc = candidates[i].doc
    /\ \A i, j \in 1..n : i < j /\ out[i].base < out[j].base =>
           /\ out[i].doc # out[j].doc
           /\ Cardinality({k \in 1..(j - 1) : out[k].doc = out[j].doc}) >= cap

LEMMA RanksByScore ==
    ASSUME NEW candidates, NEW n \in Nat, DOMAIN candidates = 1..n,
           \A k \in 1..n : candidates[k].signals \in [SignalNames -> Int],
           NEW mode \in DOMAIN WEIGHT_PRESETS, NEW available, NEW cap \in Nat
    PROVE  Ranks(rerank(candidates, mode, available, cap), candidates, n, cap)
<1> DEFINE scored == ScoredBy(Effective(mode, available), candidates)
           sorted == SortByScore(scored)
           capped == Diversify(sorted, cap)
           out == SortByScore(capped)
<1>1. rerank(candidates, mode, available, cap) = out BY DEF rerank, ScoredBy
<1>2. AreResults(scored, n) /\ \A i \in 1..n : /\ scored[i].id = candidates[i].id /\ scored[i].doc = candidates[i].doc
                                               /\ scored[i].score = scored[i].base
  <2>1. ASSUME NEW i \in 1..n PROVE Score(Effective(mode, available), candidates[i]) \in Nat BY ScoreIsNatural
  <2> QED BY <2>1 DEF ScoredBy, AreResults, ResultFields
<1> HIDE DEF scored
<1>3. AreScored(scored, n) BY <1>2 DEF AreScored, AreResults
<1>4. PICK from : /\ Sorts(from, scored, n)
                  /\ DOMAIN sorted = 1..n /\ \A k \in 1..n : sorted[k] = scored[from[k]]
      BY <1>3, SortRearranges
<1>5. \A k \in 1..n : from[k] \in 1..n BY <1>4 DEF Sorts
<1> HIDE DEF sorted
<1>6. AreResults(sorted, n) /\ \A k \in 1..n : sorted[k].score = sorted[k].base
      BY <1>2, <1>4, <1>5 DEF AreResults
<1>7. \A k, l \in 1..n : k < l => sorted[k].score >= sorted[l].score
  <2> SUFFICES ASSUME NEW k \in 1..n, NEW l \in 1..n, k < l PROVE sorted[k].score >= sorted[l].score OBVIOUS
  <2>1. Ahead(scored, from[k], from[l]) BY <1>4 DEF Sorts
  <2>2. scored[from[k]].score \in Nat /\ scored[from[l]].score \in Nat BY <1>2, <1>5 DEF AreResults
  <2>3. scored[from[k]].score >= scored[from[l]].score BY <2>1, <2>2 DEF Ahead
  <2> QED BY <1>4, <2>3
<1>8. /\ AreResults(capped, n)
      /\ \A k \in 1..n :
             /\ capped[k].id = sorted[k].id /\ capped[k].doc = sorted[k].doc /\ capped[k].base = sorted[k].base
             /\ capped[k].score <= sorted[k].score
             /\ capped[k].score < sorted[k].score => Cardinality(Earlier(sorted, k)) >= cap
      /\ \A k, l \in 1..n : k < l /\ sorted[k].doc = sorted[l].doc => capped[k].score >= capped[l].score
      BY <1>6, <1>7, DiversifyLowers
<1> HIDE DEF capped
<1>9. AreScored(capped, n) BY <1>8 DEF AreScored, AreResults
<1>10. PICK to : /\ Sorts(to, capped, n)
                 /\ DOMAIN out = 1..n /\ \A k \in 1..n : out[k] = capped[to[k]]
       BY <1>9, SortRearranges
<1>11. /\ \A k \in 1..n : to[k] \in 1..n
       /\ \A i \in 1..n : \E k \in 1..n : to[k] = i
       /\ \A k, l \in 1..n : k < l => Ahead(capped, to[k], to[l])
       BY <1>10 DEF Sorts
<1> HIDE DEF out
<1>12. \A k \in 1..n : \E i \in 1..n : out[k].id = candidates[i].id /\ out[k].doc = candidates[i].doc
  <2> SUFFICES ASSUME NEW k \in 1..n PROVE \E i \in 1..n : out[k].id = candidates[i].id /\ out[k].doc = candidates[i].doc
      OBVIOUS
  <2>1. to[k] \in 1..n /\ from[to[k]] \in 1..n BY <1>5, <1>11
  <2>2. out[k].id = scored[from[to[k]]].id /\ out[k].doc = scored[from[to[k]]].doc BY <1>4, <1>8, <1>10, <2>1
  <2> QED BY <1>2, <2>1, <2>2
<1>13. ASSUME NEW i \in 1..n, NEW j \in 1..n, i < j, out[i].base < out[j].base
       PROVE  /\ out[i].doc # out[j].doc
              /\ Cardinality({k \in 1..(j - 1) : out[k].doc = out[j].doc}) >= cap
  <2> DEFINE a == to[i]
             b == to[j]
  <2>1. a \in 1..n /\ b \in 1..n /\ out[i] = capped[a] /\ out[j] = capped[b] BY <1>10, <1>11
  <2>2. Ahead(capped, a, b) BY <1>11, <1>13
  <2> HIDE DEF a, b
  <2>3. sorted[a].score < sorted[b].score BY <1>6, <1>8, <1>13, <2>1
  <2>4. b < a
    <3>1. a # b BY <1>6, <2>1, <2>3 DEF AreResults
    <3>2. ~(a < b) BY <1>6, <1>7, <2>1, <2>3 DEF AreResults
    <3> QED BY <2>1, <3>1, <3>2
  <2>5. /\ capped[a].score \in Nat /\ capped[b].score \in Nat /\ sorted[a].score \in Nat /\ sorted[b].score \in Nat
        BY <1>6, <1>8, <2>1 DEF AreResults
  <2>6. capped[a].score > capped[b].score BY <2>2, <2>4, <2>1, <2>5 DEF Ahead
  <2>7. capped[b].score < sorted[b].score
    <3>1. capped[a].score <= sorted[a].score BY <1>8, <2>1
    <3> QED BY <2>3, <2>5, <2>6, <3>1
  <2>8. Cardinality(Earlier(sorted, b)) >= cap BY <1>8, <2>1, <2>7
  <2>9. out[i].doc # out[j].doc
    <3> SUFFICES ASSUME out[i].doc = out[j].doc PROVE FALSE OBVIOUS
    <3>1. sorted[b].doc = sorted[a].doc BY <1>8, <2>1
    <3>2. capped[b].score >= capped[a].score BY <1>8, <2>1, <2>4, <3>1
    <3> QED BY <2>5, <2>6, <3>2
  <2> DEFINE place == [x \in 1..n |-> CHOOSE k \in 1..n : to[k] = x]
             E == Earlier(sorted, b)
             T == {k \in 1..(j - 1) : out[k].doc = out[j].doc}
             f == [x \in E |-> place[x]]
  <2>10. \A x \in 1..n : place[x] \in 1..n /\ to[place[x]] = x BY <1>11
  <2> HIDE DEF place
  <2>11. \A x \in E : x \in 1..n /\ x < b /\ sorted[x].doc = sorted[b].doc BY <2>1 DEF Earlier
  <2>12. ASSUME NEW x \in E PROVE place[x] \in T
    <3>1. x \in 1..n /\ x < b /\ sorted[x].doc = sorted[b].doc BY <2>11
    <3>2. place[x] \in 1..n /\ to[place[x]] = x BY <2>10, <3>1
    <3>3. capped[x].score \in Nat /\ capped[x].score >= capped[b].score BY <1>8, <2>1, <3>1 DEF AreResults
    <3>4. ~Ahead(capped, b, x) BY <2>1, <2>5, <3>1, <3>3 DEF Ahead
    <3>5. place[x] # j BY <2>1, <3>1, <3>2 DEF b
    <3>6. ~(j < place[x]) BY <1>11, <3>2, <3>4 DEF b
    <3>7. place[x] \in 1..(j - 1) BY <3>2, <3>5, <3>6
    <3>8. out[place[x]].doc = out[j].doc BY <1>8, <1>10, <2>1, <3>1, <3>2
    <3> QED BY <3>7, <3>8
  <2>13. f \in [E -> T] BY <2>12
  <2>14. \A x, y \in E : f[x] = f[y] => x = y BY <2>10, <2>11
  <2>15. IsFiniteSet(T) /\ Cardinality(T) \in Nat
    <3>1. IsFiniteSet(1..(j - 1))
      <4>1. 1 \in Int /\ j - 1 \in Int OBVIOUS
      <4> QED BY ONLY <4>1, FS_Interval
    <3>2. T \in SUBSET (1..(j - 1)) OBVIOUS
    <3> HIDE DEF T
    <3>3. IsFiniteSet(T) BY <3>1, <3>2, FS_Subset
    <3> QED BY <3>3, FS_CardinalityType
  <2>16. Cardinality(E) \in Nat BY <2>1, EarlierCounts
  <2>17. Cardinality(E) <= Cardinality(T)
    <3> HIDE DEF f, E, T
    <3>1. f \in Injection(E, T) BY <2>13, <2>14, Fun_IsInj
    <3> QED BY <2>15, <3>1, FS_Injection
  <2>18. Cardinality(T) >= cap
    <3> HIDE DEF T
    <3> QED BY <2>8, <2>15, <2>16, <2>17
  <2> QED BY <2>9, <2>18
<1>14. Ranks(out, candidates, n, cap) BY <1>10, <1>12, <1>13 DEF Ranks
<1> QED BY ONLY <1>1, <1>14

\* A finite set listed in any order: its elements, each at some place.
LEMMA ListsASet ==
    ASSUME NEW S, IsFiniteSet(S)
    PROVE  /\ Cardinality(S) \in Nat
           /\ DOMAIN SetToSeq(S) = 1..Cardinality(S)
           /\ \A k \in 1..Cardinality(S) : SetToSeq(S)[k] \in S
<1> DEFINE D == 1..Cardinality(S)
<1>1. ExistsBijection(D, S) /\ Cardinality(S) \in Nat BY FS_CardinalityType
<1> HIDE DEF D
<1>2. PICK f : f \in Bijection(D, S) BY <1>1 DEF ExistsBijection
<1>3. f \in [D -> S] /\ \A a, b \in D : f[a] = f[b] => a = b BY <1>2, Fun_BijectionProperties
<1>4. f \in [D -> S] /\ IsInjective(f) BY <1>3 DEF IsInjective
<1>5. SetToSeq(S) \in [D -> S] BY <1>4 DEF SetToSeq, D
<1> QED BY <1>1, <1>5 DEF D

\* Records that name different items are as few as the items.
LEMMA OneForEachItem ==
    ASSUME NEW F, NEW S, IsFiniteSet(S), \A f \in F : f.item \in S, \A f, g \in F : f.item = g.item => f = g
    PROVE  IsFiniteSet(F)
<1> DEFINE h == [f \in F |-> f.item]
<1>1. h \in [F -> S] /\ \A f, g \in F : h[f] = h[g] => f = g OBVIOUS
<1> HIDE DEF h
<1>2. h \in Injection(F, S) BY <1>1, Fun_IsInj
<1> QED BY <1>2, FS_Injection

\* The items of an answer as OnlyCappedLosePlaces wants them.
Capped(items) ==
    \A i, j \in DOMAIN items : i < j /\ items[i].base < items[j].base =>
        /\ items[i].doc # items[j].doc
        /\ Cardinality({k \in 1..(j - 1) : items[k].doc = items[j].doc}) >= Cap

\* What is answered is what was ranked, and in the order of the ranking.
LEMMA ItemsAreRanked ==
    ASSUME NEW candidates, NEW n \in Nat, DOMAIN candidates = 1..n, NEW G,
           \A k \in 1..n : candidates[k].signals \in [SignalNames -> Int] /\ candidates[k].id \in G,
           NEW mode \in DOMAIN WEIGHT_PRESETS, NEW available, NEW finds
    PROVE  LET items == ToItems(rerank(candidates, mode, available, Cap), finds)
           IN /\ \A k \in DOMAIN items : /\ items[k].id \in G /\ items[k].kind = Corpus[items[k].id].kind
                                         /\ items[k].hops = HopsOf(finds, items[k].id)
              /\ Capped(items)
<1> DEFINE out == rerank(candidates, mode, available, Cap)
           items == ToItems(out, finds)
<1>1. Ranks(out, candidates, n, Cap) BY SearchAssumption, RanksByScore
<1> HIDE DEF out
<1>2. DOMAIN items = 1..n
      /\ \A k \in 1..n : /\ items[k].id = out[k].id /\ items[k].doc = out[k].doc /\ items[k].base = out[k].base
                         /\ items[k].kind = Corpus[items[k].id].kind /\ items[k].hops = HopsOf(finds, items[k].id)
      BY <1>1 DEF Ranks, ToItems
<1> HIDE DEF items
<1>3. ASSUME NEW k \in 1..n PROVE items[k].id \in G
  <2>1. PICK i \in 1..n : out[k].id = candidates[i].id BY <1>1 DEF Ranks
  <2>2. candidates[i].id \in G OBVIOUS
  <2> QED BY <1>2, <2>1, <2>2
<1>4. ASSUME NEW i \in 1..n, NEW j \in 1..n, i < j, items[i].base < items[j].base
      PROVE  /\ items[i].doc # items[j].doc
             /\ Cardinality({k \in 1..(j - 1) : items[k].doc = items[j].doc}) >= Cap
  <2>1. /\ out[i].doc # out[j].doc
        /\ Cardinality({k \in 1..(j - 1) : out[k].doc = out[j].doc}) >= Cap
    <3>1. out[i].base < out[j].base BY <1>2, <1>4
    <3>2. \A x, y \in 1..n : x < y /\ out[x].base < out[y].base =>
              /\ out[x].doc # out[y].doc
              /\ Cardinality({k \in 1..(y - 1) : out[k].doc = out[y].doc}) >= Cap
          BY <1>1 DEF Ranks
    <3> QED BY ONLY <1>4, <3>1, <3>2, i \in 1..n, j \in 1..n
  <2>2. {k \in 1..(j - 1) : items[k].doc = items[j].doc} = {k \in 1..(j - 1) : out[k].doc = out[j].doc}
        BY <1>2
  <2> QED BY <1>2, <2>1, <2>2
<1>5. Capped(items) BY <1>2, <1>4 DEF Capped
<1> QED BY <1>2, <1>3, <1>5 DEF out, items

-----------------------------------------------------------------------------
\* What a request may read when the sources are src.
ReadableIn(src, request) ==
    {i \in Items : /\ src[Corpus[i].doc].visible
                   /\ CanReadClassification(request.clearance, src[Corpus[i].doc].class)}

CallFields == {"at", "query", "request", "vector", "degraded", "attempt", "todo", "found", "items", "readable"}
LivePhases == {"charge", "embed", "table", "pending", "provider", "read"}

\* What is found is of a kind the user asked for and may see, and where the
\* gate will let it pass the user could read it since the search began.
SoundFind(c, f) ==
    /\ f.item \in Items /\ Corpus[f.item].kind \in AllowedKinds(c.request) /\ f.semantic \in Int
    /\ f.hops \subseteq NextTo(f.item)
    /\ CanReadClassification(c.request.clearance, f.class) => f.item \in c.readable

LiveCall(c, src) ==
    /\ ReadableIn(src, c.request) \subseteq c.readable
    /\ IsFiniteSet(c.found) /\ \A f \in c.found : SoundFind(c, f)
    /\ c.attempt \in Nat
    /\ c.at = "read" => c.todo \subseteq {"lexical", "semantic"} \cup (AllowedKinds(c.request) \ {"document"})

Served(c) ==
    /\ \A k \in DOMAIN c.items : /\ c.items[k].id \in c.readable /\ c.items[k].kind \in AllowedKinds(c.request)
                                 /\ c.items[k].hops \subseteq NextTo(c.items[k].id)
    /\ Capped(c.items)

CallOk(c, src) ==
    \/ c = NoCall \/ c = Failed
    \/ /\ DOMAIN c = CallFields /\ c.request \in Requests
       /\ \/ c.at = "done" /\ Served(c)
          \/ c.at \in LivePhases /\ LiveCall(c, src)

SourcesOk(src) ==
    /\ DOMAIN src = Sources
    /\ \A d \in Sources : /\ DOMAIN src[d] = {"visible", "class"}
                          /\ d \notin Classified => src[d].class = "Internal"

\* c and d agree but for the fields that changed.
Agree(c, d, changed) == DOMAIN d = CallFields /\ \A x \in CallFields \ changed : d[x] = c[x]

LEMMA CallUpdates ==
    ASSUME NEW c, DOMAIN c = CallFields, NEW v
    PROVE  /\ Agree(c, [c EXCEPT !.at = v], {"at"}) /\ [c EXCEPT !.at = v].at = v
           /\ Agree(c, [c EXCEPT !.vector = v], {"vector"})
           /\ Agree(c, [c EXCEPT !.degraded = v], {"degraded"})
           /\ Agree(c, [c EXCEPT !.attempt = v], {"attempt"}) /\ [c EXCEPT !.attempt = v].attempt = v
           /\ Agree(c, [c EXCEPT !.todo = v], {"todo"}) /\ [c EXCEPT !.todo = v].todo = v
           /\ Agree(c, [c EXCEPT !.found = v], {"found"}) /\ [c EXCEPT !.found = v].found = v
           /\ Agree(c, [c EXCEPT !.items = v], {"items"}) /\ [c EXCEPT !.items = v].items = v
           /\ Agree(c, [c EXCEPT !.readable = v], {"readable"}) /\ [c EXCEPT !.readable = v].readable = v
BY DEF Agree, CallFields

LEMMA AgreeTwice ==
    ASSUME NEW c, NEW d, NEW e, NEW S, NEW T, Agree(c, d, S), Agree(d, e, T)
    PROVE  Agree(c, e, S \cup T)
BY DEF Agree

\* The vector is known, or there is none: only what comes next changes.
LEMMA VectorIsKnown ==
    ASSUME NEW c, DOMAIN c = CallFields, NEW vector, NEW why
    PROVE  LET d == WithVector(c, vector, why)
           IN /\ Agree(c, d, {"at", "vector", "degraded", "todo"}) /\ d.at = "read"
              /\ d.todo \subseteq {"lexical", "semantic"} \cup (AllowedKinds(c.request) \ {"document"})
<1> DEFINE c1 == [c EXCEPT !.vector = vector]
           known == [c1 EXCEPT !.degraded = why]
           c2 == [known EXCEPT !.at = "read"]
           d == [c2 EXCEPT !.todo = Reads(known)]
<1>1. Agree(c, c1, {"vector"}) BY CallUpdates
<1> HIDE DEF c1
<1>2. Agree(c1, known, {"degraded"}) BY <1>1, CallUpdates DEF Agree
<1> HIDE DEF known
<1>3. Agree(known, c2, {"at"}) /\ c2.at = "read" BY <1>2, CallUpdates DEF Agree
<1> HIDE DEF c2
<1>4. Agree(c2, d, {"todo"}) /\ d.todo = Reads(known) BY <1>3, CallUpdates DEF Agree
<1>5. d = WithVector(c, vector, why) BY DEF WithVector, d, c2, known, c1
<1> HIDE DEF d
<1>6. Agree(c, d, {"at", "vector", "degraded", "todo"}) BY <1>1, <1>2, <1>3, <1>4 DEF Agree
<1>7. d.at = "read" BY <1>3, <1>4 DEF Agree, CallFields
<1>8. known.request = c.request BY <1>1, <1>2 DEF Agree, CallFields
<1>9. Reads(known) \subseteq {"lexical", "semantic"} \cup (AllowedKinds(c.request) \ {"document"}) BY <1>8 DEF Reads
<1> QED BY <1>4, <1>5, <1>6, <1>7, <1>9

LEMMA StillLive ==
    ASSUME NEW c, NEW d, NEW src, DOMAIN c = CallFields, c.request \in Requests, LiveCall(c, src),
           Agree(c, d, {"at", "vector", "degraded", "todo", "attempt"}), d.at \in LivePhases, d.attempt \in Nat,
           d.at = "read" => d.todo \subseteq {"lexical", "semantic"} \cup (AllowedKinds(c.request) \ {"document"})
    PROVE  CallOk(d, src)
<1>1. d.request = c.request /\ d.found = c.found /\ d.readable = c.readable /\ DOMAIN d = CallFields
      BY DEF Agree, CallFields
<1>2. \A f : SoundFind(c, f) <=> SoundFind(d, f) BY <1>1 DEF SoundFind
<1>3. LiveCall(d, src) BY <1>1, <1>2 DEF LiveCall
<1> QED BY <1>1, <1>3 DEF CallOk

LEMMA LiveCallOk ==
    ASSUME NEW c, NEW src, CallOk(c, src), c.at \in LivePhases
    PROVE  DOMAIN c = CallFields /\ c.request \in Requests /\ LiveCall(c, src)
BY DEF CallOk, LivePhases, NoCall, Failed

\* What one statement finds: items J, with a class, a signal and hops each.
FindsOf(J, class, semantic, hops) == {Candidate(i, class[i], semantic[i], hops[i]) : i \in J}
MayBeFound(c, J, class, semantic, hops) ==
    \A i \in J : /\ i \in Items /\ Corpus[i].kind \in AllowedKinds(c.request) /\ semantic[i] \in Int
                 /\ hops[i] \subseteq NextTo(i)
                 /\ CanReadClassification(c.request.clearance, class[i]) => i \in c.readable

LEMMA FindsOfAreSound ==
    ASSUME NEW c, NEW J, NEW class, NEW semantic, NEW hops, MayBeFound(c, J, class, semantic, hops)
    PROVE  IsFiniteSet(FindsOf(J, class, semantic, hops)) /\ \A f \in FindsOf(J, class, semantic, hops) : SoundFind(c, f)
<1> DEFINE F == FindsOf(J, class, semantic, hops)
<1>1. \A f \in F : f.item \in J /\ f.class = class[f.item] /\ f.semantic = semantic[f.item] /\ f.hops = hops[f.item]
                   /\ f = Candidate(f.item, class[f.item], semantic[f.item], hops[f.item])
      BY DEF FindsOf, Candidate
<1> HIDE DEF F
<1>2. \A f \in F : SoundFind(c, f) BY <1>1 DEF SoundFind, MayBeFound
<1>3. \A f \in F : f.item \in Items BY <1>1 DEF MayBeFound
<1>4. \A f, g \in F : f.item = g.item => f = g BY <1>1
<1>5. IsFiniteSet(Items) BY SearchAssumption
<1>6. IsFiniteSet(F) BY <1>3, <1>4, <1>5, OneForEachItem
<1> QED BY <1>2, <1>6 DEF F

\* Whatever a query of the search finds is sound.
LEMMA FindsAreSound ==
    ASSUME NEW c, c.request \in Requests, LiveCall(c, sources), SourcesOk(sources), c.at = "read", NEW read \in c.todo,
           NEW failing
    PROVE  IsFiniteSet(FoundBy(c, read, failing)) /\ \A f \in FoundBy(c, read, failing) : SoundFind(c, f)
<1> DEFINE R == ReadableIn(sources, c.request)
<1>1. \A i \in Items : /\ Corpus[i].kind \in KINDS /\ Corpus[i].doc \in Sources
                       /\ Corpus[i].signals.semantic \in Int
      BY SearchAssumption DEF SignalNames, Sources
<1>2. R \subseteq c.readable BY DEF LiveCall
<1>3. read \in {"lexical", "semantic"} \cup (AllowedKinds(c.request) \ {"document"}) BY DEF LiveCall
<1>4. \A i \in Items :
          sources[Corpus[i].doc].visible /\ CanReadClassification(c.request.clearance, ClassOf(i)) => i \in c.readable
      BY <1>2 DEF ReadableIn, ClassOf
<1> HIDE DEF R
<1>6. CASE read \in {"lexical", "semantic"} /\ "document" \notin AllowedKinds(c.request)
  <2>1. FoundBy(c, read, failing) = {} BY <1>6 DEF FoundBy
  <2> QED BY <2>1, FS_EmptySet
<1>7. CASE read = "lexical" /\ "document" \in AllowedKinds(c.request)
  <2> DEFINE J == {j \in Visible("document") : c.query \notin Wordless /\ Corpus[j].signals.lexical > 0}
             class == [i \in J |-> ClassOf(i)]
             semantic == [i \in J |-> 0]
             hops == [i \in J |-> {}]
  <2>1. FoundBy(c, read, failing) = FindsOf(J, class, semantic, hops)
        BY <1>7 DEF FoundBy, DocumentLexicalCandidates, FindsOf
  <2>2. J \in SUBSET Items /\ \A i \in J : Corpus[i].kind = "document" /\ sources[Corpus[i].doc].visible BY DEF Visible
  <2>5. MayBeFound(c, J, class, semantic, hops)
    <3> HIDE DEF J
    <3> QED BY <1>4, <1>7, <2>2 DEF MayBeFound
  <2> HIDE DEF J, class, semantic, hops
  <2> QED BY <2>1, <2>5, FindsOfAreSound
<1>8. CASE read = "semantic" /\ "document" \in AllowedKinds(c.request)
  <2> DEFINE J == {j \in Visible("document") : Corpus[j].signals.semantic > 0}
             class == [i \in J |-> ClassOf(i)]
             semantic == [i \in J |-> Corpus[i].signals.semantic]
             hops == [i \in J |-> {}]
  <2>1. FoundBy(c, read, failing) = FindsOf(J, class, semantic, hops)
        BY <1>8 DEF FoundBy, DocumentSemanticCandidates, FindsOf
  <2>2. J \in SUBSET Items /\ \A i \in J : Corpus[i].kind = "document" /\ sources[Corpus[i].doc].visible BY DEF Visible
  <2>5. MayBeFound(c, J, class, semantic, hops)
    <3> HIDE DEF J
    <3> QED BY <1>1, <1>4, <1>8, <2>2 DEF MayBeFound
  <2> HIDE DEF J, class, semantic, hops
  <2> QED BY <2>1, <2>5, FindsOfAreSound
<1>9. CASE read = "graph"
  <2> DEFINE J == Visible("graph")
             class == [i \in J |-> ClassOf(i)]
             semantic == [i \in J |-> 0]
             hops == [i \in J |-> IF i \in failing THEN {} ELSE Neighbours[Corpus[i].doc]]
  <2>1. FoundBy(c, read, failing) = FindsOf(J, class, semantic, hops) BY <1>9 DEF FoundBy, GraphCandidates, FindsOf
  <2>2. J \in SUBSET Items /\ \A i \in J : Corpus[i].kind = "graph" /\ sources[Corpus[i].doc].visible BY DEF Visible
  <2>5. MayBeFound(c, J, class, semantic, hops)
    <3> HIDE DEF J
    <3> QED BY <1>3, <1>4, <1>9, <2>2 DEF MayBeFound, NextTo
  <2> HIDE DEF J, class, semantic, hops
  <2> QED BY <2>1, <2>5, FindsOfAreSound
<1>10. CASE read = "memory"
  <2> DEFINE J == IF c.query \in Wordless THEN {} ELSE Visible("memory") \cap Readable(c.request)
             class == [i \in J |-> ClassOf(i)]
             semantic == [i \in J |-> 0]
             hops == [i \in J |-> {}]
  <2>1. FoundBy(c, read, failing) = FindsOf(J, class, semantic, hops) BY <1>10 DEF FoundBy, MemoryCandidates, FindsOf
  <2>2. J \in SUBSET Items /\ \A i \in J : Corpus[i].kind = "memory" /\ sources[Corpus[i].doc].visible BY DEF Visible
  <2>5. MayBeFound(c, J, class, semantic, hops)
    <3> HIDE DEF J
    <3> QED BY <1>3, <1>4, <1>10, <2>2 DEF MayBeFound
  <2> HIDE DEF J, class, semantic, hops
  <2> QED BY <2>1, <2>5, FindsOfAreSound
<1>11. CASE read \in {"meeting", "agent", "workflow"}
  <2> DEFINE J == Visible(read)
             class == [i \in J |-> "Internal"]
             semantic == [i \in J |-> 0]
             hops == [i \in J |-> {}]
  <2>1. FoundBy(c, read, failing) = FindsOf(J, class, semantic, hops) BY <1>11 DEF FoundBy, SimpleCandidates, FindsOf
  <2>2. J \in SUBSET Items /\ \A i \in J : Corpus[i].kind = read /\ sources[Corpus[i].doc].visible BY DEF Visible
  <2>3. \A i \in J : Corpus[i].doc \notin Classified
    <3> SUFFICES ASSUME NEW i \in J, Corpus[i].doc \in Classified PROVE FALSE OBVIOUS
    <3>1. PICK j \in Items : Corpus[j].kind \in {"document", "graph", "memory"} /\ Corpus[i].doc = Corpus[j].doc
          BY DEF Classified
    <3>2. Corpus[i].kind = Corpus[j].kind BY <2>2, <3>1, SearchAssumption
    <3> QED BY <1>11, <2>2, <3>1, <3>2
  <2>4. \A i \in J : ClassOf(i) = "Internal" BY <1>1, <2>2, <2>3 DEF ClassOf, SourcesOk
  <2>5. MayBeFound(c, J, class, semantic, hops)
    <3> HIDE DEF J
    <3> QED BY <1>3, <1>4, <1>11, <2>2, <2>4 DEF MayBeFound
  <2> HIDE DEF J, class, semantic, hops
  <2> QED BY <2>1, <2>5, FindsOfAreSound
<1>12. AllowedKinds(c.request) \subseteq KINDS BY SearchAssumption DEF AllowedKinds
<1> QED BY <1>3, <1>6, <1>7, <1>8, <1>9, <1>10, <1>11, <1>12 DEF KINDS

\* Candidates of a search: what ToRerankCandidate makes of finds.
LEMMA CandidateOf ==
    ASSUME NEW f, f.item \in Items, f.semantic \in Int, NEW conflicted
    PROVE  LET x == ToRerankCandidate(f, conflicted)
           IN x.id = f.item /\ x.signals \in [SignalNames -> Int]
<1> DEFINE sig == Corpus[f.item].signals
<1>1. sig \in [SignalNames -> Int] BY SearchAssumption
<1> HIDE DEF sig
<1>2. [sig EXCEPT !.semantic = f.semantic] \in [SignalNames -> Int] BY <1>1 DEF SignalNames
<1> QED BY <1>2 DEF ToRerankCandidate, sig

\* A search of the development store is done at once.
LEMMA DevelopmentSearchServes ==
    ASSUME NEW c, DOMAIN c = CallFields, c.request \in Requests, ReadableIn(sources, c.request) \subseteq c.readable
    PROVE  CallOk(DevelopmentSearch(c), sources) /\ DevelopmentSearch(c).at = "done"
<1> DEFINE kinds == AllowedKinds(c.request) \cap {"document", "meeting", "agent", "workflow"}
           mode == IF c.request.mode \in {"auto", "graph"} THEN "hybrid" ELSE c.request.mode
           whole(i) == i = CHOOSE j \in Items : Corpus[j].doc = Corpus[i].doc
           P == {i \in Readable(c.request) : Corpus[i].kind \in kinds /\ whole(i)}
           permitted == SetToSeq(P)
           n == Cardinality(P)
           candidate(i) ==
               ToRerankCandidate(Candidate(i, ClassOf(i), IF mode = "lexical" THEN 0 ELSE Corpus[i].signals.semantic, {}), {})
           candidates == [k \in DOMAIN permitted |-> candidate(permitted[k])]
           available == mode # "lexical"
           items == ToItems(rerank(candidates, mode, available, Cap), {})
           G == {i \in c.readable : i \in Items /\ Corpus[i].kind \in AllowedKinds(c.request)}
<1>1. c.request.mode \in Modes BY SearchAssumption
<1>2. mode \in DOMAIN WEIGHT_PRESETS BY <1>1 DEF Modes, WEIGHT_PRESETS
<1>3. P \subseteq G /\ P \in SUBSET Items BY DEF Readable, ReadableIn
<1>4. IsFiniteSet(P) BY <1>3, SearchAssumption, FS_Subset
<1> HIDE DEF P
<1>5. n \in Nat /\ DOMAIN permitted = 1..n /\ \A k \in 1..n : permitted[k] \in P BY <1>4, ListsASet
<1>6. \A i \in Items : Corpus[i].signals.semantic \in Int BY SearchAssumption DEF SignalNames
<1> HIDE DEF G
<1>7. ASSUME NEW i \in Items PROVE candidate(i).id = i /\ candidate(i).signals \in [SignalNames -> Int]
  <2> DEFINE f == Candidate(i, ClassOf(i), IF mode = "lexical" THEN 0 ELSE Corpus[i].signals.semantic, {})
  <2>1. f.item = i /\ f.semantic \in Int BY <1>6 DEF Candidate
  <2>2. candidate(i) = ToRerankCandidate(f, {}) OBVIOUS
  <2> HIDE DEF f, candidate
  <2> QED BY <2>1, <2>2, CandidateOf
<1> HIDE DEF n, permitted, candidate, mode, available
<1>8. DOMAIN candidates = 1..n
      /\ \A k \in 1..n : candidates[k].signals \in [SignalNames -> Int] /\ candidates[k].id \in G
  <2>1. DOMAIN candidates = 1..n /\ \A k \in 1..n : candidates[k] = candidate(permitted[k]) BY <1>5
  <2>2. \A k \in 1..n : permitted[k] \in Items /\ permitted[k] \in G BY <1>3, <1>5
  <2> HIDE DEF candidates
  <2> QED BY <1>7, <2>1, <2>2
<1> HIDE DEF candidates
<1>9. (\A k \in DOMAIN items : items[k].id \in G /\ items[k].kind = Corpus[items[k].id].kind /\ items[k].hops = {})
      /\ Capped(items)
  <2>1. /\ \A k \in DOMAIN items : /\ items[k].id \in G /\ items[k].kind = Corpus[items[k].id].kind
                                   /\ items[k].hops = HopsOf({}, items[k].id)
        /\ Capped(items)
        BY <1>2, <1>5, <1>8, ItemsAreRanked
  <2>2. \A i : HopsOf({}, i) = {} BY DEF HopsOf
  <2> HIDE DEF items
  <2> QED BY <2>1, <2>2
<1>10. DevelopmentSearch(c) = [[c EXCEPT !.at = "done"] EXCEPT !.items = items]
       BY DEF DevelopmentSearch, items, candidates, candidate, mode, available, permitted, P
<1> HIDE DEF items
<1> DEFINE d1 == [c EXCEPT !.at = "done"]
           d == [d1 EXCEPT !.items = items]
<1>11. Agree(c, d1, {"at"}) /\ d1.at = "done" BY CallUpdates
<1> HIDE DEF d1
<1>12. Agree(d1, d, {"items"}) /\ d.items = items BY <1>11, CallUpdates DEF Agree
<1> HIDE DEF d
<1>13. DOMAIN d = CallFields /\ d.at = "done" /\ d.request = c.request /\ d.readable = c.readable
       BY <1>11, <1>12 DEF Agree, CallFields
<1>14. Served(d) BY <1>9, <1>12, <1>13 DEF Served, G
<1>15. DevelopmentSearch(c) = d BY <1>10 DEF d, d1
<1> QED BY <1>13, <1>14, <1>15 DEF CallOk

\* What passes the gate is served.
LEMMA AnswerServes ==
    ASSUME NEW c, DOMAIN c = CallFields, c.request \in Requests, LiveCall(c, sources), NEW conflicted
    PROVE  LET permitted == SetToSeq({f \in Merged(c) : AclGate(c, f)})
               out == rerank([k \in DOMAIN permitted |-> ToRerankCandidate(permitted[k], conflicted)],
                             ResolvedMode(c), c.vector, Cap)
               d == [c EXCEPT !.at = "done", !.items = ToItems(out, c.found)]
           IN CallOk(d, sources) /\ d.at = "done"
<1> DEFINE P == {f \in Merged(c) : AclGate(c, f)}
           permitted == SetToSeq(P)
           n == Cardinality(P)
           candidates == [k \in DOMAIN permitted |-> ToRerankCandidate(permitted[k], conflicted)]
           mode == ResolvedMode(c)
           finds == c.found
           items == ToItems(rerank(candidates, mode, c.vector, Cap), finds)
           G == {i \in c.readable : i \in Items /\ Corpus[i].kind \in AllowedKinds(c.request)}
<1>1. c.request.mode \in Modes BY SearchAssumption
<1>2. mode \in DOMAIN WEIGHT_PRESETS BY <1>1 DEF ResolvedMode, Modes, WEIGHT_PRESETS
<1>3. P \in SUBSET c.found /\ \A f \in P : f.item \in G /\ f.item \in Items /\ f.semantic \in Int
      BY DEF Merged, AclGate, LiveCall, SoundFind
<1>4. IsFiniteSet(P) BY <1>3, FS_Subset DEF LiveCall
<1> HIDE DEF P, G
<1>5. n \in Nat /\ DOMAIN permitted = 1..n /\ \A k \in 1..n : permitted[k] \in P BY <1>4, ListsASet
<1> HIDE DEF n, permitted
<1>6. DOMAIN candidates = 1..n
      /\ \A k \in 1..n : candidates[k].signals \in [SignalNames -> Int] /\ candidates[k].id \in G
  <2>1. DOMAIN candidates = 1..n /\ \A k \in 1..n : candidates[k] = ToRerankCandidate(permitted[k], conflicted) BY <1>5
  <2> HIDE DEF candidates
  <2> QED BY <1>3, <1>5, <2>1, CandidateOf
\* The hops of an item are those of its finds.
<1>14. \A i : HopsOf(finds, i) \subseteq NextTo(i) BY DEF HopsOf, LiveCall, SoundFind
<1> HIDE DEF candidates, mode, finds
<1>7. (\A k \in DOMAIN items : /\ items[k].id \in G /\ items[k].kind = Corpus[items[k].id].kind
                               /\ items[k].hops \subseteq NextTo(items[k].id))
      /\ Capped(items)
  <2>1. /\ \A k \in DOMAIN items : /\ items[k].id \in G /\ items[k].kind = Corpus[items[k].id].kind
                                   /\ items[k].hops = HopsOf(finds, items[k].id)
        /\ Capped(items)
        BY <1>2, <1>5, <1>6, ItemsAreRanked
  <2> HIDE DEF items
  <2> QED BY <1>14, <2>1
<1> DEFINE d1 == [c EXCEPT !.at = "done"]
           d == [d1 EXCEPT !.items = items]
<1>8. d = [c EXCEPT !.at = "done", !.items = items] OBVIOUS
<1> HIDE DEF items
<1>9. Agree(c, d1, {"at"}) /\ d1.at = "done" BY CallUpdates
<1> HIDE DEF d1
<1>10. Agree(d1, d, {"items"}) /\ d.items = items BY <1>9, CallUpdates DEF Agree
<1> HIDE DEF d
<1>11. DOMAIN d = CallFields /\ d.at = "done" /\ d.request = c.request /\ d.readable = c.readable
       BY <1>9, <1>10 DEF Agree, CallFields
<1>12. Served(d) BY <1>7, <1>10, <1>11 DEF Served, G
<1>13. CallOk(d, sources) BY <1>11, <1>12 DEF CallOk
<1> QED BY <1>8, <1>11, <1>13 DEF items, finds, mode, candidates, permitted, P

-----------------------------------------------------------------------------
\* The invariant of the searches.
CallsOk(calls, src) == DOMAIN calls = Searches /\ \A s \in Searches : CallOk(calls[s], src)

\* A search that computes a vector is the only one of its query, and the
\* cache knows of it.
Owns(c) == c.at \in {"table", "provider"}
OneOwner(calls, inflight) ==
    \A s \in Searches : Owns(calls[s]) =>
        /\ calls[s].query \in inflight
        /\ \A t \in Searches : t # s /\ Owns(calls[t]) => calls[t].query # calls[s].query

\* Searches that have been charged and may still call the provider.
Prepaid(calls) ==
    {s \in Searches : \/ calls[s].at \in {"embed", "table", "pending"}
                      \/ calls[s].at = "provider" /\ calls[s].attempt = 0}

PaidFor(calls, p) ==
    /\ DOMAIN p = {"charges", "calls"} /\ p.calls \in Nat /\ p.charges \in Nat
    /\ External => p.calls + Cardinality(Prepaid(calls)) <= p.charges
    /\ ~External => p.calls = 0

SearchInv ==
    /\ SourcesOk(sources)
    /\ CallsOk(searching, sources)
    /\ OneOwner(searching, cache.inflight) /\ DOMAIN cache = {"memory", "table", "inflight"}
    /\ PaidFor(searching, paid)

LEMMA PrepaidCounts ==
    ASSUME NEW calls, NEW S \in SUBSET Prepaid(calls)
    PROVE  /\ IsFiniteSet(S) /\ Cardinality(S) \in Nat /\ IsFiniteSet(Prepaid(calls)) /\ Cardinality(Prepaid(calls)) \in Nat
           /\ Cardinality(S) <= Cardinality(Prepaid(calls))
           /\ \A s \in Prepaid(calls) \ S : Cardinality(S) + 1 <= Cardinality(Prepaid(calls))
<1>1. Prepaid(calls) \in SUBSET Searches BY DEF Prepaid
<1>2. IsFiniteSet(Prepaid(calls)) BY <1>1, SearchAssumption, FS_Subset
<1>3. IsFiniteSet(S) /\ Cardinality(S) <= Cardinality(Prepaid(calls))
      /\ (Cardinality(Prepaid(calls)) = Cardinality(S) => Prepaid(calls) = S)
      BY <1>2, FS_Subset
<1>4. Cardinality(S) \in Nat /\ Cardinality(Prepaid(calls)) \in Nat BY <1>2, <1>3, FS_CardinalityType
<1> QED BY <1>2, <1>3, <1>4

LEMMA PaidShrinks ==
    ASSUME NEW old, NEW new, NEW p, PaidFor(old, p), Prepaid(new) \subseteq Prepaid(old)
    PROVE  PaidFor(new, p)
<1>1. /\ Cardinality(Prepaid(new)) \in Nat /\ Cardinality(Prepaid(old)) \in Nat
      /\ Cardinality(Prepaid(new)) <= Cardinality(Prepaid(old))
      BY PrepaidCounts
<1> QED BY <1>1 DEF PaidFor

LEMMA OneChange ==
    ASSUME NEW s \in Searches, NEW d, DOMAIN searching = Searches, searching' = [searching EXCEPT ![s] = d]
    PROVE  DOMAIN searching' = Searches /\ searching'[s] = d /\ \A t \in Searches \ {s} : searching'[t] = searching[t]
OBVIOUS

\* One search goes on, to where it has nothing to do with the provider.
LEMMA OneGoesOn ==
    ASSUME SearchInv, NEW s \in Searches, NEW d, searching' = [searching EXCEPT ![s] = d], CallOk(d, sources),
           ~Owns(d), d.at \in {"embed", "pending"} => ~External, UNCHANGED <<sources, cache, paid>>
    PROVE  SearchInv'
<1>1. DOMAIN searching' = Searches /\ searching'[s] = d /\ \A t \in Searches \ {s} : searching'[t] = searching[t]
      BY OneChange DEF SearchInv, CallsOk
<1>2. CallsOk(searching', sources') BY <1>1 DEF SearchInv, CallsOk
<1>3. OneOwner(searching', cache'.inflight) BY <1>1 DEF SearchInv, OneOwner
<1>4. PaidFor(searching', paid')
  <2>1. CASE External
    <3>1. Prepaid(searching') \subseteq Prepaid(searching) BY <1>1, <2>1 DEF Prepaid, Owns
    <3> QED BY <3>1, PaidShrinks DEF SearchInv
  <2>2. CASE ~External BY <2>2 DEF SearchInv, PaidFor
  <2> QED BY <2>1, <2>2
<1> QED BY <1>2, <1>3, <1>4 DEF SearchInv

\* The task of a search ends.
LEMMA TaskEnds ==
    ASSUME SearchInv, NEW s \in Searches, NEW vector, Owns(searching[s]), EndTask(s, vector), sources' = sources
    PROVE  /\ SourcesOk(sources') /\ CallsOk(searching', sources')
           /\ OneOwner(searching', cache'.inflight) /\ DOMAIN cache' = {"memory", "table", "inflight"}
           /\ Prepaid(searching') \subseteq Prepaid(searching) \ {s}
<1> DEFINE q == searching[s].query
           why == IF vector THEN "none" ELSE "embedding_provider_unavailable"
           ends(t) == t = s \/ (searching[t].at = "pending" /\ searching[t].query = q)
<1>1. searching' = [t \in Searches |-> IF ends(t) THEN WithVector(searching[t], vector, why) ELSE searching[t]]
      BY DEF EndTask
<1>2. cache'.inflight = cache.inflight \ {q} /\ DOMAIN cache' = {"memory", "table", "inflight"} BY DEF EndTask
<1> HIDE DEF why
<1>3. ASSUME NEW t \in Searches, ends(t)
      PROVE  searching'[t].at = "read" /\ CallOk(searching'[t], sources)
  <2>1. searching[t].at \in LivePhases BY <1>3 DEF Owns, LivePhases
  <2>2. DOMAIN searching[t] = CallFields /\ searching[t].request \in Requests /\ LiveCall(searching[t], sources)
        BY <2>1, LiveCallOk DEF SearchInv, CallsOk
  <2> DEFINE d == WithVector(searching[t], vector, why)
  <2>3. Agree(searching[t], d, {"at", "vector", "degraded", "todo"}) /\ d.at = "read"
        /\ d.todo \subseteq {"lexical", "semantic"} \cup (AllowedKinds(searching[t].request) \ {"document"})
        BY <2>2, VectorIsKnown
  <2>4. searching'[t] = d BY <1>1, <1>3
  <2> HIDE DEF d
  <2>5. d.attempt \in Nat BY <2>2, <2>3 DEF Agree, CallFields, LiveCall
  <2>6. Agree(searching[t], d, {"at", "vector", "degraded", "todo", "attempt"}) /\ d.at \in LivePhases
        BY <2>3 DEF Agree, LivePhases
  <2>7. CallOk(d, sources) BY <2>2, <2>3, <2>5, <2>6, StillLive
  <2> QED BY <2>3, <2>4, <2>7
<1>4. \A t \in Searches : ~ends(t) => searching'[t] = searching[t] BY <1>1
<1>5. DOMAIN searching' = Searches BY <1>1
<1> HIDE DEF ends
<1>6. CallsOk(searching', sources') BY <1>3, <1>4, <1>5 DEF SearchInv, CallsOk
<1>7. ASSUME NEW t \in Searches, Owns(searching'[t]) PROVE searching'[t] = searching[t] /\ t # s
  <2>1. ~ends(t) BY <1>3, <1>7 DEF Owns
  <2> QED BY <1>4, <2>1 DEF ends
<1>8. OneOwner(searching', cache'.inflight) BY <1>2, <1>7 DEF SearchInv, OneOwner
<1>9. Prepaid(searching') \subseteq Prepaid(searching) \ {s}
  <2>1. ASSUME NEW t \in Prepaid(searching') PROVE t \in Prepaid(searching) \ {s}
    <3>1. t \in Searches /\ ~ends(t) BY <1>3, <2>1 DEF Prepaid
    <3> QED BY <1>4, <2>1, <3>1 DEF Prepaid, ends
  <2> QED BY <2>1
<1> QED BY <1>2, <1>6, <1>8, <1>9 DEF SearchInv

\* A call in the first of its phases, as Begin makes it.
LEMMA BeginKeeps ==
    ASSUME SearchInv, NEW s \in Searches, Begin(s)
    PROVE  SearchInv'
<1>1. PICK q \in Queries, r \in Requests :
          LET new == [at |-> "read", query |-> q, request |-> r, vector |-> FALSE, degraded |-> "none", attempt |-> 0,
                      todo |-> {}, found |-> {}, items |-> <<>>, readable |-> Readable(r)]
          IN searching' = [searching EXCEPT ![s] =
                 IF AllowedKinds(r) = {} THEN [new EXCEPT !.at = "done"]
                 ELSE IF store = "development" THEN DevelopmentSearch(new)
                 ELSE IF ~WantsSemantic(r) THEN WithVector(new, FALSE, "none")
                 ELSE [new EXCEPT !.at = IF External THEN "charge" ELSE "embed"]]
      BY DEF Begin
<1> DEFINE new == [at |-> "read", query |-> q, request |-> r, vector |-> FALSE, degraded |-> "none", attempt |-> 0,
                   todo |-> {}, found |-> {}, items |-> <<>>, readable |-> Readable(r)]
           d == IF AllowedKinds(r) = {} THEN [new EXCEPT !.at = "done"]
                ELSE IF store = "development" THEN DevelopmentSearch(new)
                ELSE IF ~WantsSemantic(r) THEN WithVector(new, FALSE, "none")
                ELSE [new EXCEPT !.at = IF External THEN "charge" ELSE "embed"]
           next == IF External THEN "charge" ELSE "embed"
<1>2. searching' = [searching EXCEPT ![s] = d] BY <1>1
<1>3. \/ d = [new EXCEPT !.at = "done"] \/ d = DevelopmentSearch(new)
      \/ d = WithVector(new, FALSE, "none") \/ d = [new EXCEPT !.at = next]
      OBVIOUS
<1>4. /\ DOMAIN new = CallFields /\ new.request = r /\ new.found = {} /\ new.items = <<>>
      /\ new.readable = Readable(r) /\ new.attempt = 0
      BY DEF CallFields
<1> HIDE DEF new, d
<1>5. ReadableIn(sources, r) = Readable(r) BY DEF ReadableIn, Readable
<1>6. UNCHANGED <<sources, cache, paid>> BY DEF Begin
<1>7. \A f \in new.found : SoundFind(new, f) BY <1>4
<1>8. IsFiniteSet(new.found) BY <1>4, FS_EmptySet
<1>9. CASE d = [new EXCEPT !.at = "done"]
  <2>1. Agree(new, d, {"at"}) /\ d.at = "done" BY <1>4, <1>9, CallUpdates DEF Agree
  <2>2. DOMAIN d = CallFields /\ d.request = r /\ d.items = <<>> BY <1>4, <2>1 DEF Agree, CallFields
  <2>3. Served(d) BY <2>2 DEF Served, Capped
  <2>4. CallOk(d, sources) /\ ~Owns(d) BY <2>1, <2>2, <2>3 DEF CallOk, Owns
  <2> QED BY <1>2, <1>6, <2>1, <2>4, OneGoesOn
<1>10. CASE d = DevelopmentSearch(new)
  <2>1. CallOk(d, sources) /\ d.at = "done" BY <1>4, <1>5, <1>10, DevelopmentSearchServes
  <2>2. ~Owns(d) BY <2>1 DEF Owns
  <2> QED BY <1>2, <1>6, <2>1, <2>2, OneGoesOn
<1>11. CASE d = WithVector(new, FALSE, "none") \/ d = [new EXCEPT !.at = next]
  <2>1. Agree(new, d, {"at", "vector", "degraded", "todo"}) /\ d.at \in {"read", "charge", "embed"}
        /\ (d.at = "embed" => ~External)
        /\ (d.at = "read" => d.todo \subseteq {"lexical", "semantic"} \cup (AllowedKinds(r) \ {"document"}))
    <3>1. CASE d = WithVector(new, FALSE, "none") BY <1>4, <3>1, VectorIsKnown
    <3>2. CASE d = [new EXCEPT !.at = next] BY <1>4, <3>2, CallUpdates DEF Agree
    <3> QED BY <1>11, <3>1, <3>2
  <2>2. /\ DOMAIN d = CallFields /\ d.request = r /\ d.found = new.found /\ d.readable = Readable(r) /\ d.attempt = 0
        BY <1>4, <2>1 DEF Agree, CallFields
  <2>3. LiveCall(d, sources) BY <1>4, <1>5, <1>8, <2>1, <2>2 DEF LiveCall
  <2>4. CallOk(d, sources) /\ ~Owns(d) BY <2>1, <2>2, <2>3 DEF CallOk, Owns, LivePhases
  <2> QED BY <1>2, <1>6, <2>1, <2>4, OneGoesOn
<1> QED BY <1>3, <1>9, <1>10, <1>11

\* A live call of which only the next phase is new.
LEMMA PhaseMoves ==
    ASSUME SearchInv, NEW s \in Searches, searching[s].at \in LivePhases,
           NEW next \in {"embed", "table", "pending", "provider"}
    PROVE  LET d == [searching[s] EXCEPT !.at = next]
           IN CallOk(d, sources) /\ d.at = next /\ d.query = searching[s].query /\ d.attempt = searching[s].attempt
<1> DEFINE c == searching[s]
           d == [c EXCEPT !.at = next]
<1>1. DOMAIN c = CallFields /\ c.request \in Requests /\ LiveCall(c, sources)
      BY LiveCallOk DEF SearchInv, CallsOk
<1> HIDE DEF c
<1>2. Agree(c, d, {"at"}) /\ d.at = next BY <1>1, CallUpdates
<1> HIDE DEF d
<1>3. d.query = c.query /\ d.attempt = c.attempt /\ c.attempt \in Nat
      BY <1>1, <1>2 DEF Agree, CallFields, LiveCall
<1>4. Agree(c, d, {"at", "vector", "degraded", "todo", "attempt"}) /\ d.at \in LivePhases /\ d.at # "read"
      BY <1>2 DEF Agree, LivePhases
<1>5. CallOk(d, sources) BY <1>1, <1>3, <1>4, StillLive
<1> QED BY <1>2, <1>3, <1>5 DEF c, d

LEMMA VectorMoves ==
    ASSUME SearchInv, NEW s \in Searches, searching[s].at \in LivePhases, NEW vector, NEW why
    PROVE  CallOk(WithVector(searching[s], vector, why), sources) /\ WithVector(searching[s], vector, why).at = "read"
<1> DEFINE c == searching[s]
           e == WithVector(c, vector, why)
<1>1. DOMAIN c = CallFields /\ c.request \in Requests /\ LiveCall(c, sources)
      BY LiveCallOk DEF SearchInv, CallsOk
<1> HIDE DEF c
<1>2. Agree(c, e, {"at", "vector", "degraded", "todo"}) /\ e.at = "read"
      /\ e.todo \subseteq {"lexical", "semantic"} \cup (AllowedKinds(c.request) \ {"document"})
      BY <1>1, VectorIsKnown
<1> HIDE DEF e
<1>3. e.attempt = c.attempt /\ c.attempt \in Nat BY <1>1, <1>2 DEF Agree, CallFields, LiveCall
<1>4. Agree(c, e, {"at", "vector", "degraded", "todo", "attempt"}) /\ e.at \in LivePhases
      BY <1>2 DEF Agree, LivePhases
<1>5. CallOk(e, sources) BY <1>1, <1>2, <1>3, <1>4, StillLive
<1> QED BY <1>2, <1>5 DEF c, e

LEMMA ChargeKeeps ==
    ASSUME SearchInv, NEW s \in Searches, Charge(s)
    PROVE  SearchInv'
<1>1. searching[s].at = "charge" /\ searching[s].at \in LivePhases /\ UNCHANGED <<sources, cache>> BY DEF Charge, LivePhases
<1>2. CASE paid' = [paid EXCEPT !.charges = @ + 1] /\ searching' = [searching EXCEPT ![s].at = "embed"]
  <2> DEFINE d == [searching[s] EXCEPT !.at = "embed"]
  <2>1. searching' = [searching EXCEPT ![s] = d] BY <1>2
  <2>2. CallOk(d, sources) /\ d.at = "embed" BY <1>1, PhaseMoves
  <2> HIDE DEF d
  <2>3. DOMAIN searching' = Searches /\ searching'[s] = d /\ \A t \in Searches \ {s} : searching'[t] = searching[t]
        BY <2>1, OneChange DEF SearchInv, CallsOk
  <2>4. CallsOk(searching', sources') BY <1>1, <2>2, <2>3 DEF SearchInv, CallsOk
  <2>5. OneOwner(searching', cache'.inflight) BY <1>1, <2>2, <2>3 DEF SearchInv, OneOwner, Owns
  <2>6. paid'.charges = paid.charges + 1 /\ paid'.calls = paid.calls /\ DOMAIN paid' = {"charges", "calls"}
        BY <1>2 DEF SearchInv, PaidFor
  <2>7. /\ Cardinality(Prepaid(searching)) \in Nat /\ Cardinality(Prepaid(searching')) \in Nat
        /\ Cardinality(Prepaid(searching')) <= Cardinality(Prepaid(searching)) + 1
    <3>1. Prepaid(searching') \subseteq Prepaid(searching) \cup {s} BY <1>1, <2>2, <2>3 DEF Prepaid
    <3>2. IsFiniteSet(Prepaid(searching)) /\ Cardinality(Prepaid(searching)) \in Nat BY PrepaidCounts
    <3> DEFINE more == Prepaid(searching) \cup {s}
    <3>3. IsFiniteSet(more) /\ Cardinality(more) <= Cardinality(Prepaid(searching)) + 1
      <4>1. /\ IsFiniteSet(more)
            /\ Cardinality(more) = IF s \in Prepaid(searching) THEN Cardinality(Prepaid(searching)) ELSE Cardinality(Prepaid(searching)) + 1
            BY <3>2, FS_AddElement
      <4> HIDE DEF more
      <4> QED BY <3>2, <4>1
    <3>4. Prepaid(searching') \in SUBSET more BY <3>1
    <3> HIDE DEF more
    <3>5. Cardinality(Prepaid(searching')) <= Cardinality(more) /\ IsFiniteSet(Prepaid(searching')) BY <3>3, <3>4, FS_Subset
    <3>6. Cardinality(more) \in Nat /\ Cardinality(Prepaid(searching')) \in Nat BY <3>3, <3>5, FS_CardinalityType
    <3> QED BY <3>2, <3>3, <3>5, <3>6
  <2>8. PaidFor(searching', paid') BY <2>6, <2>7 DEF SearchInv, PaidFor
  <2> QED BY <1>1, <2>4, <2>5, <2>8 DEF SearchInv
<1>3. CASE UNCHANGED paid /\ searching' = [searching EXCEPT ![s] = WithVector(@, FALSE, "embedding_budget_exceeded")]
  <2> DEFINE d == WithVector(searching[s], FALSE, "embedding_budget_exceeded")
  <2>1. searching' = [searching EXCEPT ![s] = d] BY <1>3
  <2>2. CallOk(d, sources) /\ d.at = "read" BY <1>1, VectorMoves
  <2> HIDE DEF d
  <2>3. ~Owns(d) BY <2>2 DEF Owns
  <2> QED BY <1>1, <1>3, <2>1, <2>2, <2>3, OneGoesOn
<1>4. CASE UNCHANGED paid /\ searching' = [searching EXCEPT ![s] = Failed]
  <2>1. CallOk(Failed, sources) /\ ~Owns(Failed) /\ Failed.at = "failed" BY DEF CallOk, Owns, Failed
  <2> QED BY <1>1, <1>4, <2>1, OneGoesOn
<1> QED BY <1>2, <1>3, <1>4 DEF Charge

LEMMA EmbedKeeps ==
    ASSUME SearchInv, NEW s \in Searches, Embed(s)
    PROVE  SearchInv'
<1> DEFINE q == searching[s].query
<1>1. searching[s].at = "embed" /\ searching[s].at \in LivePhases /\ UNCHANGED <<sources, paid>> BY DEF Embed, LivePhases
<1>2. CASE Contains(cache.memory, q)
  <2> DEFINE d == WithVector(searching[s], TRUE, "none")
  <2>1. searching' = [searching EXCEPT ![s] = d] /\ UNCHANGED cache BY <1>2 DEF Embed
  <2>2. CallOk(d, sources) /\ d.at = "read" BY <1>1, VectorMoves
  <2> HIDE DEF d
  <2>3. ~Owns(d) BY <2>2 DEF Owns
  <2> QED BY <1>1, <2>1, <2>2, <2>3, OneGoesOn
<1>3. CASE ~Contains(cache.memory, q)
  <2> DEFINE next == IF q \in cache.inflight THEN "pending" ELSE "table"
             d == [searching[s] EXCEPT !.at = next]
  <2>1. searching' = [searching EXCEPT ![s] = d] /\ cache' = [cache EXCEPT !.inflight = @ \cup {q}]
        BY <1>3 DEF Embed
  <2>2. next \in {"embed", "table", "pending", "provider"} OBVIOUS
  <2>3. q \notin cache.inflight \/ next = "pending" OBVIOUS
  <2>4. next \in {"pending", "table"} OBVIOUS
  <2> HIDE DEF next
  <2>5. CallOk(d, sources) /\ d.at = next /\ d.query = q /\ d.attempt = searching[s].attempt BY <1>1, <2>2, PhaseMoves
  <2> HIDE DEF d
  <2>6. DOMAIN searching' = Searches /\ searching'[s] = d /\ \A t \in Searches \ {s} : searching'[t] = searching[t]
        BY <2>1, OneChange DEF SearchInv, CallsOk
  <2>7. CallsOk(searching', sources') BY <1>1, <2>5, <2>6 DEF SearchInv, CallsOk
  <2>8. cache'.inflight = cache.inflight \cup {q} /\ DOMAIN cache' = {"memory", "table", "inflight"}
        BY <2>1 DEF SearchInv
  <2>9. OneOwner(searching', cache'.inflight) BY <2>3, <2>4, <2>5, <2>6, <2>8 DEF SearchInv, OneOwner, Owns
  <2>10. Prepaid(searching') \subseteq Prepaid(searching) BY <1>1, <2>6 DEF Prepaid
  <2>11. PaidFor(searching', paid') BY <1>1, <2>10, PaidShrinks DEF SearchInv
  <2> QED BY <1>1, <2>7, <2>8, <2>9, <2>11 DEF SearchInv
<1> QED BY <1>2, <1>3

LEMMA LookUpKeeps ==
    ASSUME SearchInv, NEW s \in Searches, LookUp(s)
    PROVE  SearchInv'
<1>1. searching[s].at = "table" /\ searching[s].at \in LivePhases /\ UNCHANGED <<sources, paid>> BY DEF LookUp, LivePhases
<1>2. CASE EndTask(s, TRUE)
  <2>1. Owns(searching[s]) BY <1>1 DEF Owns
  <2>2. /\ SourcesOk(sources') /\ CallsOk(searching', sources')
        /\ OneOwner(searching', cache'.inflight) /\ DOMAIN cache' = {"memory", "table", "inflight"}
        /\ Prepaid(searching') \subseteq Prepaid(searching) \ {s}
        BY <1>1, <1>2, <2>1, TaskEnds
  <2>3. PaidFor(searching', paid') BY <1>1, <2>2, PaidShrinks DEF SearchInv
  <2> QED BY <2>2, <2>3 DEF SearchInv
<1>3. CASE searching' = [searching EXCEPT ![s].at = "provider"] /\ UNCHANGED cache
  <2> DEFINE d == [searching[s] EXCEPT !.at = "provider"]
  <2>1. searching' = [searching EXCEPT ![s] = d] BY <1>3
  <2>2. CallOk(d, sources) /\ d.at = "provider" /\ d.query = searching[s].query /\ d.attempt = searching[s].attempt
        BY <1>1, PhaseMoves
  <2> HIDE DEF d
  <2>3. DOMAIN searching' = Searches /\ searching'[s] = d /\ \A t \in Searches \ {s} : searching'[t] = searching[t]
        BY <2>1, OneChange DEF SearchInv, CallsOk
  <2>4. CallsOk(searching', sources') BY <1>1, <2>2, <2>3 DEF SearchInv, CallsOk
  <2>5. OneOwner(searching', cache'.inflight) BY <1>1, <1>3, <2>2, <2>3 DEF SearchInv, OneOwner, Owns
  <2>6. Prepaid(searching') \subseteq Prepaid(searching) BY <1>1, <2>3 DEF Prepaid
  <2>7. PaidFor(searching', paid') BY <1>1, <2>6, PaidShrinks DEF SearchInv
  <2> QED BY <1>1, <1>3, <2>4, <2>5, <2>7 DEF SearchInv
<1> QED BY <1>2, <1>3 DEF LookUp

\* A call to an external provider was charged: the first attempt uses it up.
LEMMA CallsWereCharged ==
    ASSUME SearchInv, NEW s \in Searches, searching[s].at = "provider",
           paid' = [paid EXCEPT !.calls = @ + (IF External /\ searching[s].attempt = 0 THEN 1 ELSE 0)],
           Prepaid(searching') \subseteq Prepaid(searching) \ {s}
    PROVE  PaidFor(searching', paid')
<1> DEFINE more == IF External /\ searching[s].attempt = 0 THEN 1 ELSE 0
<1>1. /\ DOMAIN paid' = {"charges", "calls"} /\ paid'.calls = paid.calls + more /\ paid'.charges = paid.charges
      /\ paid.calls \in Nat /\ paid.charges \in Nat /\ more \in Nat
      BY DEF SearchInv, PaidFor
<1>2. CASE External /\ searching[s].attempt = 0
  <2>1. s \in Prepaid(searching) BY <1>2 DEF Prepaid
  <2>2. /\ Cardinality(Prepaid(searching')) \in Nat /\ Cardinality(Prepaid(searching)) \in Nat
        /\ Cardinality(Prepaid(searching')) + 1 <= Cardinality(Prepaid(searching))
        BY <2>1, PrepaidCounts
  <2>3. paid.calls + Cardinality(Prepaid(searching)) <= paid.charges BY <1>2 DEF SearchInv, PaidFor
  <2>4. more = 1 BY <1>2
  <2> HIDE DEF more
  <2>5. paid'.calls + Cardinality(Prepaid(searching')) <= paid'.charges BY <1>1, <2>2, <2>3, <2>4
  <2> QED BY <1>1, <1>2, <2>5 DEF PaidFor
<1>3. CASE ~(External /\ searching[s].attempt = 0)
  <2>1. paid'.calls = paid.calls /\ paid'.charges = paid.charges BY <1>1, <1>3
  <2>2. PaidFor(searching', paid) BY PaidShrinks DEF SearchInv
  <2> QED BY <1>1, <2>1, <2>2 DEF PaidFor
<1> QED BY <1>2, <1>3

LEMMA AskProviderKeeps ==
    ASSUME SearchInv, NEW s \in Searches, AskProvider(s)
    PROVE  SearchInv'
<1>1. searching[s].at = "provider" /\ searching[s].at \in LivePhases /\ Owns(searching[s]) /\ UNCHANGED sources
      BY DEF AskProvider, LivePhases, Owns
<1>2. paid' = [paid EXCEPT !.calls = @ + (IF External /\ searching[s].attempt = 0 THEN 1 ELSE 0)] BY DEF AskProvider
<1>3. ASSUME NEW vector, EndTask(s, vector) PROVE SearchInv'
  <2>1. /\ SourcesOk(sources') /\ CallsOk(searching', sources')
        /\ OneOwner(searching', cache'.inflight) /\ DOMAIN cache' = {"memory", "table", "inflight"}
        /\ Prepaid(searching') \subseteq Prepaid(searching) \ {s}
        BY <1>1, <1>3, TaskEnds
  <2>2. PaidFor(searching', paid') BY <1>1, <1>2, <2>1, CallsWereCharged
  <2> QED BY <2>1, <2>2 DEF SearchInv
<1>4. CASE searching' = [searching EXCEPT ![s].attempt = @ + 1] /\ UNCHANGED cache
  <2> DEFINE c == searching[s]
             v == c.attempt + 1
             d == [c EXCEPT !.attempt = v]
  <2>1. searching' = [searching EXCEPT ![s] = d] BY <1>4
  <2>2. DOMAIN c = CallFields /\ c.request \in Requests /\ LiveCall(c, sources)
        BY <1>1, LiveCallOk DEF SearchInv, CallsOk
  <2> HIDE DEF c, v
  <2>3. Agree(c, d, {"attempt"}) /\ d.attempt = v BY <2>2, CallUpdates
  <2>4. c.at = "provider" /\ c.attempt \in Nat /\ v \in Nat /\ v # 0 BY <1>1, <2>2 DEF LiveCall, c, v
  <2> HIDE DEF d
  <2>5. d.at = "provider" /\ d.query = c.query BY <2>3, <2>4 DEF Agree, CallFields
  <2>6. CallOk(d, sources)
    <3>1. Agree(c, d, {"at", "vector", "degraded", "todo", "attempt"}) /\ d.at \in LivePhases
          BY <2>3, <2>5 DEF Agree, LivePhases
    <3> QED BY <2>2, <2>3, <2>4, <2>5, <3>1, StillLive
  <2>7. DOMAIN searching' = Searches /\ searching'[s] = d /\ \A t \in Searches \ {s} : searching'[t] = searching[t]
        BY <2>1, OneChange DEF SearchInv, CallsOk
  <2>8. CallsOk(searching', sources') BY <1>1, <2>6, <2>7 DEF SearchInv, CallsOk
  <2>9. OneOwner(searching', cache'.inflight) BY <1>1, <1>4, <2>5, <2>7 DEF SearchInv, OneOwner, Owns, c
  <2>10. Prepaid(searching') \subseteq Prepaid(searching) \ {s} BY <2>3, <2>4, <2>5, <2>7 DEF Prepaid
  <2>11. PaidFor(searching', paid') BY <1>1, <1>2, <2>10, CallsWereCharged
  <2> QED BY <1>1, <1>4, <2>8, <2>9, <2>11 DEF SearchInv
<1> QED BY <1>3, <1>4 DEF AskProvider

LEMMA ReadKeeps ==
    ASSUME SearchInv, NEW s \in Searches, Read(s)
    PROVE  SearchInv'
<1> DEFINE c == searching[s]
<1>1. c.at = "read" /\ c.at \in LivePhases /\ UNCHANGED <<sources, cache, paid>> BY DEF Read, LivePhases
<1>2. DOMAIN c = CallFields /\ c.request \in Requests /\ LiveCall(c, sources)
      BY <1>1, LiveCallOk DEF SearchInv, CallsOk
<1> DEFINE went(read, failing, new) ==
               \/ /\ new \in SUBSET FoundBy(c, read, failing)
                  /\ searching' = [searching EXCEPT ![s].todo = @ \ {read}, ![s].found = @ \cup new]
               \/ read \in {"lexical", "semantic"} /\ searching' = [searching EXCEPT ![s] = Failed]
               \/ read \notin {"lexical", "semantic"} /\ searching' = [searching EXCEPT ![s].todo = @ \ {read}]
<1>15. PICK read \in c.todo : \E failing, new : went(read, failing, new) BY DEF Read, Limited
<1>3. PICK failing, new : went(read, failing, new) BY <1>15
<1>4. ASSUME NEW d, searching' = [searching EXCEPT ![s] = d], CallOk(d, sources), d.at \in {"read", "failed"} PROVE SearchInv'
  <2>1. ~Owns(d) BY <1>4 DEF Owns
  <2> QED BY <1>1, <1>4, <2>1, OneGoesOn
<1> DEFINE rest == c.todo \ {read}
           more == new \cap FoundBy(c, read, failing)
           finds == c.found \cup more
           d1 == [c EXCEPT !.todo = rest]
           d2 == [d1 EXCEPT !.found = finds]
<1>5. \/ searching' = [searching EXCEPT ![s] = d2]
      \/ searching' = [searching EXCEPT ![s] = Failed]
      \/ searching' = [searching EXCEPT ![s] = d1]
  <2>1. CASE /\ new \in SUBSET FoundBy(c, read, failing)
             /\ searching' = [searching EXCEPT ![s].todo = @ \ {read}, ![s].found = @ \cup new]
    <3>1. d1.found = c.found BY <1>2 DEF CallFields
    <3>2. searching[s] = c OBVIOUS
    <3> HIDE DEF c
    <3>3. s \in DOMAIN searching BY DEF SearchInv, CallsOk
    <3>4. searching' = [searching EXCEPT ![s] = [[c EXCEPT !.todo = c.todo \ {read}] EXCEPT !.found = [c EXCEPT !.todo = c.todo \ {read}].found \cup new]]
          BY <2>1, <3>2, <3>3
    <3>5. more = new BY <2>1
    <3> HIDE DEF more
    <3> QED BY <3>1, <3>4, <3>5
  <2>2. CASE searching' = [searching EXCEPT ![s].todo = @ \ {read}] BY <2>2
  <2> QED BY <1>3, <2>1, <2>2
<1>6. IsFiniteSet(more) /\ \A f \in more : SoundFind(c, f)
  <2>1. IsFiniteSet(FoundBy(c, read, failing)) /\ \A f \in FoundBy(c, read, failing) : SoundFind(c, f)
        BY <1>1, <1>2, FindsAreSound DEF SearchInv
  <2> QED BY <2>1, FS_Subset
<1> HIDE DEF c, more
<1>7. rest \subseteq {"lexical", "semantic"} \cup (AllowedKinds(c.request) \ {"document"}) BY <1>1, <1>2 DEF LiveCall
<1>8. IsFiniteSet(finds) /\ \A f \in finds : SoundFind(c, f)
  <2>1. IsFiniteSet(c.found) /\ \A f \in c.found : SoundFind(c, f) BY <1>2 DEF LiveCall
  <2>2. IsFiniteSet(finds) BY <1>6, <2>1, FS_Union
  <2> QED BY <1>6, <2>1, <2>2
<1> HIDE DEF rest, finds
<1>9. Agree(c, d1, {"todo"}) /\ d1.todo = rest BY <1>2, CallUpdates
<1> HIDE DEF d1
<1>10. Agree(d1, d2, {"found"}) /\ d2.found = finds BY <1>9, CallUpdates DEF Agree
<1> HIDE DEF d2
<1>11. ASSUME NEW d, Agree(c, d, {"todo", "found"}), d.todo = rest, d.found = c.found \/ d.found = finds
       PROVE  CallOk(d, sources) /\ d.at = "read"
  <2>1. /\ DOMAIN d = CallFields /\ d.at = "read" /\ d.request = c.request /\ d.readable = c.readable
        /\ d.attempt = c.attempt
        BY <1>1, <1>11 DEF Agree, CallFields
  <2>2. \A f : SoundFind(c, f) <=> SoundFind(d, f) BY <2>1 DEF SoundFind
  <2>3. LiveCall(d, sources) BY <1>2, <1>7, <1>8, <1>11, <2>1, <2>2 DEF LiveCall
  <2> QED BY <1>2, <2>1, <2>3 DEF CallOk, LivePhases
<1>12. CallOk(d1, sources) /\ d1.at = "read"
  <2>1. Agree(c, d1, {"todo", "found"}) /\ d1.found = c.found BY <1>9 DEF Agree, CallFields
  <2> QED BY <1>9, <1>11, <2>1
<1>13. CallOk(d2, sources) /\ d2.at = "read"
  <2>1. Agree(c, d2, {"todo", "found"}) /\ d2.todo = rest BY <1>9, <1>10 DEF Agree, CallFields
  <2> QED BY <1>10, <1>11, <2>1
<1>14. CallOk(Failed, sources) /\ Failed.at = "failed" BY DEF CallOk, Failed
<1> QED BY <1>4, <1>5, <1>12, <1>13, <1>14

LEMMA AnswerKeeps ==
    ASSUME SearchInv, NEW s \in Searches, Answer(s)
    PROVE  SearchInv'
<1> DEFINE c == searching[s]
           permitted == SetToSeq({f \in Merged(c) : AclGate(c, f)})
           out(conflicted) == rerank([k \in DOMAIN permitted |-> ToRerankCandidate(permitted[k], conflicted)],
                                     ResolvedMode(c), c.vector, Cap)
           d(conflicted) == [c EXCEPT !.at = "done", !.items = ToItems(out(conflicted), c.found)]
<1>1. c.at = "read" /\ c.at \in LivePhases /\ UNCHANGED <<sources, cache, paid>> BY DEF Answer, LivePhases
<1>2. DOMAIN c = CallFields /\ c.request \in Requests /\ LiveCall(c, sources)
      BY <1>1, LiveCallOk DEF SearchInv, CallsOk
<1>3. PICK conflicted : searching' = [searching EXCEPT ![s] = d(conflicted)] BY DEF Answer
<1>4. CallOk(d(conflicted), sources) /\ d(conflicted).at = "done" BY <1>2, AnswerServes
<1> DEFINE e == d(conflicted)
<1>5. searching' = [searching EXCEPT ![s] = e] /\ CallOk(e, sources) /\ e.at = "done" BY <1>3, <1>4
<1> HIDE DEF e
<1>6. ~Owns(e) BY <1>5 DEF Owns
<1> QED BY <1>1, <1>5, <1>6, OneGoesOn

\* The indexing processor adds to the cache in memory only.
LEMMA EmbedBatchKeeps ==
    ASSUME SearchInv, EmbedBatch
    PROVE  SearchInv'
<1>1. UNCHANGED <<sources, searching, paid>> /\ cache'.inflight = cache.inflight
      /\ DOMAIN cache' = {"memory", "table", "inflight"}
      BY DEF EmbedBatch, SearchInv
<1> QED BY <1>1 DEF SearchInv

\* Whatever others change, what a search that goes on may read is noted.
LEMMA ChangeKeeps ==
    ASSUME SearchInv, Change
    PROVE  SearchInv'
<1>1. UNCHANGED <<cache, paid>> BY DEF Change
<1>2. SourcesOk(sources')
  <2>1. PICK e \in Sources :
            \/ sources' = [sources EXCEPT ![e].visible = ~@]
            \/ e \in Classified /\ \E class \in Classes : sources' = [sources EXCEPT ![e].class = class]
        BY DEF Change
  <2>2. DOMAIN sources' = Sources /\ \A d \in Sources \ {e} : sources'[d] = sources[d]
        BY <2>1 DEF SearchInv, SourcesOk
  <2>3. DOMAIN sources'[e] = {"visible", "class"} /\ (e \notin Classified => sources'[e].class = sources[e].class)
        BY <2>1 DEF SearchInv, SourcesOk
  <2> QED BY <2>2, <2>3 DEF SearchInv, SourcesOk
<1> DEFINE now(s) == {i \in Items : /\ sources'[Corpus[i].doc].visible
                                    /\ CanReadClassification(searching[s].request.clearance, sources'[Corpus[i].doc].class)}
           more(s) == searching[s].readable \cup now(s)
           rests(s) == searching[s].at \in {"none", "failed", "done"}
<1>3. DOMAIN searching' = Searches
      /\ \A s \in Searches : searching'[s] = IF rests(s) THEN searching[s] ELSE [searching[s] EXCEPT !.readable = more(s)]
      BY DEF Change
<1>4. ASSUME NEW s \in Searches, ~rests(s)
      PROVE  CallOk(searching'[s], sources') /\ searching'[s].at = searching[s].at
             /\ searching'[s].query = searching[s].query /\ searching'[s].attempt = searching[s].attempt
  <2> DEFINE c == searching[s]
             d == [c EXCEPT !.readable = more(s)]
  <2>1. CallOk(c, sources) BY DEF SearchInv, CallsOk
  <2>2. c.at \in LivePhases /\ DOMAIN c = CallFields /\ c.request \in Requests /\ LiveCall(c, sources)
        BY <1>4, <2>1 DEF CallOk, NoCall, Failed
  <2>3. searching'[s] = d BY <1>3, <1>4
  <2>4. ReadableIn(sources', c.request) = now(s) BY DEF ReadableIn
  <2>5. c.readable \subseteq more(s) /\ ReadableIn(sources', c.request) \subseteq more(s) BY <2>4
  <2> HIDE DEF c, more, now
  <2>6. Agree(c, d, {"readable"}) /\ d.readable = more(s) BY <2>2, CallUpdates
  <2> HIDE DEF d
  <2>7. /\ DOMAIN d = CallFields /\ d.at = c.at /\ d.query = c.query /\ d.attempt = c.attempt
        /\ d.request = c.request /\ d.found = c.found /\ d.todo = c.todo
        BY <2>6 DEF Agree, CallFields
  <2>8. \A f : SoundFind(c, f) => SoundFind(d, f) BY <2>5, <2>6, <2>7 DEF SoundFind
  <2>9. LiveCall(d, sources') BY <2>2, <2>5, <2>6, <2>7, <2>8 DEF LiveCall
  <2>10. CallOk(d, sources') BY <2>2, <2>7, <2>9 DEF CallOk
  <2> QED BY <2>3, <2>7, <2>10 DEF c
<1>5. ASSUME NEW s \in Searches, rests(s)
      PROVE  CallOk(searching'[s], sources') /\ searching'[s] = searching[s]
  <2>1. CallOk(searching[s], sources) BY DEF SearchInv, CallsOk
  <2>2. CallOk(searching[s], sources') BY <1>5, <2>1 DEF CallOk, LivePhases
  <2> QED BY <1>3, <1>5, <2>2
<1> HIDE DEF rests
<1>6. CallsOk(searching', sources') BY <1>3, <1>4, <1>5 DEF CallsOk
<1>7. \A s \in Searches : searching'[s].at = searching[s].at
      /\ (searching'[s] = searching[s] \/ (searching'[s].query = searching[s].query /\ searching'[s].attempt = searching[s].attempt))
      BY <1>4, <1>5
<1>8. \A s \in Searches : searching'[s].query = searching[s].query /\ searching'[s].attempt = searching[s].attempt
      BY <1>4, <1>5
<1>9. OneOwner(searching', cache'.inflight) BY <1>1, <1>7, <1>8 DEF SearchInv, OneOwner, Owns
<1>10. Prepaid(searching') = Prepaid(searching) BY <1>7, <1>8 DEF Prepaid
<1>11. PaidFor(searching', paid') BY <1>1, <1>10, PaidShrinks DEF SearchInv
<1> QED BY <1>1, <1>2, <1>6, <1>9, <1>11 DEF SearchInv

LEMMA SearchBegins == SearchInit => SearchInv
<1> SUFFICES ASSUME SearchInit PROVE SearchInv OBVIOUS
<1>1. SourcesOk(sources) BY DEF SearchInit, SourcesOk
<1>2. CallsOk(searching, sources) BY DEF SearchInit, CallsOk, CallOk
<1>3. OneOwner(searching, cache.inflight) /\ DOMAIN cache = {"memory", "table", "inflight"}
      BY DEF SearchInit, OneOwner, Owns, NoCall
<1>4. PaidFor(searching, paid)
  <2>1. Prepaid(searching) = {} BY DEF SearchInit, Prepaid, NoCall
  <2>2. Cardinality(Prepaid(searching)) = 0 BY <2>1, FS_EmptySet
  <2> QED BY <2>2 DEF SearchInit, PaidFor
<1> QED BY <1>1, <1>2, <1>3, <1>4 DEF SearchInv

LEMMA SearchGoesOn == SearchInv /\ [SearchNext]_searchVars => SearchInv'
<1> SUFFICES ASSUME SearchInv, [SearchNext]_searchVars PROVE SearchInv' OBVIOUS
<1>1. CASE \E s \in Searches :
               Begin(s) \/ Charge(s) \/ Embed(s) \/ LookUp(s) \/ AskProvider(s) \/ Read(s) \/ Answer(s)
      BY <1>1, BeginKeeps, ChargeKeeps, EmbedKeeps, LookUpKeeps, AskProviderKeeps, ReadKeeps, AnswerKeeps
<1>2. CASE EmbedBatch BY <1>2, EmbedBatchKeeps
<1>3. CASE Change BY <1>3, ChangeKeeps
<1>4. CASE Analyze \/ Persist \/ UNCHANGED searchVars
  <2>1. UNCHANGED <<sources, cache, searching, paid>> BY <1>4 DEF Analyze, Persist, searchVars
  <2> QED BY <2>1 DEF SearchInv
<1> QED BY <1>1, <1>2, <1>3, <1>4 DEF SearchNext

LEMMA SearchAlways == SearchSpec => []SearchInv
<1> QED BY SearchBegins, SearchGoesOn, PTL DEF SearchSpec

\* Whatever is archived or classified anew while a search runs, it returns
\* items of kinds the user may see, each readable by that user at some time
\* since it began, and names besides only what is next to a graph node, for
\* every corpus and any number of searches (search.ts 281-285 and 482-511).
THEOREM ServedWasReadable == SearchSpec => []ServesReadable
<1>1. SearchInv => ServesReadable
      BY DEF SearchInv, CallsOk, CallOk, ServesReadable, Answered, Served, NoCall, Failed, LivePhases
<1> QED BY <1>1, SearchAlways, PTL

\* For any number of candidates and any cap, a result comes after a weaker
\* one only when it is over the cap of its document, and the chunks of a
\* document keep their order (rerank.ts 172-183).
THEOREM OnlyCapsReorder == SearchSpec => []OnlyCappedLosePlaces
<1>1. SearchInv => OnlyCappedLosePlaces
  <2> SUFFICES ASSUME SearchInv, NEW s \in Searches, Answered(s) PROVE Capped(searching[s].items)
      BY DEF OnlyCappedLosePlaces, Capped
  <2> QED BY DEF SearchInv, CallsOk, CallOk, Answered, Served, NoCall, Failed, LivePhases
<1> QED BY <1>1, SearchAlways, PTL

\* Searches that ask for one vector at a time share one call to the provider,
\* and no call is made that was not charged before, however many searches
\* overlap and however often a call is tried (embeddings.ts 204-238,
\* search.ts 448-453).
THEOREM OneChargedCall == SearchSpec => []EmbedsOnce
<1>1. SearchInv => EmbedsOnce
  <2> SUFFICES ASSUME SearchInv PROVE EmbedsOnce OBVIOUS
  <2>1. \A s, t \in Searches :
            s # t /\ {searching[s].at, searching[t].at} \subseteq {"table", "provider"} => searching[s].query # searching[t].query
        BY DEF SearchInv, OneOwner, Owns
  <2>2. Cardinality(Prepaid(searching)) \in Nat BY PrepaidCounts
  <2>3. paid.calls <= paid.charges BY <2>2, SearchAssumption DEF SearchInv, PaidFor
  <2> QED BY <2>1, <2>3 DEF EmbedsOnce
<1> QED BY <1>1, SearchAlways, PTL

-----------------------------------------------------------------------------
\* The graph.

\* Every set of numbers that is not empty has a least one: what an induction
\* over a path needs.
LEMMA LeastOf == ASSUME NEW T \in SUBSET Nat, T # {} PROVE \E x \in T : \A y \in T : x <= y
<1>1. IsWellFoundedOn(OpToRel(<, Nat), Nat) BY NatLessThanWellFounded
<1>2. PICK x \in T : \A y \in T : ~(<<y, x>> \in OpToRel(<, Nat)) BY <1>1, WFMin
<1>3. \A y \in T : y < x => <<y, x>> \in OpToRel(<, Nat) BY DEF OpToRel
<1>4. \A y \in T : ~(y < x) BY <1>2, <1>3
<1> QED BY <1>4

Paths(S, edges, k) ==
    {q \in [0..k -> Entities] : q[0] \in S /\ \A i \in 1..k : q[i] = q[i - 1] \/ Linked(edges, q[i - 1], q[i])}

LEMMA NearPath ==
    ASSUME NEW S, NEW edges, NEW k \in Nat, NEW e
    PROVE  e \in Near(S, edges, k) <=> \E p \in Paths(S, edges, k) : p[k] = e
BY DEF Near, Paths

\* Nothing but the seeds is near in no steps, and they are near in any.
LEMMA NearSeeds ==
    ASSUME NEW S \in SUBSET Entities, NEW edges
    PROVE  Near(S, edges, 0) \subseteq S /\ \A k \in Nat : S \subseteq Near(S, edges, k)
<1>1. ASSUME NEW e \in Near(S, edges, 0) PROVE e \in S
  <2>1. PICK p \in Paths(S, edges, 0) : p[0] = e BY <1>1, NearPath
  <2> QED BY <2>1 DEF Paths
<1>2. ASSUME NEW k \in Nat, NEW e \in S PROVE e \in Near(S, edges, k)
  <2> DEFINE p == [i \in 0..k |-> e]
  <2>1. p \in [0..k -> Entities] /\ p[0] = e /\ p[k] = e /\ \A i \in 1..k : p[i] = p[i - 1] OBVIOUS
  <2> HIDE DEF p
  <2>2. p \in Paths(S, edges, k) BY <2>1 DEF Paths
  <2> QED BY <2>1, <2>2, NearPath
<1> QED BY <1>1, <1>2

\* One step further.
LEMMA NearExtends ==
    ASSUME NEW S, NEW edges, NEW k \in Nat, NEW x \in Near(S, edges, k), NEW e \in Entities, x = e \/ Linked(edges, x, e)
    PROVE  e \in Near(S, edges, k + 1)
<1>1. PICK q \in Paths(S, edges, k) : q[k] = x BY NearPath
<1> DEFINE p == [i \in 0..(k + 1) |-> IF i = k + 1 THEN e ELSE q[i]]
<1>2. q \in [0..k -> Entities] /\ q[0] \in S BY DEF Paths
<1>3. p[k + 1] = e /\ \A i \in 0..k : p[i] = q[i] OBVIOUS
<1>4. p \in [0..(k + 1) -> Entities]
  <2>1. \A i \in 0..(k + 1) : i # k + 1 => i \in 0..k OBVIOUS
  <2> QED BY <1>2, <2>1
<1> HIDE DEF p
<1>5. ASSUME NEW i \in 1..(k + 1) PROVE p[i] = p[i - 1] \/ Linked(edges, p[i - 1], p[i])
  <2>1. CASE i = k + 1
    <3>1. i - 1 = k /\ k \in 0..k BY <2>1
    <3>2. p[i] = e /\ p[i - 1] = x BY <1>1, <1>3, <2>1, <3>1
    <3> QED BY <3>2
  <2>2. CASE i # k + 1
    <3>1. i \in 1..k /\ i \in 0..k /\ i - 1 \in 0..k BY <2>2
    <3>2. p[i] = q[i] /\ p[i - 1] = q[i - 1] BY <1>3, <3>1
    <3> QED BY <3>1, <3>2 DEF Paths
  <2> QED BY <2>1, <2>2
<1>6. p[0] \in S BY <1>2, <1>3
<1>7. p \in Paths(S, edges, k + 1) BY <1>4, <1>5, <1>6 DEF Paths
<1> QED BY <1>3, <1>7, NearPath

LEMMA NearLastStep ==
    ASSUME NEW S, NEW edges, NEW k \in Nat, NEW e \in Near(S, edges, k + 1)
    PROVE  e \in Entities /\ \E x \in Near(S, edges, k) : x = e \/ Linked(edges, x, e)
<1>1. PICK p \in Paths(S, edges, k + 1) : p[k + 1] = e BY NearPath
<1> DEFINE q == [i \in 0..k |-> p[i]]
<1>2. p \in [0..(k + 1) -> Entities] /\ p[0] \in S BY DEF Paths
<1>3. \A i \in 0..k : i \in 0..(k + 1) /\ q[i] = p[i] OBVIOUS
<1>4. q \in [0..k -> Entities] BY <1>2, <1>3
<1> HIDE DEF q
<1>5. ASSUME NEW i \in 1..k PROVE q[i] = q[i - 1] \/ Linked(edges, q[i - 1], q[i])
  <2>1. i \in 1..(k + 1) /\ i \in 0..k /\ i - 1 \in 0..k OBVIOUS
  <2>2. q[i] = p[i] /\ q[i - 1] = p[i - 1] BY <1>3, <2>1
  <2> QED BY <2>1, <2>2 DEF Paths
<1>6. q \in Paths(S, edges, k) BY <1>2, <1>3, <1>4, <1>5 DEF Paths
<1>7. k \in 0..k /\ k + 1 \in 1..(k + 1) /\ k + 1 \in 0..(k + 1) /\ (k + 1) - 1 = k OBVIOUS
<1>8. q[k] = p[k] BY <1>3, <1>7
<1>9. q[k] \in Near(S, edges, k) BY <1>6, NearPath
<1>10. p[k + 1] = p[k] \/ Linked(edges, p[k], p[k + 1])
  <2>1. \A i \in 1..(k + 1) : p[i] = p[i - 1] \/ Linked(edges, p[i - 1], p[i]) BY DEF Paths
  <2> QED BY <1>7, <2>1
<1> QED BY <1>1, <1>2, <1>7, <1>8, <1>9, <1>10

LEMMA LinkedMore == ASSUME NEW edges, NEW more, edges \subseteq more, NEW a, NEW b, Linked(edges, a, b) PROVE Linked(more, a, b)
BY DEF Linked

\* More relationships bring more near.
LEMMA NearMore ==
    ASSUME NEW S, NEW edges, NEW more, edges \subseteq more, NEW k \in Nat
    PROVE  Near(S, edges, k) \subseteq Near(S, more, k)
<1> SUFFICES ASSUME NEW e \in Near(S, edges, k) PROVE e \in Near(S, more, k) OBVIOUS
<1>1. PICK p \in Paths(S, edges, k) : p[k] = e BY NearPath
<1>2. p \in Paths(S, more, k) BY LinkedMore DEF Paths
<1> QED BY <1>1, <1>2, NearPath

\* Nothing is near outside a set that no relationship leaves.
LEMMA NearClosed ==
    ASSUME NEW S, NEW edges, NEW k \in Nat, NEW V, S \subseteq V,
           \A x \in V, e \in Entities : Linked(edges, x, e) => e \in V
    PROVE  Near(S, edges, k) \subseteq V
<1> SUFFICES ASSUME NEW e \in Near(S, edges, k) PROVE e \in V OBVIOUS
<1>1. PICK p \in Paths(S, edges, k) : p[k] = e BY NearPath
<1>2. p \in [0..k -> Entities] /\ p[0] \in V BY DEF Paths
<1> DEFINE out == {i \in 0..k : p[i] \notin V}
<1>3. CASE out = {} BY <1>1, <1>3
<1>4. CASE out # {}
  <2>1. out \in SUBSET Nat OBVIOUS
  <2>2. PICK i \in out : \A j \in out : i <= j BY <1>4, <2>1, LeastOf
  <2>3. i \in 0..k /\ p[i] \notin V OBVIOUS
  <2>4. i # 0 BY <1>2, <2>3
  <2>5. i \in 1..k /\ i - 1 \in 0..k /\ ~(i <= i - 1) BY <2>3, <2>4
  <2>6. p[i - 1] \in V BY <2>2, <2>5
  <2>7. p[i] = p[i - 1] \/ Linked(edges, p[i - 1], p[i]) BY <2>5 DEF Paths
  <2>8. p[i] \in Entities BY <1>2, <2>3
  <2> QED BY <2>3, <2>6, <2>7, <2>8
<1> QED BY <1>3, <1>4

-----------------------------------------------------------------------------
Now(c) == {r \in links : r.type \in c.filter}
Visited(c) == {c.seed} \cup {h.entity : h \in c.hops}
Within(c, k) == {c.seed} \cup {h.entity : h \in {g \in c.hops : g.depth <= k}}
WalkFields == {"at", "seed", "maxDepth", "filter", "depth", "frontier", "hops", "cut", "start"}

LinksInv ==
    /\ \A r \in links : r.source \in Entities /\ r.target \in Entities
    /\ linking # <<>> => linking[2] \in Relationship

\* What a traversal has reported is near by now.
Sound(c) ==
    /\ c.start \subseteq Now(c)
    /\ \A h \in c.hops : /\ h.entity \in Entities /\ h.entity # c.seed /\ h.depth \in 1..(c.depth - 1)
                         /\ h.entity \in Near({c.seed}, Now(c), h.depth)
    /\ c.frontier \subseteq Visited(c)
    /\ c.at = "read" => c.frontier \subseteq Near({c.seed}, Now(c), c.depth - 1)

\* A traversal that was not cut short has reported what was near when it
\* began, and every neighbour that an entity had then which it has expanded.
Covers(c) == ~c.cut =>
    /\ \A k \in 0..(c.depth - 1) : Near({c.seed}, c.start, k) \subseteq Within(c, k)
    /\ \A x \in Visited(c) \ c.frontier, e \in Entities : Linked(c.start, x, e) => e \in Visited(c)
    /\ c.at = "done" => \A k \in 1..c.maxDepth : Near({c.seed}, c.start, k) \subseteq Within(c, k)

WalkOK(c) ==
    /\ c.at \in {"none", "failed", "read", "done"}
    /\ c.at \in {"read", "done"} =>
           /\ DOMAIN c = WalkFields
           /\ c.seed \in Entities /\ c.maxDepth \in Nat /\ c.depth \in Nat \ {0}
           /\ c.at = "read" => c.depth <= c.maxDepth
           /\ Sound(c) /\ Covers(c)

GraphInv ==
    /\ LinksInv
    /\ DOMAIN walk = Traversals /\ \A w \in Traversals : WalkOK(walk[w])

LEMMA GraphStart == GraphInit => GraphInv
BY DEF GraphInit, GraphInv, LinksInv, WalkOK, NoWalk

\* Relationships are only added, which takes nothing from a traversal.
LEMMA LinksGrow ==
    ASSUME NEW c, WalkOK(c), links \subseteq links'
    PROVE  WalkOK(c)'
<1>1. CASE c.at \notin {"read", "done"} BY <1>1 DEF WalkOK
<1>2. CASE c.at \in {"read", "done"}
  <2>1. Now(c) \subseteq Now(c)' BY DEF Now
  <2>2. \A k \in Nat : Near({c.seed}, Now(c), k) \subseteq Near({c.seed}, Now(c)', k) BY <2>1, NearMore
  <2>3. c.depth - 1 \in Nat /\ \A h \in c.hops : h.depth \in Nat BY <1>2 DEF WalkOK, Sound
  <2>4. Sound(c)' BY <1>2, <2>1, <2>2, <2>3 DEF WalkOK, Sound
  <2>5. Covers(c)' BY <1>2 DEF WalkOK
  <2> QED BY <1>2, <2>4, <2>5 DEF WalkOK
<1> QED BY <1>1, <1>2

LEMMA GrowthKeeps ==
    ASSUME GraphInv, links \subseteq links', LinksInv', UNCHANGED walk
    PROVE  GraphInv'
<1>1. \A w \in Traversals : WalkOK(walk[w])' BY LinksGrow DEF GraphInv
<1> QED BY <1>1 DEF GraphInv, WalkOK, Sound, Now

LEMMA LinkKeeps == ASSUME LinksInv, NEW r \in Relationship, linkEntities(r) PROVE links \subseteq links' /\ \A q \in links' : q.source \in Entities /\ q.target \in Entities
<1>1. r.source \in Entities /\ r.target \in Entities BY DEF Relationship
<1>2. CASE UNCHANGED links BY <1>2 DEF LinksInv
<1>3. CASE Insert(r)
  <2> DEFINE new == [source |-> r.source, type |-> r.type, target |-> r.target, id |-> Cardinality(links)]
  <2>1. links' = links \cup {new} BY <1>3 DEF Insert
  <2>2. new.source \in Entities /\ new.target \in Entities BY <1>1
  <2> HIDE DEF new
  <2> QED BY <2>1, <2>2 DEF LinksInv
<1> QED BY <1>2, <1>3 DEF linkEntities

\* A traversal begins, goes on or fails, and the others stay as they are.
LEMMA OnlyWalk ==
    ASSUME GraphInv, NEW w \in Traversals, NEW c, WalkOK(c), walk' = [walk EXCEPT ![w] = c], UNCHANGED <<links, linking>>
    PROVE  GraphInv'
<1>1. DOMAIN walk' = Traversals /\ \A v \in Traversals : WalkOK(walk'[v]) BY DEF GraphInv
<1>2. \A v \in Traversals : Now(walk[v])' = Now(walk'[v]) BY DEF Now
<1>3. \A v \in Traversals : Sound(walk'[v]) => Sound(walk[v])' BY <1>2 DEF Sound
<1>4. \A v \in Traversals : WalkOK(walk[v])' BY <1>1, <1>3 DEF WalkOK
<1> QED BY <1>1, <1>4 DEF GraphInv, LinksInv

LEMMA BeginWalkKeeps == ASSUME GraphInv, NEW w \in Traversals, BeginWalk(w) PROVE GraphInv'
<1>1. PICK seed \in Entities, asked \in Depths, filter \in SUBSET Types :
          walk' = [walk EXCEPT ![w] =
                  [at |-> "read", seed |-> seed, maxDepth |-> IF asked < MaxDepth THEN asked ELSE MaxDepth,
                   filter |-> filter, depth |-> 1, frontier |-> {seed}, hops |-> {}, cut |-> FALSE,
                   start |-> {r \in links : r.type \in filter}]]
      BY DEF BeginWalk
<1> DEFINE max == IF asked < MaxDepth THEN asked ELSE MaxDepth
           c == [at |-> "read", seed |-> seed, maxDepth |-> max,
                   filter |-> filter, depth |-> 1, frontier |-> {seed}, hops |-> {}, cut |-> FALSE,
                   start |-> {r \in links : r.type \in filter}]
<1>2. max \in Nat /\ 1 <= max BY GraphAssumption
<1>3. walk' = [walk EXCEPT ![w] = c] BY <1>1
<1> HIDE DEF max
<1>4. /\ c.at = "read" /\ DOMAIN c = WalkFields /\ c.seed = seed /\ c.maxDepth = max /\ c.depth = 1 /\ c.frontier = {seed}
      /\ c.hops = {} /\ c.start = Now(c)
      BY DEF WalkFields, Now
<1> HIDE DEF c
<1>5. Visited(c) = {seed} /\ \A k : Within(c, k) = {seed} BY <1>4 DEF Visited, Within
<1>6. Near({seed}, c.start, 0) \subseteq {seed} /\ {seed} \subseteq Near({seed}, c.start, 0) BY NearSeeds
<1>7. Sound(c) BY <1>4, <1>5, <1>6 DEF Sound
<1>8. Covers(c) BY <1>4, <1>5, <1>6 DEF Covers
<1>9. WalkOK(c) BY <1>2, <1>4, <1>7, <1>8 DEF WalkOK
<1> QED BY <1>3, <1>9, OnlyWalk DEF BeginWalk

LEMMA FailKeeps == ASSUME GraphInv, NEW w \in Traversals, Fail(w) PROVE GraphInv'
<1>1. WalkOK([at |-> "failed"]) BY DEF WalkOK
<1> QED BY <1>1, OnlyWalk DEF Fail

\* One round of the loop, with a frontier that is at the depth before.
LEMMA ExpandKeeps == ASSUME GraphInv, NEW w \in Traversals, Expand(w) PROVE GraphInv'
<1> DEFINE c == walk[w]
           d == c.depth
<1>1. PICK edges \in SUBSET Rows(c) :
           LET next == {OtherEnd(c, r) : r \in edges} \ Visited(c)
               hops == c.hops \cup {[entity |-> e, depth |-> c.depth] : e \in next}
               over == c.depth < c.maxDepth /\ next # {} /\ Cardinality(hops) >= HopLimit
               ends == next = {} \/ c.depth = c.maxDepth \/ over
           IN walk' = [walk EXCEPT ![w] =
                  [c EXCEPT !.at = IF ends THEN "done" ELSE "read", !.depth = @ + 1, !.frontier = next, !.hops = hops,
                            !.cut = @ \/ over \/ edges # Rows(c)]]
      BY DEF Expand, Visited
<1> DEFINE next == {OtherEnd(c, r) : r \in edges} \ Visited(c)
           new == {[entity |-> e, depth |-> c.depth] : e \in next}
           hops == c.hops \cup new
           over == c.depth < c.maxDepth /\ next # {} /\ Cardinality(hops) >= HopLimit
           at == IF next = {} \/ c.depth = c.maxDepth \/ over THEN "done" ELSE "read"
           cut == c.cut \/ over \/ edges # Rows(c)
           n == [c EXCEPT !.at = at, !.depth = @ + 1, !.frontier = next, !.hops = hops, !.cut = cut]
<1>2. walk' = [walk EXCEPT ![w] = n] BY <1>1
<1>3. c.at = "read" /\ UNCHANGED <<links, linking>> /\ WalkOK(c) BY DEF Expand, GraphInv
<1>4. /\ DOMAIN c = WalkFields /\ c.seed \in Entities /\ c.maxDepth \in Nat /\ d \in Nat \ {0} /\ d <= c.maxDepth
      /\ Sound(c) /\ Covers(c)
      BY <1>3 DEF WalkOK
<1>5. /\ at \in {"read", "done"} /\ (at = "read" => d < c.maxDepth)
      /\ at = "done" => next = {} \/ d = c.maxDepth \/ over
      /\ \A h \in new : h.entity \in next /\ h.depth = d
      /\ \A e \in next : [entity |-> e, depth |-> d] \in new /\ [entity |-> e, depth |-> d].entity = e
      /\ cut \in BOOLEAN /\ (~cut => ~c.cut /\ ~over /\ edges = Rows(c))
      BY <1>4
<1> HIDE DEF at, over, new, cut
<1>6. /\ DOMAIN n = WalkFields /\ n.at = at /\ n.seed = c.seed /\ n.maxDepth = c.maxDepth /\ n.filter = c.filter
      /\ n.depth = d + 1 /\ n.frontier = next /\ n.hops = hops /\ n.cut = cut /\ n.start = c.start
      BY <1>4 DEF WalkFields
<1> HIDE DEF n
<1>7. Now(n) = Now(c) BY <1>6 DEF Now
<1>8. ASSUME NEW e \in next
      PROVE  e \in Entities /\ e \notin Visited(c) /\ \E x \in c.frontier : Linked(Now(c), x, e)
  <2>1. PICK r \in edges : e = OtherEnd(c, r) OBVIOUS
  <2>2. /\ r \in Now(c) /\ (r.source \in c.frontier \/ r.target \in c.frontier)
        /\ r.source \in Entities /\ r.target \in Entities
        BY DEF Rows, Now, GraphInv, LinksInv
  <2>3. \/ r.source \in c.frontier /\ e = r.target
        \/ r.target \in c.frontier /\ e = r.source
        BY <2>1, <2>2 DEF OtherEnd
  <2> QED BY <2>2, <2>3 DEF Linked
<1>9. \A e \in next : e \in Near({c.seed}, Now(c), d)
  <2> SUFFICES ASSUME NEW e \in next PROVE e \in Near({c.seed}, Now(c), d) OBVIOUS
  <2>1. PICK x \in c.frontier : Linked(Now(c), x, e) BY <1>8
  <2>2. c.frontier \subseteq Near({c.seed}, Now(c), d - 1) BY <1>3, <1>4 DEF Sound
  <2>3. d - 1 \in Nat /\ (d - 1) + 1 = d BY <1>4
  <2> HIDE DEF next, d, c
  <2> QED BY <1>8, <2>1, <2>2, <2>3, NearExtends
<1>10. /\ Visited(n) = Visited(c) \cup next
       /\ \A k \in 0..(d - 1) : Within(n, k) = Within(c, k)
       /\ \A k \in Nat : k >= d => Within(n, k) = Visited(n)
  <2> HIDE DEF next
  <2>1. \A h \in c.hops : h.depth \in 1..(d - 1) BY <1>4 DEF Sound
  <2>2. {h.entity : h \in new} = next BY <1>5
  <2>5. Visited(n) = Visited(c) \cup next BY <1>6, <2>2 DEF Visited
  <2>3. ASSUME NEW k \in 0..(d - 1) PROVE {h \in hops : h.depth <= k} = {h \in c.hops : h.depth <= k}
        BY <1>4, <1>5
  <2>4. ASSUME NEW k \in Nat, k >= d PROVE {h \in hops : h.depth <= k} = hops
        BY <1>4, <1>5, <2>1, <2>4
  <2> QED BY <1>6, <2>3, <2>4, <2>5 DEF Within, Visited
<1>11. Sound(n)
  <2>1. c.start \subseteq Now(c) BY <1>4 DEF Sound
  <2>2. ASSUME NEW h \in hops
        PROVE  h.entity \in Entities /\ h.entity # c.seed /\ h.depth \in 1..d /\ h.entity \in Near({c.seed}, Now(c), h.depth)
    <3>1. CASE h \in c.hops
      <4>1. /\ h.entity \in Entities /\ h.entity # c.seed /\ h.depth \in 1..(d - 1)
            /\ h.entity \in Near({c.seed}, Now(c), h.depth)
            BY <1>4, <3>1 DEF Sound
      <4>2. h.depth \in 1..d BY <1>4, <4>1
      <4> QED BY <4>1, <4>2
    <3>2. CASE h \in new
      <4>1. h.entity \in next /\ h.depth = d BY <1>5, <3>2
      <4>2. c.seed \in Visited(c) BY DEF Visited
      <4> HIDE DEF next
      <4> QED BY <1>4, <1>8, <1>9, <4>1, <4>2
    <3> QED BY <3>1, <3>2
  <2>3. next \subseteq Visited(n) BY <1>10
  <2>4. next \subseteq Near({c.seed}, Now(c), d) BY <1>9
  <2>5. (d + 1) - 1 = d BY <1>4
  <2> HIDE DEF next, hops, d, c
  <2> QED BY <1>6, <1>7, <2>1, <2>2, <2>3, <2>4, <2>5 DEF Sound
<1>12. Covers(n)
  <2> SUFFICES ASSUME ~n.cut PROVE Covers(n) BY DEF Covers
  <2>1. /\ ~over /\ edges = Rows(c)
        /\ \A k \in 0..(d - 1) : Near({c.seed}, c.start, k) \subseteq Within(c, k)
        /\ \A x \in Visited(c) \ c.frontier, e \in Entities : Linked(c.start, x, e) => e \in Visited(c)
        /\ c.start \subseteq Now(c) /\ c.frontier \subseteq Visited(c)
        BY <1>4, <1>5, <1>6 DEF Covers, Sound
  <2>2. ASSUME NEW x \in Visited(c), NEW e \in Entities, Linked(c.start, x, e) PROVE e \in Visited(n)
    <3>1. CASE x \notin c.frontier BY <1>10, <2>1, <2>2, <3>1
    <3>2. CASE x \in c.frontier
      <4>1. PICK r \in c.start : {x, e} = {r.source, r.target} BY <2>2 DEF Linked
      <4>2. r \in Rows(c) BY <2>1, <3>2, <4>1 DEF Rows, Now
      <4>3. OtherEnd(c, r) \in Visited(n) BY <1>10, <2>1, <4>2
      <4>4. e = OtherEnd(c, r) \/ e \in c.frontier BY <3>2, <4>1 DEF OtherEnd
      <4> QED BY <1>10, <2>1, <4>3, <4>4
    <3> QED BY <3>1, <3>2
  <2>3. Near({c.seed}, c.start, d) \subseteq Visited(n)
    <3> SUFFICES ASSUME NEW e \in Near({c.seed}, c.start, d) PROVE e \in Visited(n) OBVIOUS
    <3>1. d - 1 \in Nat /\ (d - 1) + 1 = d BY <1>4
    <3>2. e \in Near({c.seed}, c.start, (d - 1) + 1) BY <3>1
    <3>3. e \in Entities /\ \E x \in Near({c.seed}, c.start, d - 1) : x = e \/ Linked(c.start, x, e)
      <4> HIDE DEF c, d
      <4> QED BY <3>1, <3>2, NearLastStep
    <3>4. PICK x \in Near({c.seed}, c.start, d - 1) : x = e \/ Linked(c.start, x, e) BY <3>3
    <3>5. x \in Visited(c)
      <4>0. d - 1 \in 0..(d - 1) BY <3>1
      <4>1. Near({c.seed}, c.start, d - 1) \subseteq Within(c, d - 1) BY <2>1, <4>0
      <4>2. Within(c, d - 1) \subseteq Visited(c) BY DEF Within, Visited
      <4> QED BY <3>4, <4>1, <4>2
    <3> QED BY <1>10, <2>2, <3>3, <3>4, <3>5
  <2>4. \A k \in 0..d : Near({c.seed}, c.start, k) \subseteq Within(n, k)
    <3> SUFFICES ASSUME NEW k \in 0..d PROVE Near({c.seed}, c.start, k) \subseteq Within(n, k) OBVIOUS
    <3>1. CASE k = d
      <4>1. d \in Nat /\ d >= d BY <1>4
      <4>2. Within(n, d) = Visited(n) BY <1>10, <4>1
      <4> QED BY <2>3, <3>1, <4>2
    <3>2. CASE k # d
      <4>1. k \in 0..(d - 1) BY <1>4, <3>2
      <4> QED BY <1>10, <2>1, <4>1
    <3> QED BY <3>1, <3>2
  <2>5. ASSUME NEW x \in Visited(n) \ next, NEW e \in Entities, Linked(c.start, x, e) PROVE e \in Visited(n)
        BY <1>10, <2>2, <2>5
  <2>6. ASSUME n.at = "done", NEW k \in 1..c.maxDepth PROVE Near({c.seed}, c.start, k) \subseteq Within(n, k)
    <3>1. CASE k <= d
      <4>1. k \in 0..d BY <1>4, <3>1
      <4> QED BY <2>4, <4>1
    <3>2. CASE ~(k <= d)
      <4>1. next = {} BY <1>4, <1>5, <1>6, <2>1, <2>6, <3>2
      <4>2. \A x \in Visited(n), e \in Entities : Linked(c.start, x, e) => e \in Visited(n) BY <2>5, <4>1
      <4>3. {c.seed} \subseteq Visited(n) /\ k \in Nat BY <1>4, <1>6 DEF Visited
      <4>4. Near({c.seed}, c.start, k) \subseteq Visited(n)
        <5> HIDE DEF c, next
        <5> QED BY <4>2, <4>3, NearClosed
      <4>5. Within(n, k) = Visited(n) BY <1>4, <1>10, <3>2
      <4> QED BY <4>4, <4>5
    <3> QED BY <3>1, <3>2
  <2>7. (d + 1) - 1 = d BY <1>4
  <2> HIDE DEF next, hops, d, c
  <2> QED BY <1>6, <2>4, <2>5, <2>6, <2>7 DEF Covers
<1>13. WalkOK(n)
  <2>1. d + 1 \in Nat \ {0} /\ (at = "read" => d + 1 <= c.maxDepth) BY <1>4, <1>5
  <2> HIDE DEF next, hops, d, c
  <2> QED BY <1>4, <1>5, <1>6, <1>11, <1>12, <2>1 DEF WalkOK
<1> QED BY <1>2, <1>3, <1>13, OnlyWalk

LEMMA GraphStep == GraphInv /\ [GraphNext]_graphVars => GraphInv'
<1> SUFFICES ASSUME GraphInv, [GraphNext]_graphVars PROVE GraphInv' OBVIOUS
<1>1. CASE UNCHANGED graphVars BY <1>1, GrowthKeeps DEF graphVars, GraphInv, LinksInv
<1>2. CASE BeginLink
  <2>1. PICK r \in Relationship : linking' = <<"source", r>> BY <1>2 DEF BeginLink
  <2>2. linking'[2] \in Relationship BY <2>1
  <2> QED BY <1>2, <2>2, GrowthKeeps DEF BeginLink, GraphInv, LinksInv
<1>3. CASE StepLink
  <2> DEFINE r == linking[2]
  <2>1. r \in Relationship /\ UNCHANGED walk BY <1>3 DEF StepLink, GraphInv, LinksInv
  <2>2. CASE UNCHANGED links /\ (linking' = <<>> \/ \E at : linking' = <<at, r>>)
    <3>1. linking' # <<>> => linking'[2] \in Relationship BY <2>1, <2>2
    <3> QED BY <2>1, <2>2, <3>1, GrowthKeeps DEF GraphInv, LinksInv
  <2>3. CASE linkEntities(r) /\ linking' = <<>>
    <3>1. links \subseteq links' /\ LinksInv' BY <2>1, <2>3, LinkKeeps DEF GraphInv, LinksInv
    <3> QED BY <2>1, <3>1, GrowthKeeps
  <2> QED BY <1>3, <2>2, <2>3 DEF StepLink
<1>4. CASE Govern
  <2>1. UNCHANGED <<linking, walk>> BY <1>4 DEF Govern
  <2>2. CASE UNCHANGED links BY <2>1, <2>2, GrowthKeeps DEF GraphInv, LinksInv
  <2>3. ASSUME NEW r \in Relationship, linkEntities(r) PROVE GraphInv'
    <3>1. links \subseteq links' /\ LinksInv' BY <2>1, <2>3, LinkKeeps DEF GraphInv, LinksInv
    <3> QED BY <2>1, <3>1, GrowthKeeps
  <2> QED BY <1>4, <2>2, <2>3 DEF Govern
<1> QED BY <1>1, <1>2, <1>3, <1>4, BeginWalkKeeps, ExpandKeeps, FailKeeps DEF GraphNext

\* However the graph grows while it runs, a traversal reports what is near
\* and, unless a limit cut it short, all that was near when it began, for any
\* graph, depths and limits (knowledgeGraph.ts 160-199).
THEOREM NeighboursAreFound == GraphSpec => []TraversalFindsNeighbours
<1>1. GraphInv => TraversalFindsNeighbours
  <2> SUFFICES ASSUME GraphInv, NEW w \in Traversals, walk[w].at = "done"
      PROVE  LET c == walk[w]
                 now == {r \in links : r.type \in c.filter}
                 within(k) == {c.seed} \cup {h.entity : h \in {g \in c.hops : g.depth <= k}}
             IN /\ \A h \in c.hops : h.entity # c.seed /\ h.entity \in Near({c.seed}, now, h.depth)
                /\ c.cut \/ \A k \in 1..c.maxDepth : Near({c.seed}, c.start, k) \subseteq within(k)
      BY DEF TraversalFindsNeighbours
  <2>1. Sound(walk[w]) /\ Covers(walk[w]) BY DEF GraphInv, WalkOK
  <2> QED BY <2>1 DEF Sound, Covers, Now, Within
<1> QED BY <1>1, GraphStart, GraphStep, PTL DEF GraphSpec

-----------------------------------------------------------------------------
\* Meetings.

Kinds == {"summary", "decision", "action"}
Summarised(m) == [meeting |-> m, kind |-> "summary", segment |-> 0] \in query.results

\* The statement of a kind has run.
Been(kind) ==
    \/ query.at = "done"
    \/ query.at = "read" /\ \A i \in DOMAIN query.todo : query.todo[i] # kind

\* A meeting keeps its analysis, and an id that was deleted is not used again.
StoredInv ==
    /\ \A m \in DOMAIN meetings : meetings[m].analysis = analyzeMeetingTranscript(meetings[m].transcript)
    /\ DOMAIN meetings \cap gone = {}

\* A statement returned as many rows as its LIMIT allows.
Cut(kind) == Cardinality({r \in query.results : r.kind = kind}) = SearchLimit

\* What was found of a meeting that is still there is still in it; and of one
\* that was there for its summary, later statements have missed nothing that
\* their LIMIT did not cut.
FoundInv ==
    /\ query.at \in {"none", "read", "done"}
    /\ query.at = "read" => query.todo \in {<<"summary", "decision", "action">>, <<"decision", "action">>, <<"action">>}
    /\ query.at # "none" =>
           /\ \A r \in query.results :
                  /\ r.kind \in Kinds /\ Been(r.kind) /\ r.meeting \in DOMAIN meetings \cup gone
                  /\ r.meeting \in DOMAIN meetings => r \in Matches(r.meeting, r.kind)
           /\ \A m \in DOMAIN meetings : Summarised(m) =>
                  \A kind \in Kinds \ {"summary"} : Been(kind) => Cut(kind) \/ Matches(m, kind) \subseteq query.results

MeetingInv == StoredInv /\ FoundInv

LEMMA MeetingStart == MeetingInit => MeetingInv
BY DEF MeetingInit, MeetingInv, StoredInv, FoundInv

\* A match is in a meeting and of a kind.
LEMMA MatchIsOf ==
    ASSUME NEW m, NEW kind \in Kinds
    PROVE  \A r \in Matches(m, kind) : r.meeting = m /\ r.kind = kind
BY DEF Matches

\* Other meetings come and go without a trace in what was found.
LEMMA MeetingChanges ==
    ASSUME MeetingInv, NEW m,
           DOMAIN meetings' \cap gone' = {}, DOMAIN meetings \cup gone \subseteq DOMAIN meetings' \cup gone',
           \A n \in DOMAIN meetings' :
               \/ n \in DOMAIN meetings /\ meetings'[n] = meetings[n]
               \/ n \notin DOMAIN meetings \cup gone
                  /\ meetings'[n].analysis = analyzeMeetingTranscript(meetings'[n].transcript),
           UNCHANGED query
    PROVE  MeetingInv'
<1> USE DEF MeetingInv
<1>1. StoredInv' BY DEF StoredInv
<1>2. \A n \in DOMAIN meetings' : n \in DOMAIN meetings => \A kind \in Kinds : Matches(n, kind)' = Matches(n, kind)
      BY DEF Matches
<1>3. \A kind : Been(kind)' <=> Been(kind) BY DEF Been
<1>4. FoundInv'
  <2>1. /\ query'.at \in {"none", "read", "done"}
        /\ query'.at = "read" => query'.todo \in {<<"summary", "decision", "action">>, <<"decision", "action">>, <<"action">>}
        BY DEF FoundInv
  <2>2. ASSUME query'.at # "none", NEW r \in query'.results
        PROVE  /\ r.kind \in Kinds /\ Been(r.kind)' /\ r.meeting \in DOMAIN meetings' \cup gone'
               /\ r.meeting \in DOMAIN meetings' => r \in Matches(r.meeting, r.kind)'
        BY <1>2, <1>3, <2>2 DEF FoundInv
  <2>3. ASSUME query'.at # "none", NEW n \in DOMAIN meetings', Summarised(n)'
        PROVE  \A kind \in Kinds \ {"summary"} : Been(kind)' => Cut(kind)' \/ Matches(n, kind)' \subseteq query'.results
    <3>1. Summarised(n) BY <2>3 DEF Summarised
    <3>2. n \in DOMAIN meetings
      <4>1. PICK r \in query.results : r.meeting = n BY <3>1 DEF Summarised
      <4>2. n \in DOMAIN meetings \cup gone BY <2>3, <4>1 DEF FoundInv
      <4> QED BY <4>2
    <3>3. \A kind : Cut(kind)' <=> Cut(kind) BY DEF Cut
    <3> QED BY <1>2, <1>3, <2>3, <3>1, <3>2, <3>3 DEF FoundInv
  <2> QED BY <2>1, <2>2, <2>3 DEF FoundInv
<1> QED BY <1>1, <1>4

\* A statement reads all the meetings there are, up to its LIMIT.
LEMMA ReadNextKeeps == ASSUME MeetingInv, ReadNext PROVE MeetingInv'
<1> USE DEF MeetingInv
<1>0. PICK kind : kind = Head(query.todo) OBVIOUS
<1> DEFINE all == UNION {Matches(m, kind) : m \in DOMAIN meetings}
<1>1. PICK new \in Limited(all, SearchLimit) :
          /\ query.at = "read" /\ UNCHANGED <<meetings, gone>>
          /\ query'.at = IF Len(query.todo) = 1 THEN "done" ELSE "read"
          /\ query'.todo = Tail(query.todo) /\ query'.results = query.results \cup new
  <2>1. PICK new \in Limited(all, SearchLimit) :
            query' = [at |-> IF Len(query.todo) = 1 THEN "done" ELSE "read", todo |-> Tail(query.todo),
                      results |-> query.results \cup new]
        BY <1>0 DEF ReadNext
  <2>2. query.at = "read" /\ UNCHANGED <<meetings, gone>> BY DEF ReadNext
  <2> HIDE DEF all
  <2> QED BY <2>1, <2>2
<1>2. query.todo \in {<<"summary", "decision", "action">>, <<"decision", "action">>, <<"action">>} BY <1>1 DEF FoundInv
<1>3. /\ kind \in Kinds /\ ~Been(kind) /\ Been(kind)'
      /\ query'.at \in {"read", "done"}
      /\ query'.at = "read" => query'.todo \in {<<"decision", "action">>, <<"action">>}
  <2>1. CASE query.todo = <<"summary", "decision", "action">>
    <3>1. /\ kind = "summary" /\ query.todo[1] = "summary" /\ 1 \in DOMAIN query.todo
          /\ query'.at = "read" /\ query'.todo = <<"decision", "action">> BY <1>0, <1>1, <2>1
    <3>2. \A i \in DOMAIN query'.todo : query'.todo[i] # "summary" BY <3>1
    <3>3. Been("summary")' BY <3>1, <3>2 DEF Been
    <3>4. ~Been("summary") BY <1>1, <3>1 DEF Been
    <3> QED BY <3>1, <3>3, <3>4 DEF Kinds
  <2>2. CASE query.todo = <<"decision", "action">>
    <3>1. /\ kind = "decision" /\ query.todo[1] = "decision" /\ 1 \in DOMAIN query.todo
          /\ query'.at = "read" /\ query'.todo = <<"action">> BY <1>0, <1>1, <2>2
    <3>2. \A i \in DOMAIN query'.todo : query'.todo[i] # "decision" BY <3>1
    <3>3. Been("decision")' BY <3>1, <3>2 DEF Been
    <3>4. ~Been("decision") BY <1>1, <3>1 DEF Been
    <3> QED BY <3>1, <3>3, <3>4 DEF Kinds
  <2>3. CASE query.todo = <<"action">>
    <3>1. /\ kind = "action" /\ query.todo[1] = "action" /\ 1 \in DOMAIN query.todo /\ query'.at = "done" BY <1>0, <1>1, <2>3
    <3> QED BY <1>1, <3>1 DEF Been, Kinds
  <2> QED BY <1>2, <2>1, <2>2, <2>3
<1>4. ASSUME NEW k \in Kinds, k # kind PROVE Been(k)' <=> Been(k)
  <2>1. CASE query.todo = <<"summary", "decision", "action">>
    <3>1. /\ query'.at = "read" /\ query'.todo = <<"decision", "action">> /\ k \in {"decision", "action"} BY <1>0, <1>1, <1>4, <2>1 DEF Kinds
    <3>2. /\ {1, 2} \subseteq DOMAIN query'.todo /\ query'.todo[1] = "decision" /\ query'.todo[2] = "action"
          /\ {2, 3} \subseteq DOMAIN query.todo /\ query.todo[2] = "decision" /\ query.todo[3] = "action" BY <2>1, <3>1
    <3> QED BY <1>1, <3>1, <3>2 DEF Been
  <2>2. CASE query.todo = <<"decision", "action">>
    <3>1. /\ query'.at = "read" /\ query'.todo = <<"action">> /\ k \in {"summary", "action"} BY <1>0, <1>1, <1>4, <2>2 DEF Kinds
    <3>2. /\ DOMAIN query'.todo = {1} /\ query'.todo[1] = "action"
          /\ DOMAIN query.todo = {1, 2} /\ query.todo[1] = "decision" /\ query.todo[2] = "action" BY <2>2, <3>1
    <3> QED BY <1>1, <3>1, <3>2 DEF Been
  <2>3. CASE query.todo = <<"action">>
    <3>1. /\ query'.at = "done" /\ k # "action" /\ DOMAIN query.todo = {1} /\ query.todo[1] = "action" BY <1>0, <1>1, <1>4, <2>3
    <3> QED BY <1>1, <3>1 DEF Been
  <2> QED BY <1>2, <2>1, <2>2, <2>3
<1>5. \A m, k : Matches(m, k)' = Matches(m, k) BY <1>1 DEF Matches
<1>6. new \subseteq all /\ (new = all \/ Cardinality(new) = SearchLimit) BY <1>1 DEF Limited
<1>7. \A r \in new : r.kind = kind /\ r.meeting \in DOMAIN meetings /\ r \in Matches(r.meeting, r.kind)
      BY <1>3, <1>6, MatchIsOf
<1>8. \A m \in DOMAIN meetings : Matches(m, kind) \subseteq all OBVIOUS
<1> HIDE DEF all
<1>9. \A r \in query.results : r.kind \in Kinds /\ Been(r.kind) BY <1>1 DEF FoundInv
\* What a statement finds is all there is of its kind, and no other touches it.
<1>10. {r \in query'.results : r.kind = kind} = new
       /\ \A k \in Kinds \ {kind} : {r \in query'.results : r.kind = k} = {r \in query.results : r.kind = k}
       BY <1>1, <1>3, <1>7, <1>9
<1>11. StoredInv' BY <1>1 DEF StoredInv
<1>12. (\A r \in query.results : /\ r.kind \in Kinds /\ Been(r.kind) /\ r.meeting \in DOMAIN meetings \cup gone
                                 /\ r.meeting \in DOMAIN meetings => r \in Matches(r.meeting, r.kind))'
       BY <1>1, <1>3, <1>4, <1>5, <1>7, <1>9 DEF FoundInv
<1>13. ASSUME NEW m \in DOMAIN meetings', Summarised(m)', NEW k \in Kinds \ {"summary"}, Been(k)'
       PROVE  Cut(k)' \/ Matches(m, k)' \subseteq query'.results
  <2>1. CASE k = kind BY <1>1, <1>5, <1>6, <1>8, <1>10, <2>1 DEF Cut
  <2>2. CASE k # kind
    <3>1. Been(k) /\ (Cut(k)' <=> Cut(k)) BY <1>4, <1>10, <1>13, <2>2 DEF Cut
    <3>2. kind # "summary"
      <4>1. CASE query.todo = <<"summary", "decision", "action">>
        <5>1. \A q \in {"decision", "action"} : ~Been(q)
          <6>1. {2, 3} \subseteq DOMAIN query.todo /\ query.todo[2] = "decision" /\ query.todo[3] = "action" BY <4>1
          <6> QED BY <1>1, <6>1 DEF Been
        <5> QED BY <3>1, <5>1 DEF Kinds
      <4>2. CASE query.todo # <<"summary", "decision", "action">>
        <5>1. Head(<<"decision", "action">>) # "summary" /\ Head(<<"action">>) # "summary" OBVIOUS
        <5> QED BY <1>0, <1>2, <4>2, <5>1
      <4> QED BY <4>1, <4>2
    <3>3. Summarised(m)
      <4>1. [meeting |-> m, kind |-> "summary", segment |-> 0] \notin new BY <1>7, <3>2
      <4> QED BY <1>1, <1>13, <4>1 DEF Summarised
    <3>4. Cut(k) \/ Matches(m, k) \subseteq query.results BY <1>1, <1>13, <3>1, <3>3 DEF FoundInv
    <3> QED BY <1>1, <1>5, <3>1, <3>4
  <2> QED BY <2>1, <2>2
<1>14. FoundInv'
  <2>1. /\ query'.at \in {"none", "read", "done"}
        /\ query'.at = "read" => query'.todo \in {<<"summary", "decision", "action">>, <<"decision", "action">>, <<"action">>}
        BY <1>3
  <2>2. \A m \in DOMAIN meetings' : Summarised(m)' =>
            \A k \in Kinds \ {"summary"} : Been(k)' => Cut(k)' \/ Matches(m, k)' \subseteq query'.results
        BY <1>13
  <2>3. (/\ \A r \in query.results :
               /\ r.kind \in Kinds /\ Been(r.kind) /\ r.meeting \in DOMAIN meetings \cup gone
               /\ r.meeting \in DOMAIN meetings => r \in Matches(r.meeting, r.kind)
         /\ \A m \in DOMAIN meetings : Summarised(m) =>
               \A k \in Kinds \ {"summary"} : Been(k) => Cut(k) \/ Matches(m, k) \subseteq query.results)'
    <3>1. (\A m \in DOMAIN meetings : Summarised(m) =>
               \A k \in Kinds \ {"summary"} : Been(k) => Cut(k) \/ Matches(m, k) \subseteq query.results)'
          BY ONLY <2>2
    <3> QED BY ONLY <1>12, <3>1
  <2> QED BY ONLY <2>1, <2>3 DEF FoundInv
<1> QED BY <1>11, <1>14

LEMMA MeetingStep == MeetingInv /\ [MeetingNext]_meetingVars => MeetingInv'
<1> SUFFICES ASSUME MeetingInv, [MeetingNext]_meetingVars PROVE MeetingInv' OBVIOUS
<1>1. ASSUME NEW m \in MeetingIds, ingest(m) PROVE MeetingInv'
  <2>1. PICK t \in Transcripts, titled \in BOOLEAN, summarised \in BOOLEAN : meetings' = [n \in DOMAIN meetings \cup {m} |->
            IF n # m THEN meetings[n]
            ELSE [transcript |-> t, analysis |-> analyzeMeetingTranscript(t), titled |-> titled, summarised |-> summarised]]
        BY <1>1 DEF ingest, SummaryText
  <2>2. m \notin DOMAIN meetings \cup gone /\ UNCHANGED <<gone, query>> BY <1>1 DEF ingest
  <2>3. DOMAIN meetings' = DOMAIN meetings \cup {m} BY <2>1
  <2>4. \A n \in DOMAIN meetings' :
            \/ n \in DOMAIN meetings /\ meetings'[n] = meetings[n]
            \/ n \notin DOMAIN meetings \cup gone
               /\ meetings'[n].analysis = analyzeMeetingTranscript(meetings'[n].transcript)
        BY <2>1, <2>2, <2>3
  <2> QED BY <2>2, <2>3, <2>4, MeetingChanges DEF MeetingInv, StoredInv
<1>2. ASSUME NEW m \in MeetingIds, deleteMeeting(m) PROVE MeetingInv'
  <2>1. /\ meetings' = [n \in DOMAIN meetings \ {m} |-> meetings[n]] /\ gone' = gone \cup {m} /\ UNCHANGED query
        BY <1>2 DEF deleteMeeting
  <2>2. DOMAIN meetings' = DOMAIN meetings \ {m} /\ \A n \in DOMAIN meetings' : meetings'[n] = meetings[n] BY <2>1
  <2>3. DOMAIN meetings' \cap gone' = {} /\ DOMAIN meetings \cup gone \subseteq DOMAIN meetings' \cup gone'
        BY <2>1, <2>2 DEF MeetingInv, StoredInv
  <2> QED BY <2>1, <2>2, <2>3, MeetingChanges
<1>3. ASSUME BeginSearch PROVE MeetingInv'
  <2>1. /\ UNCHANGED <<meetings, gone>> /\ query'.at = "read" /\ query'.results = {}
        /\ query'.todo = <<"summary", "decision", "action">>
        BY <1>3 DEF BeginSearch, Statements
  <2> QED BY <2>1 DEF MeetingInv, StoredInv, FoundInv, Summarised
<1>4. ASSUME ReadNext PROVE MeetingInv' BY <1>4, ReadNextKeeps
<1>5. CASE UNCHANGED meetingVars
  <2>1. UNCHANGED <<meetings, gone, query>> BY <1>5 DEF meetingVars
  <2> QED BY <2>1, MeetingChanges DEF MeetingInv, StoredInv
<1> QED BY <1>1, <1>2, <1>3, <1>4, <1>5 DEF MeetingNext

\* A decision is no action, and what the statements found is of the analysis.
LEMMA WholeWhenRead == MeetingInv => MeetingsAreFoundWhole
<1> DEFINE hits(m, kind) == {r.segment : r \in {q \in query.results : q.meeting = m /\ q.kind = kind}}
           counted(m) == [decision |-> listMeetings[m].decisions, action |-> listMeetings[m].actions]
           matching(m, kind) == {item.segment : item \in {d \in counted(m)[kind] : meetings[m].transcript[d.segment].matches}}
           cut(kind) == Cardinality({r \in query.results : r.kind = kind}) >= SearchLimit
<1> SUFFICES ASSUME MeetingInv, query.at = "done", NEW m \in DOMAIN meetings
    PROVE  /\ \A kind \in {"decision", "action"} :
                  /\ hits(m, kind) \subseteq matching(m, kind)
                  /\ hits(m, "summary") # {} /\ ~cut(kind) => hits(m, kind) = matching(m, kind)
           /\ hits(m, "decision") \cap hits(m, "action") = {}
    BY DEF MeetingsAreFoundWhole
<1> DEFINE said == meetings[m].transcript
           Of(kind) == {d \in meetings[m].analysis[kind] : said[d.segment].matches}
<1>1. \A kind \in {"decision", "action"} : counted(m)[kind] = meetings[m].analysis[kind]
      BY DEF listMeetings
<1>2. \A kind \in {"decision", "action"} : matching(m, kind) = {item.segment : item \in Of(kind)} BY <1>1
<1>3. \A kind \in {"decision", "action"} :
          Matches(m, kind) = {[meeting |-> m, kind |-> kind, segment |-> item.segment] : item \in Of(kind)}
      BY DEF Matches
<1>4. \A r \in query.results : r.meeting = m => r.kind \in Kinds /\ r \in Matches(m, r.kind)
      BY DEF MeetingInv, FoundInv
<1> HIDE DEF Of
<1>5. \A kind \in {"decision", "action"} : hits(m, kind) \subseteq matching(m, kind)
  <2>1. ASSUME NEW kind \in {"decision", "action"}, NEW r \in query.results, r.meeting = m, r.kind = kind
        PROVE  \E item \in Of(kind) : r.segment = item.segment
    <3>1. r \in Matches(m, kind) BY <1>4, <2>1
    <3> QED BY <1>3, <3>1
  <2> HIDE DEF matching
  <2> QED BY <1>2, <2>1
<1>6. ASSUME NEW kind \in {"decision", "action"}, hits(m, "summary") # {}, ~cut(kind)
      PROVE  matching(m, kind) \subseteq hits(m, kind)
  <2>1. Summarised(m)
    <3>1. PICK r \in query.results : r.meeting = m /\ r.kind = "summary" BY <1>6
    <3>2. r \in Matches(m, "summary") BY <1>4, <3>1
    <3>3. r = [meeting |-> m, kind |-> "summary", segment |-> 0] BY <3>2 DEF Matches
    <3> QED BY <3>1, <3>3 DEF Summarised
  <2>2. ~Cut(kind) BY <1>6, SearchLimitAssumption DEF Cut
  <2>3. Matches(m, kind) \subseteq query.results BY <2>1, <2>2 DEF MeetingInv, FoundInv, Been, Kinds
  <2>4. ASSUME NEW item \in Of(kind)
        PROVE  \E r \in query.results : r.meeting = m /\ r.kind = kind /\ r.segment = item.segment
    <3> DEFINE r == [meeting |-> m, kind |-> kind, segment |-> item.segment]
    <3>1. r \in Matches(m, kind) BY <1>3
    <3>2. r.meeting = m /\ r.kind = kind /\ r.segment = item.segment OBVIOUS
    <3> HIDE DEF r
    <3> QED BY <2>3, <3>1, <3>2
  <2>5. matching(m, kind) = {item.segment : item \in Of(kind)} BY <1>2
  <2> HIDE DEF matching
  <2> QED BY <2>4, <2>5
<1>7. hits(m, "decision") \cap hits(m, "action") = {}
  <2>1. meetings[m].analysis = analyzeMeetingTranscript(said) BY DEF MeetingInv, StoredInv
  <2>2. \A d \in Of("decision") : said[d.segment].decides
        BY <2>1 DEF Of, analyzeMeetingTranscript, Item
  <2>3. \A d \in Of("action") : ~said[d.segment].decides
        BY <2>1 DEF Of, analyzeMeetingTranscript, Item
  <2>4. \A i \in hits(m, "decision") : said[i].decides
    <3>1. matching(m, "decision") = {item.segment : item \in Of("decision")} BY <1>2
    <3> HIDE DEF matching, hits
    <3> QED BY <1>5, <2>2, <3>1
  <2>5. \A i \in hits(m, "action") : ~said[i].decides
    <3>1. matching(m, "action") = {item.segment : item \in Of("action")} BY <1>2
    <3> HIDE DEF matching, hits
    <3> QED BY <1>5, <2>3, <3>1
  <2> HIDE DEF hits
  <2> QED BY <2>4, <2>5
<1> QED BY <1>5, <1>6, <1>7

\* A search finds nothing of a meeting but what its analysis counts, and a
\* meeting whose summary it found it finds whole, up to the LIMIT of a
\* statement, for any number of meetings that others store and delete between
\* its statements (meetings.ts 125-182).
THEOREM MeetingsFound == MeetingSpec => []MeetingsAreFoundWhole
BY MeetingStart, MeetingStep, WholeWhenRead, PTL DEF MeetingSpec

-----------------------------------------------------------------------------
\* Ingest.

Fields == {"at", "file", "data", "verdict"}
Stages == {"none", "scan", "put", "create", "document", "refused"}

\* What is past the scan was found clean, and in production clamd said so of
\* this file; what is past the object storage has an object.
ScanInv ==
    /\ DOMAIN upload = Uploads
    /\ objects \subseteq Uploads
    /\ \A u \in Uploads :
        LET r == upload[u] IN
        /\ r.at \in Stages /\ (r.at # "none" => DOMAIN r = Fields)
        /\ r.at \in {"put", "create", "document"} \/ u \in objects => r.verdict = "clean"
        /\ r.at # "none" /\ r.verdict = "clean" /\ deployed.production => r.data = "OK"
        /\ r.at # "none" /\ r.data = "OK" => ~r.file.infected
        /\ r.at \in {"create", "document"} => u \in objects
        /\ u \in objects => r.at \in {"create", "document", "refused"}

LEMMA IngestStart == IngestInit => ScanInv
BY DEF IngestInit, ScanInv, Stages

\* An upload goes on, and the others stay as they are.
LEMMA OnlyOne ==
    ASSUME ScanInv, NEW u \in Uploads, NEW r, NEW o \in SUBSET {u},
           upload' = [upload EXCEPT ![u] = r], objects' = objects \cup o, UNCHANGED deployed,
           /\ r.at \in Stages /\ (r.at # "none" => DOMAIN r = Fields)
           /\ r.at \in {"put", "create", "document"} \/ u \in objects' => r.verdict = "clean"
           /\ r.at # "none" /\ r.verdict = "clean" /\ deployed.production => r.data = "OK"
           /\ r.at # "none" /\ r.data = "OK" => ~r.file.infected
           /\ r.at \in {"create", "document"} => u \in objects'
           /\ u \in objects' => r.at \in {"create", "document", "refused"}
    PROVE  ScanInv'
<1>1. upload'[u] = r /\ DOMAIN upload' = Uploads /\ \A v \in Uploads : v # u => upload'[v] = upload[v] /\ (v \in objects' <=> v \in objects)
      BY DEF ScanInv
<1> QED BY <1>1 DEF ScanInv

\* A record that goes elsewhere keeps its other fields.
LEMMA Moved ==
    ASSUME NEW r, NEW at, DOMAIN r = Fields
    PROVE  LET m == [r EXCEPT !.at = at] IN
           DOMAIN m = Fields /\ m.at = at /\ m.file = r.file /\ m.data = r.data /\ m.verdict = r.verdict
BY DEF Fields

LEMMA GotoKeeps ==
    ASSUME ScanInv, NEW u \in Uploads, NEW at \in {"create", "document", "refused"}, NEW o \in SUBSET {u},
           Goto(u, at), objects' = objects \cup o, UNCHANGED deployed,
           upload[u].at \in {"put", "create"}, at = "refused" \/ u \in objects'
    PROVE  ScanInv'
<1> DEFINE r == [upload[u] EXCEPT !.at = at]
<1>1. DOMAIN upload[u] = Fields BY DEF ScanInv
<1>2. DOMAIN r = Fields /\ r.at = at /\ r.file = upload[u].file /\ r.data = upload[u].data /\ r.verdict = upload[u].verdict
      BY <1>1, Moved
<1>3. upload' = [upload EXCEPT ![u] = r] BY DEF Goto
<1> HIDE DEF r
<1>4. /\ r.at \in Stages /\ r.verdict = "clean"
      /\ deployed.production => r.data = "OK"
      /\ r.data = "OK" => ~r.file.infected
      BY <1>2 DEF ScanInv, Stages
<1> QED BY <1>2, <1>3, <1>4, OnlyOne

LEMMA ReceiveKeeps == ASSUME ScanInv, NEW u \in Uploads, Receive(u) PROVE ScanInv'
<1>1. PICK f \in UploadFiles, at \in {"scan", "refused"} :
          upload' = [upload EXCEPT ![u] = [at |-> at, file |-> f, data |-> "", verdict |-> "none"]]
      BY DEF Receive
<1>2. /\ UNCHANGED deployed /\ objects' = objects \cup {} /\ upload[u].at = "none" BY DEF Receive
<1>3. u \notin objects' BY <1>2 DEF ScanInv
<1> QED BY <1>1, <1>2, <1>3, OnlyOne DEF Stages, Fields

LEMMA ReplyKeeps == ASSUME ScanInv, NEW u \in Uploads, Reply(u) PROVE ScanInv'
<1>1. PICK data \in {"ERROR", IF upload[u].file.infected THEN "FOUND" ELSE "OK"} :
          upload' = [upload EXCEPT ![u] = [upload[u] EXCEPT !.data = data]]
      BY DEF Reply
<1>2. /\ UNCHANGED deployed /\ objects' = objects \cup {} /\ upload[u].at = "scan" /\ upload[u].data = "" BY DEF Reply
<1> DEFINE r == [upload[u] EXCEPT !.data = data]
<1>3. DOMAIN upload[u] = Fields BY <1>2 DEF ScanInv
<1>4. DOMAIN r = Fields /\ r.at = upload[u].at /\ r.file = upload[u].file /\ r.data = data /\ r.verdict = upload[u].verdict
      BY <1>3 DEF Fields
<1>5. upload' = [upload EXCEPT ![u] = r] BY <1>1
<1> HIDE DEF r
<1>6. u \notin objects' BY <1>2 DEF ScanInv
<1>7. data = "OK" => ~upload[u].file.infected OBVIOUS
<1>8. deployed.production => upload[u].verdict # "clean" BY <1>2 DEF ScanInv
<1> QED BY <1>2, <1>4, <1>5, <1>6, <1>7, <1>8, OnlyOne DEF Stages

\* Only clamd's own OK finds a file clean in production.
LEMMA ScanKeeps == ASSUME ScanInv, NEW u \in Uploads, Scan(u) PROVE ScanInv'
<1>1. /\ UNCHANGED deployed /\ objects' = objects \cup {} /\ upload[u].at = "scan" BY DEF Scan
<1>a. PICK verdict \in CASE Scanner = "development" -> {"clean"}
                        [] Scanner = "unavailable" -> {"unavailable"}
                        [] OTHER -> {Verdict(upload[u].data, event) : event \in {"end", "error", "timeout"}} :
          upload' = [upload EXCEPT ![u].verdict = verdict, ![u].at = IF verdict = "clean" THEN "put" ELSE "refused"]
      BY ONLY Scan(u) DEF Scan
<1>2. /\ upload' = [upload EXCEPT ![u] = [upload[u] EXCEPT !.verdict = verdict, !.at = IF verdict = "clean" THEN "put" ELSE "refused"]]
      /\ verdict \in CASE Scanner = "development" -> {"clean"}
                       [] Scanner = "unavailable" -> {"unavailable"}
                       [] OTHER -> {Verdict(upload[u].data, event) : event \in {"end", "error", "timeout"}}
      BY <1>a DEF ScanInv
<1>3. deployed.production /\ verdict = "clean" => upload[u].data = "OK"
  <2>1. Scanner = "development" => ~deployed.production BY DEF Scanner
  <2>2. Scanner \in {"clamav", "development", "unavailable"} BY DEF Scanner
  <2>3. \A event \in {"end", "error", "timeout"} : Verdict(upload[u].data, event) = "clean" => upload[u].data = "OK"
        BY DEF Verdict
  <2> QED BY <1>2, <2>1, <2>2, <2>3
<1> DEFINE at == IF verdict = "clean" THEN "put" ELSE "refused"
           r == [upload[u] EXCEPT !.verdict = verdict, !.at = at]
<1>4. DOMAIN upload[u] = Fields BY <1>1 DEF ScanInv
<1>5. at \in {"put", "refused"} /\ (at = "put" => verdict = "clean") OBVIOUS
<1>6. upload' = [upload EXCEPT ![u] = r] BY <1>2
<1> HIDE DEF at
<1>7. DOMAIN r = Fields /\ r.at = at /\ r.file = upload[u].file /\ r.data = upload[u].data /\ r.verdict = verdict
      BY <1>4 DEF Fields
<1> HIDE DEF r
<1>8. u \notin objects' /\ (upload[u].data = "OK" => ~upload[u].file.infected) BY <1>1 DEF ScanInv
<1> QED BY <1>1, <1>3, <1>5, <1>6, <1>7, <1>8, OnlyOne DEF Stages

LEMMA PutKeeps == ASSUME ScanInv, NEW u \in Uploads, Put(u) PROVE ScanInv'
<1>1. upload[u].at = "put" /\ UNCHANGED deployed BY DEF Put
<1>2. CASE objects' = objects \cup {u} /\ (Goto(u, "create") \/ Goto(u, "refused")) BY <1>1, <1>2, GotoKeeps
<1>3. CASE Goto(u, "refused") /\ UNCHANGED objects
  <2>1. objects' = objects \cup {} BY <1>3
  <2> QED BY <1>1, <1>3, <2>1, GotoKeeps
<1> QED BY <1>2, <1>3 DEF Put

LEMMA CreateKeeps == ASSUME ScanInv, NEW u \in Uploads, CreateDocument(u) PROVE ScanInv'
<1>1. upload[u].at = "create" /\ UNCHANGED deployed /\ objects' = objects \cup {} /\ u \in objects'
      BY DEF CreateDocument, ScanInv
<1> QED BY <1>1, GotoKeeps DEF CreateDocument

LEMMA CrashKeeps == ASSUME ScanInv, Crash PROVE ScanInv'
<1> DEFINE under == {"scan", "put", "create"}
           lost(v) == [upload[v] EXCEPT !.at = "refused"]
<1>1. /\ upload' = [v \in Uploads |-> IF upload[v].at \in under THEN lost(v) ELSE upload[v]]
      /\ UNCHANGED <<deployed, objects>>
      BY DEF Crash
<1>2. ASSUME NEW v \in Uploads, upload[v].at \in under
      PROVE  /\ DOMAIN lost(v) = Fields /\ lost(v).at = "refused" /\ lost(v).verdict = upload[v].verdict
             /\ lost(v).data = upload[v].data /\ lost(v).file = upload[v].file
      BY <1>2, Moved DEF ScanInv
<1>3. DOMAIN upload' = Uploads BY <1>1
<1>4. ASSUME NEW v \in Uploads
      PROVE  LET r == upload'[v] IN
             /\ r.at \in Stages /\ (r.at # "none" => DOMAIN r = Fields)
             /\ r.at \in {"put", "create", "document"} \/ v \in objects => r.verdict = "clean"
             /\ r.at # "none" /\ r.verdict = "clean" /\ deployed.production => r.data = "OK"
             /\ r.at # "none" /\ r.data = "OK" => ~r.file.infected
             /\ r.at \in {"create", "document"} => v \in objects
             /\ v \in objects => r.at \in {"create", "document", "refused"}
  <2>1. CASE upload[v].at \in under
    <3>1. upload'[v] = lost(v) BY <1>1, <2>1
    <3> HIDE DEF lost
    <3> QED BY <1>2, <2>1, <3>1 DEF ScanInv, Stages
  <2>2. CASE upload[v].at \notin under
    <3>1. upload'[v] = upload[v] BY <1>1, <2>2
    <3> QED BY <3>1 DEF ScanInv
  <2> QED BY <2>1, <2>2
<1> QED BY <1>1, <1>3, <1>4 DEF ScanInv

LEMMA IngestStep == ScanInv /\ [IngestNext]_ingestVars => ScanInv'
<1> SUFFICES ASSUME ScanInv, [IngestNext]_ingestVars PROVE ScanInv' OBVIOUS
<1>1. CASE UNCHANGED ingestVars BY <1>1 DEF ingestVars, ScanInv
<1>2. ASSUME NEW u \in Uploads, Index(u) PROVE ScanInv' BY <1>2 DEF Index, ScanInv
<1> QED BY <1>1, <1>2, ReceiveKeeps, ReplyKeeps, ScanKeeps, PutKeeps, CreateKeeps, CrashKeeps DEF IngestNext

\* What is stored was scanned: a document has an object, every object was
\* found clean, and in production clamd itself said so of a file that is not
\* infected, in whatever order socket, storage, database and crash come
\* (index.ts 256-264, security.ts 36-108).
THEOREM OnlyScannedIsStored == IngestSpec => []StoredWasScanned
<1>1. ScanInv => StoredWasScanned BY DEF ScanInv, StoredWasScanned
<1> QED BY <1>1, IngestStart, IngestStep, PTL DEF IngestSpec

-----------------------------------------------------------------------------
\* The chunker.

IsText(lines) == lines \in Seq([kind : {"text", "heading", "page"}, size : Nat \ {0}])

\* f sums the weights of the first elements of s.
IsWeight(w) == \A i \in DOMAIN w : w[i] \in Nat \ {0}
Adds(w, s, f) ==
    /\ f \in [0..Len(s) -> Nat] /\ f[0] = 0
    /\ \A n \in 1..Len(s) : f[n] = f[n - 1] + w[s[n]]

LEMMA WeightOf ==
    ASSUME NEW w, IsWeight(w), NEW s \in Seq(DOMAIN w), NEW n \in 1..Len(s)
    PROVE  w[s[n]] \in Nat \ {0}
<1>1. s[n] \in DOMAIN w OBVIOUS
<1> QED BY <1>1 DEF IsWeight

\* There is such a sum for the first m, whatever m.
SumsTo(w, s, m) ==
    \E f : f = [n \in 0..m |-> IF n = 0 THEN 0 ELSE f[n - 1] + w[s[n]]]

LEMMA OneMore ==
    ASSUME NEW w, NEW s, NEW m \in Nat \ {0}, SumsTo(w, s, m - 1)
    PROVE  SumsTo(w, s, m)
<1>1. PICK f : f = [n \in 0..(m - 1) |-> IF n = 0 THEN 0 ELSE f[n - 1] + w[s[n]]] BY DEF SumsTo
<1> DEFINE g == [n \in 0..m |-> IF n = m THEN f[m - 1] + w[s[m]] ELSE f[n]]
<1>2. \A n \in 0..m : g[n] = IF n = 0 THEN 0 ELSE g[n - 1] + w[s[n]]
  <2> SUFFICES ASSUME NEW n \in 0..m PROVE g[n] = IF n = 0 THEN 0 ELSE g[n - 1] + w[s[n]] OBVIOUS
  <2>1. CASE n = m
    <3>1. n # 0 /\ n - 1 \in 0..m /\ n - 1 # m BY <2>1
    <3>2. g[n] = f[m - 1] + w[s[m]] BY <2>1
    <3>3. g[n - 1] = f[n - 1] BY <3>1
    <3> QED BY <3>1, <3>2, <3>3, <2>1
  <2>2. CASE n # m
    <3>1. n \in 0..(m - 1) /\ g[n] = f[n] BY <2>2
    <3>2. f[n] = IF n = 0 THEN 0 ELSE f[n - 1] + w[s[n]] BY <1>1, <3>1
    <3>3. n # 0 => n - 1 \in 0..m /\ n - 1 # m /\ g[n - 1] = f[n - 1] BY <3>1
    <3> QED BY <3>1, <3>2, <3>3
  <2> QED BY <2>1, <2>2
<1>3. g = [n \in 0..m |-> g[n]] OBVIOUS
<1> HIDE DEF g
<1>4. g = [n \in 0..m |-> IF n = 0 THEN 0 ELSE g[n - 1] + w[s[n]]] BY <1>2, <1>3
<1> QED BY <1>4 DEF SumsTo

LEMMA SumsAll == ASSUME NEW w, NEW s, NEW k \in Nat PROVE SumsTo(w, s, k)
<1> DEFINE bad == {m \in Nat : ~SumsTo(w, s, m)}
<1> SUFFICES ASSUME bad # {} PROVE FALSE OBVIOUS
<1>1. PICK m \in bad : \A j \in bad : m <= j BY LeastOf
<1>2. SumsTo(w, s, 0)
  <2> DEFINE f == [n \in 0..0 |-> 0]
  <2>1. f = [n \in 0..0 |-> IF n = 0 THEN 0 ELSE f[n - 1] + w[s[n]]] OBVIOUS
  <2> QED BY <2>1 DEF SumsTo
<1>3. m \in Nat \ {0} /\ ~(m <= m - 1) /\ m - 1 \in Nat BY <1>2
<1>4. SumsTo(w, s, m - 1) BY <1>1, <1>3
<1> QED BY <1>3, <1>4, OneMore

\* Whatever is computed that way adds the weights.
LEMMA SumAdds ==
    ASSUME NEW w, IsWeight(w), NEW s \in Seq(DOMAIN w),
           NEW f, f = [n \in 0..Len(s) |-> IF n = 0 THEN 0 ELSE f[n - 1] + w[s[n]]]
    PROVE  Adds(w, s, f)
<1>1. DOMAIN f = 0..Len(s) /\ f[0] = 0 OBVIOUS
<1>2. \A n \in 1..Len(s) : f[n] = f[n - 1] + w[s[n]]
  <2> SUFFICES ASSUME NEW n \in 1..Len(s) PROVE f[n] = f[n - 1] + w[s[n]] OBVIOUS
  <2>1. n \in 0..Len(s) /\ n # 0 OBVIOUS
  <2> QED BY <2>1
<1> DEFINE bad == {n \in 0..Len(s) : f[n] \notin Nat}
<1>3. bad = {}
  <2> SUFFICES ASSUME bad # {} PROVE FALSE OBVIOUS
  <2>1. bad \in SUBSET Nat OBVIOUS
  <2>2. PICK n \in bad : \A j \in bad : n <= j BY <2>1, LeastOf
  <2>3. n \in 1..Len(s) /\ ~(n <= n - 1) /\ n - 1 \in 0..Len(s) BY <1>1, <2>2
  <2>4. f[n - 1] \in Nat BY <2>2, <2>3
  <2>5. f[n] = f[n - 1] + w[s[n]] BY <1>2, <2>3
  <2>6. w[s[n]] \in Nat BY <2>3, WeightOf
  <2> QED BY <2>2, <2>4, <2>5, <2>6
<1>4. \A n \in 0..Len(s) : f[n] \in Nat BY <1>3
<1>5. f \in [0..Len(s) -> Nat]
  <2>1. f = [n \in 0..Len(s) |-> f[n]] OBVIOUS
  <2> QED BY ONLY <1>4, <2>1
<1> QED BY <1>1, <1>2, <1>5 DEF Adds

LEMMA SumsAgree ==
    ASSUME NEW w, NEW s \in Seq(DOMAIN w), NEW f, NEW g, Adds(w, s, f), Adds(w, s, g)
    PROVE  f = g
<1> DEFINE bad == {n \in 0..Len(s) : f[n] # g[n]}
<1>1. bad = {}
  <2> SUFFICES ASSUME bad # {} PROVE FALSE OBVIOUS
  <2>1. bad \in SUBSET Nat OBVIOUS
  <2>2. PICK n \in bad : \A j \in bad : n <= j BY <2>1, LeastOf
  <2>3. n \in 1..Len(s) /\ ~(n <= n - 1) /\ n - 1 \in 0..Len(s) BY <2>2 DEF Adds
  <2>4. f[n - 1] = g[n - 1] BY <2>2, <2>3
  <2>5. f[n] = f[n - 1] + w[s[n]] /\ g[n] = g[n - 1] + w[s[n]] BY <2>3 DEF Adds
  <2> QED BY <2>2, <2>4, <2>5
<1>2. \A n \in 0..Len(s) : f[n] = g[n] BY <1>1
<1>3. f \in [0..Len(s) -> Nat] /\ g \in [0..Len(s) -> Nat] BY DEF Adds
<1> QED BY <1>2, <1>3

\* So Total is the last of any function that adds them, and there is one.
LEMMA TotalIs ==
    ASSUME NEW w, IsWeight(w), NEW s \in Seq(DOMAIN w)
    PROVE  \E f : Adds(w, s, f) /\ Total(w, s) = f[Len(s)]
<1> DEFINE f == CHOOSE f : f = [n \in 0..Len(s) |-> IF n = 0 THEN 0 ELSE f[n - 1] + w[s[n]]]
<1>1. \E h : h = [n \in 0..Len(s) |-> IF n = 0 THEN 0 ELSE h[n - 1] + w[s[n]]]
  <2>1. Len(s) \in Nat OBVIOUS
  <2>2. SumsTo(w, s, Len(s)) BY <2>1, SumsAll
  <2> QED BY <2>2 DEF SumsTo
<1>2. f = [n \in 0..Len(s) |-> IF n = 0 THEN 0 ELSE f[n - 1] + w[s[n]]] BY <1>1
<1>3. Total(w, s) = f[Len(s)] BY DEF Total
<1> HIDE DEF f
<1>4. Adds(w, s, f) BY <1>2, SumAdds
<1> QED BY <1>3, <1>4

LEMMA TotalBy ==
    ASSUME NEW w, IsWeight(w), NEW s \in Seq(DOMAIN w), NEW f, Adds(w, s, f)
    PROVE  Total(w, s) = f[Len(s)]
<1>1. PICK g : Adds(w, s, g) /\ Total(w, s) = g[Len(s)] BY TotalIs
<1> QED BY <1>1, SumsAgree
\* A line more, and what is left of a chunk from place a on.
LEMMA TotalAppend ==
    ASSUME NEW w, IsWeight(w), NEW s \in Seq(DOMAIN w), NEW i \in DOMAIN w
    PROVE  Total(w, Append(s, i)) = Total(w, s) + w[i]
<1>1. PICK f : Adds(w, s, f) /\ Total(w, s) = f[Len(s)] BY TotalIs
<1> DEFINE t == Append(s, i)
           g == [n \in 0..Len(t) |-> IF n = Len(t) THEN f[Len(s)] + w[i] ELSE f[n]]
<1>2. t \in Seq(DOMAIN w) /\ Len(t) = Len(s) + 1 /\ t[Len(t)] = i /\ \A n \in 1..Len(s) : t[n] = s[n] OBVIOUS
<1>3. Len(s) \in Nat OBVIOUS
<1>4. w[t[Len(t)]] \in Nat \ {0}
  <2>1. Len(t) \in 1..Len(t) BY <1>2, <1>3
  <2> HIDE DEF t
  <2> QED BY <1>2, <2>1, WeightOf
<1> HIDE DEF t
<1>5. Adds(w, t, g)
  <2>1. f \in [0..Len(s) -> Nat] /\ f[0] = 0 BY <1>1 DEF Adds
  <2>2. \A n \in 0..Len(t) : n # Len(t) => n \in 0..Len(s) BY <1>2, <1>3
  <2>3. Len(s) \in 0..Len(s) /\ f[Len(s)] \in Nat BY <1>3, <2>1
  <2>4. g \in [0..Len(t) -> Nat]
    <3>1. \A n \in 0..Len(t) : g[n] \in Nat BY <1>2, <1>4, <2>1, <2>2, <2>3
    <3> QED BY <3>1
  <2>5. g[0] = 0 BY <1>2, <1>3, <2>1
  <2>6. \A n \in 1..Len(t) : g[n] = g[n - 1] + w[t[n]]
    <3> SUFFICES ASSUME NEW n \in 1..Len(t) PROVE g[n] = g[n - 1] + w[t[n]] OBVIOUS
    <3>1. n - 1 \in 0..Len(t) /\ n - 1 # Len(t) /\ n \in 0..Len(t) BY <1>2, <1>3
    <3>2. g[n - 1] = f[n - 1] BY <3>1
    <3>3. CASE n = Len(t) BY <1>2, <1>3, <3>1, <3>2, <3>3
    <3>4. CASE n # Len(t)
      <4>1. n \in 1..Len(s) /\ t[n] = s[n] BY <1>2, <1>3, <3>4
      <4>2. f[n] = f[n - 1] + w[s[n]] BY <1>1, <4>1 DEF Adds
      <4> QED BY <3>1, <3>2, <3>4, <4>1, <4>2
    <3> QED BY <3>3, <3>4
  <2> QED BY <2>4, <2>5, <2>6 DEF Adds
<1>6. Total(w, t) = g[Len(t)] BY <1>2, <1>5, TotalBy
<1>7. Len(t) \in 0..Len(t) BY <1>2, <1>3
<1> QED BY <1>1, <1>6, <1>7 DEF t

LEMMA TotalRest ==
    ASSUME NEW w, IsWeight(w), NEW s \in Seq(DOMAIN w),
           NEW f, Adds(w, s, f), NEW a \in 1..(Len(s) + 1)
    PROVE  Total(w, SubSeq(s, a, Len(s))) = f[Len(s)] - f[a - 1]
<1> DEFINE t == SubSeq(s, a, Len(s))
           g == [n \in 0..Len(t) |-> f[a - 1 + n] - f[a - 1]]
<1>1. Len(s) \in Nat /\ a \in Nat OBVIOUS
<1>2. t \in Seq(DOMAIN w) /\ Len(t) = Len(s) + 1 - a /\ \A n \in 1..Len(t) : t[n] = s[a - 1 + n] BY <1>1
<1>3. f \in [0..Len(s) -> Nat] BY DEF Adds
<1> HIDE DEF t
<1>4. \A n \in 1..Len(t) : /\ a - 1 + n \in 1..Len(s) /\ a - 1 + (n - 1) \in 0..Len(s)
                            /\ f[a - 1 + n] = f[a - 1 + (n - 1)] + w[t[n]]
  <2> SUFFICES ASSUME NEW n \in 1..Len(t)
               PROVE  /\ a - 1 + n \in 1..Len(s) /\ a - 1 + (n - 1) \in 0..Len(s)
                      /\ f[a - 1 + n] = f[a - 1 + (n - 1)] + w[t[n]]
      OBVIOUS
  <2>1. a - 1 + n \in 1..Len(s) /\ a - 1 + (n - 1) \in 0..Len(s) /\ (a - 1 + n) - 1 = a - 1 + (n - 1) BY <1>1, <1>2
  <2>2. f[a - 1 + n] = f[(a - 1 + n) - 1] + w[s[a - 1 + n]] BY <2>1 DEF Adds
  <2> QED BY <1>2, <2>1, <2>2
<1>5. \A n \in 0..Len(t) : f[a - 1 + n] - f[a - 1] \in Int
  <2> SUFFICES ASSUME NEW n \in 0..Len(t) PROVE f[a - 1 + n] - f[a - 1] \in Int OBVIOUS
  <2>1. a - 1 + n \in 0..Len(s) /\ a - 1 \in 0..Len(s) BY <1>1, <1>2
  <2> QED BY <1>3, <2>1
<1>6. \A n \in 0..Len(t) : g[n] = f[a - 1 + n] - f[a - 1] OBVIOUS
<1> HIDE DEF g
<1>7. g[0] = 0
  <2>1. a - 1 \in 0..Len(s) /\ 0 \in 0..Len(t) /\ a - 1 + 0 = a - 1 BY <1>1, <1>2
  <2> QED BY <1>3, <1>6, <2>1
<1>8. \A n \in 1..Len(t) : g[n] = g[n - 1] + w[t[n]]
  <2> SUFFICES ASSUME NEW n \in 1..Len(t) PROVE g[n] = g[n - 1] + w[t[n]] OBVIOUS
  <2>1. n \in 0..Len(t) /\ n - 1 \in 0..Len(t) /\ a - 1 \in 0..Len(s) BY <1>1, <1>2
  <2>2. g[n] = f[a - 1 + n] - f[a - 1] /\ g[n - 1] = f[a - 1 + (n - 1)] - f[a - 1] BY <1>6, <2>1
  <2>3. a - 1 + n \in 0..Len(s) /\ a - 1 + (n - 1) \in 0..Len(s) BY <1>1, <1>2
  <2>4. f[a - 1 + n] \in Nat /\ f[a - 1 + (n - 1)] \in Nat /\ f[a - 1] \in Nat BY ONLY <1>3, <2>1, <2>3
  <2>5. w[t[n]] \in Nat BY <1>2, WeightOf
  <2>6. f[a - 1 + n] = f[a - 1 + (n - 1)] + w[t[n]] BY <1>4
  <2> DEFINE x == f[a - 1 + n]
             y == f[a - 1 + (n - 1)]
             z == f[a - 1]
             v == w[t[n]]
  <2>7. x \in Nat /\ y \in Nat /\ z \in Nat /\ v \in Nat /\ x = y + v /\ g[n] = x - z /\ g[n - 1] = y - z
        BY ONLY <2>2, <2>4, <2>5, <2>6
  <2> HIDE DEF x, y, z, v
  <2>8. g[n] = g[n - 1] + v BY ONLY <2>7
  <2> QED BY <2>8 DEF v
<1>9. Adds(w, t, g)
  <2>1. DOMAIN g = 0..Len(t) BY DEF g
  <2> DEFINE bad == {n \in 0..Len(t) : g[n] \notin Nat}
  <2>2. bad = {}
    <3> SUFFICES ASSUME bad # {} PROVE FALSE OBVIOUS
    <3>1. bad \in SUBSET Nat OBVIOUS
    <3>2. PICK n \in bad : \A j \in bad : n <= j BY <3>1, LeastOf
    <3>3. n \in 1..Len(t) /\ ~(n <= n - 1) /\ n - 1 \in 0..Len(t) BY <1>7, <3>2
    <3>4. g[n - 1] \in Nat BY <3>2, <3>3
    <3>5. w[t[n]] \in Nat BY <1>2, <3>3, WeightOf
    <3> QED BY <1>8, <3>2, <3>3, <3>4, <3>5
  <2>3. \A n \in 0..Len(t) : g[n] \in Nat BY <2>2
  <2>4. g \in [0..Len(t) -> Nat]
    <3>1. g = [n \in 0..Len(t) |-> g[n]] BY <2>1 DEF g
    <3> QED BY ONLY <2>3, <3>1
  <2> QED BY <1>7, <1>8, <2>4 DEF Adds
<1>10. Total(w, t) = g[Len(t)] BY <1>2, <1>9, TotalBy
<1>11. Len(t) \in 0..Len(t) /\ a - 1 + Len(t) = Len(s) BY <1>1, <1>2
<1> QED BY <1>6, <1>10, <1>11 DEF t

\* A total is at most four times another if each weight is.
LEMMA TotalWithin ==
    ASSUME NEW w, IsWeight(w), NEW v, IsWeight(v), DOMAIN v = DOMAIN w, \A i \in DOMAIN w : w[i] <= 4 * v[i],
           NEW s \in Seq(DOMAIN w), s # <<>>
    PROVE  Total(w, s) \in Nat \ {0} /\ Total(v, s) \in Nat /\ Total(w, s) <= 4 * Total(v, s)
<1>1. PICK f : Adds(w, s, f) /\ Total(w, s) = f[Len(s)] BY TotalIs
<1>2. PICK g : Adds(v, s, g) /\ Total(v, s) = g[Len(s)] BY TotalIs
<1>3. Len(s) \in Nat \ {0} OBVIOUS
<1>4. \A n \in 0..Len(s) : f[n] \in Nat /\ g[n] \in Nat BY <1>1, <1>2 DEF Adds
<1>5. \A n \in 1..Len(s) : n - 1 \in 0..Len(s) /\ n \in 0..Len(s) BY <1>3
<1>6. \A n \in 1..Len(s) : /\ w[s[n]] \in Nat \ {0} /\ v[s[n]] \in Nat /\ w[s[n]] <= 4 * v[s[n]]
                            /\ f[n] = f[n - 1] + w[s[n]] /\ g[n] = g[n - 1] + v[s[n]]
  <2> SUFFICES ASSUME NEW n \in 1..Len(s)
               PROVE  /\ w[s[n]] \in Nat \ {0} /\ v[s[n]] \in Nat /\ w[s[n]] <= 4 * v[s[n]]
                      /\ f[n] = f[n - 1] + w[s[n]] /\ g[n] = g[n - 1] + v[s[n]]
      OBVIOUS
  <2>1. s[n] \in DOMAIN w OBVIOUS
  <2>2. w[s[n]] \in Nat \ {0} /\ v[s[n]] \in Nat BY <2>1 DEF IsWeight
  <2>3. f[n] = f[n - 1] + w[s[n]] BY <1>1 DEF Adds
  <2>4. g[n] = g[n - 1] + v[s[n]] BY <1>2 DEF Adds
  <2> QED BY <2>1, <2>2, <2>3, <2>4
<1> DEFINE bad == {n \in 0..Len(s) : ~(f[n] <= 4 * g[n])}
<1>7. bad = {}
  <2> SUFFICES ASSUME bad # {} PROVE FALSE OBVIOUS
  <2>1. bad \in SUBSET Nat OBVIOUS
  <2>2. PICK n \in bad : \A j \in bad : n <= j BY <2>1, LeastOf
  <2>3. n # 0
    <3>1. f[0] = 0 /\ g[0] = 0 BY <1>1, <1>2 DEF Adds
    <3> QED BY <2>2, <3>1
  <2>4. n \in 1..Len(s) /\ ~(n <= n - 1) /\ n - 1 \in 0..Len(s) BY <1>3, <2>2, <2>3
  <2>5. f[n - 1] <= 4 * g[n - 1] BY <2>2, <2>4
  <2> DEFINE x == f[n]
             y == f[n - 1]
             z == g[n]
             u == g[n - 1]
             a == w[s[n]]
             b == v[s[n]]
  <2>6. /\ x \in Nat /\ y \in Nat /\ z \in Nat /\ u \in Nat /\ a \in Nat /\ b \in Nat
        /\ y <= 4 * u /\ a <= 4 * b /\ x = y + a /\ z = u + b
        BY <1>4, <1>5, <1>6, <2>4, <2>5
  <2> HIDE DEF x, y, z, u, a, b
  <2>7. x <= 4 * z BY ONLY <2>6
  <2> QED BY <2>2, <2>7 DEF x, z
<1>8. Len(s) \in 0..Len(s) /\ Len(s) \in 1..Len(s) BY <1>3
<1>9. f[Len(s)] <= 4 * g[Len(s)] BY <1>7, <1>8
<1>10. f[Len(s)] # 0
  <2>1. f[Len(s)] = f[Len(s) - 1] + w[s[Len(s)]] /\ w[s[Len(s)]] \in Nat \ {0} /\ f[Len(s) - 1] \in Nat
        BY <1>4, <1>5, <1>6, <1>8
  <2> QED BY ONLY <2>1
<1> QED BY <1>1, <1>2, <1>4, <1>8, <1>9, <1>10

\* The weights of a text: what a line costs, and its size.
Costs(lines) == [i \in DOMAIN lines |-> Cost(lines[i])]
Sizes(lines) == [i \in DOMAIN lines |-> lines[i].size]

LEMMA LineWeights ==
    ASSUME NEW lines, IsText(lines)
    PROVE  /\ IsWeight(Costs(lines)) /\ DOMAIN Costs(lines) = DOMAIN lines
           /\ IsWeight(Sizes(lines)) /\ DOMAIN Sizes(lines) = DOMAIN lines
           /\ \A i \in DOMAIN lines : /\ Costs(lines)[i] = Cost(lines[i]) /\ Cost(lines[i]) \in Nat \ {0}
                                      /\ Sizes(lines)[i] <= 4 * Costs(lines)[i]
<1> DEFINE Line == [kind : {"text", "heading", "page"}, size : Nat \ {0}]
<1>1. lines \in Seq(Line) BY DEF IsText
<1>2. \A r \in Line : r.size \in Nat \ {0} OBVIOUS
<1> HIDE DEF Line
<1>3. \A i \in DOMAIN lines : lines[i].size \in Nat \ {0} BY <1>1, <1>2
<1>4. \A z \in Nat \ {0} : estimateTokens(z) \in Nat \ {0} /\ z <= 4 * estimateTokens(z)
  <2> SUFFICES ASSUME NEW z \in Nat \ {0} PROVE estimateTokens(z) \in Nat \ {0} /\ z <= 4 * estimateTokens(z) OBVIOUS
  <2>1. estimateTokens(z) = (z + 3) \div 4 BY DEF estimateTokens
  <2>2. (z + 3) \div 4 \in Nat \ {0} /\ z <= 4 * ((z + 3) \div 4) OBVIOUS
  <2> QED BY <2>1, <2>2
<1>5. \A i \in DOMAIN lines : Cost(lines[i]) \in Nat \ {0} /\ lines[i].size <= 4 * Cost(lines[i]) BY <1>3, <1>4 DEF Cost
<1> QED BY <1>3, <1>5 DEF Costs, Sizes, IsWeight

LEMMA TokensTotal == ASSUME NEW lines, NEW s PROVE Tokens(lines, s) = Total(Costs(lines), s)
BY DEF Tokens, Costs

\* A line more costs what it costs; no line costs nothing.
LEMMA TokensAppend ==
    ASSUME NEW lines, IsText(lines), NEW s \in Seq(DOMAIN lines), NEW i \in DOMAIN lines
    PROVE  Tokens(lines, Append(s, i)) = Tokens(lines, s) + Cost(lines[i])
<1>1. PICK w : w = Costs(lines) OBVIOUS
<1>2. IsWeight(w) /\ DOMAIN w = DOMAIN lines /\ w[i] = Cost(lines[i]) BY <1>1, LineWeights
<1>3. Total(w, Append(s, i)) = Total(w, s) + w[i] BY <1>2, TotalAppend
<1> QED BY <1>1, <1>2, <1>3, TokensTotal

LEMMA TokensNone == ASSUME NEW lines, IsText(lines) PROVE Tokens(lines, <<>>) = 0
<1>1. PICK w : w = Costs(lines) OBVIOUS
<1>2. IsWeight(w) BY <1>1, LineWeights
<1> DEFINE f == [k \in 0..0 |-> 0]
<1>3. <<>> \in Seq(DOMAIN w) /\ Len(<<>>) = 0 OBVIOUS
<1>4. Adds(w, <<>>, f) BY <1>3 DEF Adds
<1>5. Total(w, <<>>) = f[Len(<<>>)] BY <1>2, <1>3, <1>4, TotalBy
<1> QED BY <1>1, <1>3, <1>5, TokensTotal

\* Joined, lines cost at most half a token more for each of them.
LEMMA JoinedCosts ==
    ASSUME NEW lines, IsText(lines), NEW s \in Seq(DOMAIN lines), s # <<>>
    PROVE  /\ Tokens(lines, s) \in Nat /\ estimateTokens(Joined(lines, s)) \in Nat
           /\ estimateTokens(Joined(lines, s)) <= Tokens(lines, s) + Len(s) \div 2
<1>1. PICK w : w = Sizes(lines) OBVIOUS
<1>2. PICK v : v = Costs(lines) OBVIOUS
<1>3. /\ IsWeight(w) /\ IsWeight(v) /\ DOMAIN v = DOMAIN w /\ DOMAIN w = DOMAIN lines
      /\ \A i \in DOMAIN w : w[i] <= 4 * v[i]
      BY <1>1, <1>2, LineWeights
<1>4. Total(w, s) \in Nat \ {0} /\ Total(v, s) \in Nat /\ Total(w, s) <= 4 * Total(v, s) BY <1>3, TotalWithin
<1>5. Joined(lines, s) = Total(w, s) + 2 * (Len(s) - 1) BY <1>1 DEF Joined, Sizes
<1>6. Tokens(lines, s) = Total(v, s) BY <1>2, TokensTotal
<1> DEFINE x == Total(w, s)
           t == Total(v, s)
           m == Len(s)
           z == x + 2 * (m - 1)
<1>7. x \in Nat \ {0} /\ t \in Nat /\ x <= 4 * t /\ m \in Nat \ {0} BY <1>4
<1> HIDE DEF x, t, m
<1>8. z \in Nat \ {0} BY <1>7
<1>9. estimateTokens(z) = (z + 3) \div 4 BY <1>8 DEF estimateTokens
<1>10. (z + 3) \div 4 \in Nat /\ 4 * ((z + 3) \div 4) <= z + 3 BY <1>8
<1>11. m \div 2 \in Nat /\ m <= 2 * (m \div 2) + 1 BY <1>7
<1>12. (z + 3) \div 4 <= t + m \div 2 BY <1>7, <1>10, <1>11
<1> QED BY <1>5, <1>6, <1>7, <1>9, <1>10, <1>12 DEF x, t, m

\* What the property says of a chunk, and of two that follow each other.
Said(lines) == {i \in DOMAIN lines : lines[i].kind # "page"}
Headings(lines) == {i \in Said(lines) : lines[i].kind = "heading"}
Latest(lines, i, h) ==
    /\ h \in {g \in Headings(lines) : g <= i} \cup {0}
    /\ \A g \in Headings(lines) : g <= i => g <= h
Fits(lines, t) ==
    t <= MaxTokens \/ \E i, j \in Said(lines) : t < OverlapTokens + Cost(lines[i]) + Cost(lines[j])
Run(lines, s) ==
    /\ s \in Seq(Said(lines)) /\ s # <<>>
    /\ \A i, j \in 1..Len(s) : i < j => s[i] < s[j]
    /\ \A i \in Said(lines) : s[1] <= i /\ i <= s[Len(s)] => \E k \in 1..Len(s) : s[k] = i
    /\ \A j \in 2..Len(s) : s[j] \notin Headings(lines)
Whole(lines, c) ==
    /\ Run(lines, c.lines) /\ Latest(lines, c.lines[1], c.section)
    /\ \E t \in Nat : Fits(lines, t) /\ c.tokens <= t + Len(c.lines) \div 2
FitsJoined(lines, c) ==
    \/ c.tokens <= MaxTokens + Len(c.lines) \div 2
    \/ \E i, j \in Said(lines) : c.tokens < OverlapTokens + Cost(lines[i]) + Cost(lines[j]) + Len(c.lines) \div 2
After(s, t) == t[1] >= s[1] /\ t[Len(t)] > s[Len(s)]

LEMMA SaidLines ==
    ASSUME NEW lines, IsText(lines)
    PROVE  /\ DOMAIN lines = 1..Len(lines) /\ Len(lines) \in Nat
           /\ \A i \in DOMAIN lines : Cost(lines[i]) \in Nat \ {0} /\ lines[i].kind \in {"text", "heading", "page"}
           /\ \A i \in Said(lines) : i \in Nat \ {0} /\ i \in DOMAIN lines
           /\ Said(lines) \in SUBSET DOMAIN lines
<1> DEFINE Line == [kind : {"text", "heading", "page"}, size : Nat \ {0}]
<1>1. lines \in Seq(Line) BY DEF IsText
<1> HIDE DEF Line
<1>2. DOMAIN lines = 1..Len(lines) /\ Len(lines) \in Nat /\ \A i \in DOMAIN lines : lines[i] \in Line BY <1>1
<1>3. \A r \in Line : r.kind \in {"text", "heading", "page"} BY DEF Line
<1>4. \A i \in 1..Len(lines) : i \in Nat \ {0} BY <1>2
<1>5. \A i \in DOMAIN lines : Cost(lines[i]) \in Nat \ {0} BY LineWeights
<1> QED BY <1>2, <1>3, <1>4, <1>5 DEF Said

\* A run begins with a line, goes on with the next, and ends with its end.
LEMMA RunOne ==
    ASSUME NEW lines, IsText(lines), NEW i \in Said(lines)
    PROVE  Run(lines, <<i>>)
BY SaidLines DEF Run

LEMMA RunMore ==
    ASSUME NEW lines, IsText(lines), NEW s, Run(lines, s), NEW i \in Said(lines) \ Headings(lines), s[Len(s)] < i,
           \A g \in Said(lines) : g < i => g <= s[Len(s)]
    PROVE  Run(lines, Append(s, i))
<1> DEFINE t == Append(s, i)
<1>1. s \in Seq(Said(lines)) /\ Len(s) \in Nat \ {0} /\ \A k \in 1..Len(s) : s[k] \in Nat BY SaidLines DEF Run
<1>2. t \in Seq(Said(lines)) /\ Len(t) = Len(s) + 1 /\ t[Len(t)] = i /\ \A n \in 1..Len(s) : t[n] = s[n] BY <1>1
<1>3. i \in Nat /\ \A g \in Said(lines) : g \in Nat BY SaidLines
<1> HIDE DEF t
<1>4. t # <<>> BY <1>1, <1>2
<1>5. \A k \in 1..Len(s) : s[k] <= s[Len(s)]
  <2>1. \A k \in 1..Len(s) : k # Len(s) => s[k] < s[Len(s)] BY <1>1 DEF Run
  <2> QED BY <1>1, <2>1
<1>6. \A k, j \in 1..Len(t) : k < j => t[k] < t[j]
  <2> SUFFICES ASSUME NEW k \in 1..Len(t), NEW j \in 1..Len(t), k < j PROVE t[k] < t[j] OBVIOUS
  <2>1. k \in 1..Len(s) /\ t[k] = s[k] BY <1>1, <1>2
  <2>2. CASE j = Len(t) BY <1>1, <1>2, <1>3, <1>5, <2>1, <2>2
  <2>3. CASE j # Len(t)
    <3>1. j \in 1..Len(s) /\ t[j] = s[j] BY <1>1, <1>2, <2>3
    <3> QED BY <2>1, <3>1 DEF Run
  <2> QED BY <2>2, <2>3
<1>7. \A g \in Said(lines) : t[1] <= g /\ g <= t[Len(t)] => \E k \in 1..Len(t) : t[k] = g
  <2> SUFFICES ASSUME NEW g \in Said(lines), t[1] <= g, g <= t[Len(t)] PROVE \E k \in 1..Len(t) : t[k] = g OBVIOUS
  <2>1. CASE g = i BY <1>1, <1>2, <2>1
  <2>2. CASE g # i
    <3>1. g < i BY <1>2, <1>3, <2>2
    <3>2. g <= s[Len(s)] /\ s[1] <= g BY <1>1, <1>2, <3>1
    <3>3. PICK k \in 1..Len(s) : s[k] = g BY <3>2 DEF Run
    <3>4. k \in 1..Len(t) /\ t[k] = g BY <1>1, <1>2, <3>3
    <3> QED BY <3>4
  <2> QED BY <2>1, <2>2
<1>8. \A j \in 2..Len(t) : t[j] \notin Headings(lines)
  <2> SUFFICES ASSUME NEW j \in 2..Len(t) PROVE t[j] \notin Headings(lines) OBVIOUS
  <2>1. CASE j = Len(t) BY <1>2, <2>1
  <2>2. CASE j # Len(t)
    <3>1. j \in 2..Len(s) /\ j \in 1..Len(s) BY <1>1, <1>2, <2>2
    <3> QED BY <1>2, <3>1 DEF Run
  <2> QED BY <2>1, <2>2
<1>9. Run(lines, t) BY <1>2, <1>4, <1>6, <1>7, <1>8 DEF Run
<1> QED BY <1>9 DEF t

LEMMA RunRest ==
    ASSUME NEW lines, IsText(lines), NEW s, Run(lines, s), NEW a \in 1..Len(s)
    PROVE  LET t == SubSeq(s, a, Len(s)) IN Run(lines, t) /\ t[1] = s[a] /\ t[Len(t)] = s[Len(s)]
<1> DEFINE t == SubSeq(s, a, Len(s))
<1>1. s \in Seq(Said(lines)) /\ Len(s) \in Nat \ {0} /\ \A k \in 1..Len(s) : s[k] \in Nat BY SaidLines DEF Run
<1>2. t \in Seq(Said(lines)) /\ Len(t) = Len(s) + 1 - a /\ \A n \in 1..Len(t) : t[n] = s[a - 1 + n] BY <1>1
<1> HIDE DEF t
<1>3. Len(t) \in Nat \ {0} /\ a \in Nat \ {0} BY <1>1, <1>2
<1>4. \A n \in 1..Len(t) : a - 1 + n \in 1..Len(s) BY <1>1, <1>2, <1>3
<1>5. t[1] = s[a] /\ t[Len(t)] = s[Len(s)]
  <2>1. 1 \in 1..Len(t) /\ Len(t) \in 1..Len(t) /\ a - 1 + 1 = a /\ a - 1 + Len(t) = Len(s) BY <1>1, <1>2, <1>3
  <2> QED BY <1>2, <2>1
<1>6. \A i, j \in 1..Len(t) : i < j => t[i] < t[j]
  <2> SUFFICES ASSUME NEW i \in 1..Len(t), NEW j \in 1..Len(t), i < j PROVE t[i] < t[j] OBVIOUS
  <2>1. a - 1 + i \in 1..Len(s) /\ a - 1 + j \in 1..Len(s) /\ a - 1 + i < a - 1 + j BY <1>3, <1>4
  <2>2. s[a - 1 + i] < s[a - 1 + j] BY <2>1 DEF Run
  <2> QED BY <1>2, <2>2
<1>7. \A i \in Said(lines) : t[1] <= i /\ i <= t[Len(t)] => \E k \in 1..Len(t) : t[k] = i
  <2> SUFFICES ASSUME NEW i \in Said(lines), t[1] <= i, i <= t[Len(t)] PROVE \E k \in 1..Len(t) : t[k] = i OBVIOUS
  <2>1. i \in Nat BY SaidLines
  <2>2. s[1] <= s[a]
    <3>1. CASE a = 1 BY <1>1, <3>1
    <3>2. CASE a # 1
      <4>1. 1 \in 1..Len(s) /\ a \in 1..Len(s) /\ 1 < a BY <1>1, <3>2
      <4>2. s[1] < s[a] BY <4>1 DEF Run
      <4> QED BY <1>1, <4>1, <4>2
    <3> QED BY <3>1, <3>2
  <2>3. s[1] \in Nat /\ s[a] \in Nat BY <1>1
  <2>4. s[1] <= i /\ i <= s[Len(s)] BY <1>5, <2>1, <2>2, <2>3
  <2>5. PICK m \in 1..Len(s) : s[m] = i BY <2>4 DEF Run
  <2>6. ~(m < a)
    <3> SUFFICES ASSUME m < a PROVE FALSE OBVIOUS
    <3>1. s[m] < s[a] BY <1>1 DEF Run
    <3> QED BY <1>5, <2>1, <2>3, <2>5, <3>1
  <2>7. m - a + 1 \in 1..Len(t) /\ a - 1 + (m - a + 1) = m BY <1>1, <1>2, <1>3, <2>6
  <2>8. t[m - a + 1] = i BY <1>2, <2>5, <2>7
  <2> QED BY <2>7, <2>8
<1>8. \A j \in 2..Len(t) : t[j] \notin Headings(lines)
  <2> SUFFICES ASSUME NEW j \in 2..Len(t) PROVE t[j] \notin Headings(lines) OBVIOUS
  <2>1. j \in 1..Len(t) /\ a - 1 + j \in 2..Len(s) BY <1>1, <1>2, <1>3
  <2> QED BY <1>2, <2>1 DEF Run
<1>9. t # <<>> BY <1>3
<1>10. Run(lines, t) BY <1>2, <1>6, <1>7, <1>8, <1>9 DEF Run
<1> QED BY <1>5, <1>10 DEF t

\* What is carried over: the end of a run with at least the overlap, and less
\* than that without its first line.
LEMMA TailIs ==
    ASSUME NEW lines, IsText(lines), NEW s \in Seq(DOMAIN lines), NEW total, total = Tokens(lines, s)
    PROVE  \E a \in 1..(Len(s) + 1) :
               /\ OverlapTail(lines, s, total) = SubSeq(s, a, Len(s))
               /\ a = Len(s) + 1 => Tokens(lines, SubSeq(s, a, Len(s))) = 0
               /\ a # Len(s) + 1 => Tokens(lines, SubSeq(s, a, Len(s))) < OverlapTokens + Cost(lines[s[a]])
<1>0. PICK w : w = Costs(lines) OBVIOUS
<1>w. IsWeight(w) /\ DOMAIN w = DOMAIN lines /\ (\A i \in DOMAIN lines : w[i] = Cost(lines[i]))
      /\ \A x : Tokens(lines, x) = Total(w, x)
      BY <1>0, LineWeights, TokensTotal
<1>1. PICK f : Adds(w, s, f) /\ total = f[Len(s)] BY <1>w, TotalIs
<1> DEFINE n == Len(s)
           wanted == IF OverlapTokens < total THEN OverlapTokens ELSE total
           rest(k) == Tokens(lines, SubSeq(s, n - k + 1, n))
           ends == {k \in 0..n : rest(k) >= wanted}
           least == CHOOSE k \in ends : \A j \in ends : k <= j
<1>2. n \in Nat /\ f \in [0..n -> Nat] /\ f[0] = 0 /\ total \in Nat
  <2>1. n \in Nat OBVIOUS
  <2>2. f \in [0..n -> Nat] /\ f[0] = 0 BY <1>1 DEF Adds
  <2>3. n \in 0..n BY <2>1
  <2>4. f[n] \in Nat BY ONLY <2>2, <2>3
  <2> QED BY <1>1, <2>1, <2>2, <2>4
<1>3. OverlapTail(lines, s, total) = SubSeq(s, n - least + 1, n) BY DEF OverlapTail
<1>4. \A k \in 0..n : rest(k) = f[n] - f[n - k]
  <2> SUFFICES ASSUME NEW k \in 0..n PROVE rest(k) = f[n] - f[n - k] OBVIOUS
  <2>1. n - k + 1 \in 1..(n + 1) /\ (n - k + 1) - 1 = n - k BY <1>2
  <2>2. rest(k) = f[n] - f[(n - k + 1) - 1] BY <1>1, <1>w, <2>1, TotalRest
  <2> QED BY <2>1, <2>2
<1>5. wanted \in Nat /\ wanted <= OverlapTokens /\ wanted <= total BY <1>2, TokenAssumption
<1> HIDE DEF wanted, rest
<1>6. n \in ends
  <2>1. n \in 0..n /\ n - n = 0 BY <1>2
  <2>2. rest(n) = f[n] - f[0] BY <1>4, <2>1
  <2>3. rest(n) >= wanted BY <1>1, <1>2, <1>5, <2>2
  <2> QED BY <2>1, <2>3
<1>7. least \in ends /\ \A j \in ends : least <= j
  <2>1. ends \in SUBSET Nat BY <1>2
  <2>2. \E k \in ends : \A j \in ends : k <= j BY <1>6, <2>1, LeastOf
  <2> QED BY ONLY <2>2
<1> HIDE DEF least
<1>8. least \in 0..n BY <1>7
<1>9. n - least + 1 \in 1..(n + 1) /\ (n - least + 1 = n + 1 <=> least = 0) BY <1>2, <1>8
<1>10. least = 0 => rest(least) = 0
  <2>1. n - 0 = n /\ 0 \in 0..n /\ f[n] \in Nat /\ f[n] - f[n] = 0 BY <1>1, <1>2
  <2> QED BY <1>4, <2>1
<1>11. ASSUME least # 0 PROVE rest(least) < OverlapTokens + Cost(lines[s[n - least + 1]])
  <2> DEFINE a == n - least + 1
  <2>1. least - 1 \in 0..n /\ ~(least <= least - 1) BY <1>2, <1>8, <1>11
  <2>2. ~(rest(least - 1) >= wanted) BY <1>7, <2>1
  <2>3. n - least = a - 1 /\ n - (least - 1) = a /\ a \in 1..n /\ a - 1 \in 0..n /\ a \in 0..n /\ n \in 0..n
        BY <1>2, <1>8, <1>11
  <2> HIDE DEF a
  <2>4. rest(least) = f[n] - f[a - 1] /\ rest(least - 1) = f[n] - f[a] BY <1>4, <1>8, <2>1, <2>3
  <2>5. f[a] = f[a - 1] + Cost(lines[s[a]])
    <3>1. f[a] = f[a - 1] + w[s[a]] BY <1>1, <2>3 DEF Adds
    <3>2. s[a] \in DOMAIN lines BY <2>3
    <3> QED BY <1>w, <3>1, <3>2
  <2>6. f[a] \in Nat /\ f[a - 1] \in Nat /\ f[n] \in Nat BY ONLY <1>2, <2>3
  <2>7. Cost(lines[s[a]]) \in Nat
    <3>1. s[a] \in DOMAIN lines BY <2>3
    <3> QED BY <3>1, LineWeights
  <2> DEFINE x == f[n]
             y == f[a]
             z == f[a - 1]
             v == Cost(lines[s[a]])
  <2>8. /\ x \in Nat /\ y \in Nat /\ z \in Nat /\ v \in Nat /\ wanted \in Nat
        /\ rest(least) = x - z /\ ~(x - y >= wanted) /\ y = z + v /\ wanted <= OverlapTokens
        BY ONLY <1>5, <2>2, <2>4, <2>5, <2>6, <2>7
  <2> HIDE DEF x, y, z, v
  <2>9. rest(least) < OverlapTokens + v BY ONLY <2>8, TokenAssumption
  <2> QED BY <2>9 DEF a, v
<1>12. PICK a \in 1..(n + 1) : a = n - least + 1 /\ (a = n + 1 <=> least = 0) BY <1>9
<1>13. OverlapTail(lines, s, total) = SubSeq(s, a, n) BY <1>3, <1>12
<1>14. rest(least) = Tokens(lines, SubSeq(s, a, n)) BY <1>12 DEF rest
<1> QED BY <1>10, <1>11, <1>12, <1>13, <1>14
\* The chunker, before it reads a line: the chunks it has closed hold what the
\* property says and carry every line before its current one, which is a run
\* of lines up to the last one it has read.
Piece == [lines : Seq(Nat), section : Nat, page : Nat, tokens : Nat]
Reader == [chunks : Seq(Piece), current : Seq(Nat), tokens : Nat, section : Nat, page : Nat]
Carried(chunks, i) == \E k \in 1..Len(chunks) : \E j \in 1..Len(chunks[k].lines) : chunks[k].lines[j] = i

ChunksHold(lines, chunks) ==
    /\ \A k \in 1..Len(chunks) : Whole(lines, chunks[k])
    /\ \A k \in 2..Len(chunks) : After(chunks[k - 1].lines, chunks[k].lines)

Before(lines, c, n) ==
    /\ c.chunks = <<>> /\ c.current = <<>> /\ c.tokens = 0 /\ c.section = 0
    /\ \A i \in Said(lines) : i > n

Amid(lines, chunks, s, section, tokens, n) ==
    /\ Run(lines, s) /\ s[Len(s)] <= n /\ Latest(lines, s[1], section)
    /\ tokens = Tokens(lines, s) /\ Fits(lines, tokens)
    /\ \A i \in Said(lines) : i <= n => i <= s[Len(s)]
    /\ \A i \in Said(lines) : i < s[1] => Carried(chunks, i)
    /\ Len(chunks) > 0 => After(chunks[Len(chunks)].lines, s)

ReadInv(lines, c, n) ==
    /\ c \in Reader /\ ChunksHold(lines, c.chunks)
    /\ Before(lines, c, n) \/ Amid(lines, c.chunks, c.current, c.section, c.tokens, n)

\* The ends of a run are numbers, and it does not end before it begins.
LEMMA RunEnds ==
    ASSUME NEW lines, IsText(lines), NEW s, Run(lines, s)
    PROVE  /\ s \in Seq(Nat) /\ s \in Seq(DOMAIN lines) /\ Len(s) \in Nat \ {0}
           /\ s[1] \in Nat /\ s[Len(s)] \in Nat /\ \A k \in 1..Len(s) : s[1] <= s[k] /\ s[k] \in Nat
           /\ s[1] <= s[Len(s)]
<1>1. s \in Seq(Said(lines)) /\ s # <<>> BY DEF Run
<1>2. Said(lines) \in SUBSET Nat /\ Said(lines) \in SUBSET DOMAIN lines BY SaidLines
<1>3. s \in Seq(Nat) /\ s \in Seq(DOMAIN lines) /\ Len(s) \in Nat \ {0} BY <1>1, <1>2
<1>4. 1 \in 1..Len(s) /\ Len(s) \in 1..Len(s) BY <1>3
<1>5. \A k \in 1..Len(s) : s[1] <= s[k] /\ s[k] \in Nat
  <2> SUFFICES ASSUME NEW k \in 1..Len(s) PROVE s[1] <= s[k] /\ s[k] \in Nat OBVIOUS
  <2>1. s[1] \in Nat /\ s[k] \in Nat BY <1>3, <1>4
  <2>2. k # 1 => s[1] < s[k] BY <1>4 DEF Run
  <2> QED BY <2>1, <2>2
<1> QED BY <1>3, <1>4, <1>5

\* A chunk is closed.
LEMMA Flushed ==
    ASSUME NEW lines, IsText(lines), NEW n \in Nat, NEW c, c \in Reader, ChunksHold(lines, c.chunks),
           Amid(lines, c.chunks, c.current, c.section, c.tokens, n)
    PROVE  LET d == Flush(lines, c) IN
           /\ d \in Reader /\ d.section = c.section /\ d.current = <<>> /\ d.tokens = 0
           /\ ChunksHold(lines, d.chunks)
           /\ Len(d.chunks) > 0 /\ d.chunks[Len(d.chunks)].lines = c.current
           /\ \A i \in Said(lines) : i <= n => Carried(d.chunks, i)
<1> DEFINE p == [lines |-> c.current, section |-> c.section, page |-> c.page, tokens |-> estimateTokens(Joined(lines, c.current))]
           d == Flush(lines, c)
           m == Len(c.chunks)
<1>1. /\ c.chunks \in Seq(Piece) /\ c.current \in Seq(Nat) /\ c.tokens \in Nat /\ c.section \in Nat /\ c.page \in Nat
      /\ DOMAIN c = {"chunks", "current", "tokens", "section", "page"}
      BY DEF Reader
<1>2. Run(lines, c.current) /\ c.current # <<>> BY DEF Amid, Run
<1>3. p.tokens \in Nat /\ p.tokens <= c.tokens + Len(c.current) \div 2
  <2>1. c.current \in Seq(DOMAIN lines) /\ c.current # <<>> BY <1>2, RunEnds
  <2>2. c.tokens = Tokens(lines, c.current) BY DEF Amid
  <2> QED BY <2>1, <2>2, JoinedCosts
<1>4. p \in Piece BY <1>1, <1>3 DEF Piece
<1>5. p.lines = c.current /\ p.section = c.section OBVIOUS
<1>6. d = [c EXCEPT !.chunks = Append(@, p), !.current = <<>>, !.tokens = 0] BY <1>2 DEF Flush
<1> HIDE DEF d, p
<1>7. /\ DOMAIN d = DOMAIN c /\ d.chunks = Append(c.chunks, p) /\ d.current = <<>> /\ d.tokens = 0
      /\ d.section = c.section /\ d.page = c.page
      BY <1>1, <1>6
<1>8. d.chunks \in Seq(Piece) /\ Len(d.chunks) = m + 1 /\ d.chunks[m + 1] = p
      /\ \A k \in 1..m : d.chunks[k] = c.chunks[k]
      BY <1>1, <1>4, <1>7
<1>9. m \in Nat BY <1>1
<1>10. d \in Reader
  <2>1. d = [chunks |-> d.chunks, current |-> d.current, tokens |-> d.tokens, section |-> d.section, page |-> d.page]
        BY <1>1, <1>6
  <2>2. d.current \in Seq(Nat) BY <1>7
  <2>3. /\ d.chunks \in Seq(Piece) /\ d.tokens \in Nat /\ d.section \in Nat /\ d.page \in Nat BY <1>1, <1>7, <1>8
  <2> QED BY ONLY <2>1, <2>2, <2>3 DEF Reader
<1>11. Whole(lines, p)
  <2>1. Fits(lines, c.tokens) /\ c.tokens \in Nat /\ p.tokens <= c.tokens + Len(p.lines) \div 2 BY <1>1, <1>3, <1>5 DEF Amid
  <2>2. Run(lines, p.lines) /\ Latest(lines, p.lines[1], p.section) BY <1>2, <1>5 DEF Amid
  <2> QED BY <2>1, <2>2 DEF Whole
<1>12. \A k \in 1..(m + 1) : Whole(lines, d.chunks[k])
  <2> SUFFICES ASSUME NEW k \in 1..(m + 1) PROVE Whole(lines, d.chunks[k]) OBVIOUS
  <2>1. CASE k = m + 1 BY <1>8, <1>11, <2>1
  <2>2. CASE k # m + 1
    <3>1. k \in 1..m BY <1>9, <2>2
    <3>2. Whole(lines, c.chunks[k]) BY <3>1 DEF ChunksHold
    <3> QED BY <1>8, <3>1, <3>2
  <2> QED BY <2>1, <2>2
<1>13. \A k \in 2..(m + 1) : After(d.chunks[k - 1].lines, d.chunks[k].lines)
  <2> SUFFICES ASSUME NEW k \in 2..(m + 1) PROVE After(d.chunks[k - 1].lines, d.chunks[k].lines) OBVIOUS
  <2>0. k - 1 \in 1..m /\ d.chunks[k - 1] = c.chunks[k - 1] BY <1>8, <1>9
  <2>1. CASE k = m + 1
    <3>1. k - 1 = m /\ m > 0 BY <1>9, <2>1
    <3>2. After(c.chunks[m].lines, c.current) BY <3>1 DEF Amid
    <3> QED BY <1>5, <1>8, <2>0, <2>1, <3>1, <3>2
  <2>2. CASE k # m + 1
    <3>1. k \in 1..m /\ k \in 2..m BY <1>9, <2>2
    <3>2. After(c.chunks[k - 1].lines, c.chunks[k].lines) BY <3>1 DEF ChunksHold
    <3> QED BY <1>8, <2>0, <3>1, <3>2
  <2> QED BY <2>1, <2>2
<1>14. ChunksHold(lines, d.chunks) BY <1>8, <1>12, <1>13 DEF ChunksHold
<1>15. ASSUME NEW i \in Said(lines), i <= n PROVE Carried(d.chunks, i)
  <2>1. i <= c.current[Len(c.current)] BY <1>15 DEF Amid
  <2>2. CASE i < c.current[1]
    <3>1. PICK k \in 1..m : \E j \in 1..Len(c.chunks[k].lines) : c.chunks[k].lines[j] = i
          BY <2>2 DEF Amid, Carried
    <3>2. k \in 1..(m + 1) /\ d.chunks[k] = c.chunks[k] BY <1>8, <1>9, <3>1
    <3> QED BY <1>8, <3>1, <3>2 DEF Carried
  <2>3. CASE ~(i < c.current[1])
    <3>1. i \in Nat BY SaidLines
    <3>2. c.current[1] \in Nat
      <4>1. 1 \in 1..Len(c.current) BY <1>1, <1>2
      <4> QED BY <1>1, <4>1
    <3>3. c.current[1] <= i BY <2>3, <3>1, <3>2
    <3>4. PICK j \in 1..Len(c.current) : c.current[j] = i BY <1>2, <2>1, <3>3 DEF Run
    <3>5. m + 1 \in 1..(m + 1) /\ d.chunks[m + 1].lines = c.current BY <1>5, <1>8, <1>9
    <3> QED BY <1>8, <3>4, <3>5 DEF Carried
  <2> QED BY <2>2, <2>3
<1>16. Len(d.chunks) > 0 /\ d.chunks[Len(d.chunks)].lines = c.current BY <1>5, <1>8, <1>9
<1>17. /\ d \in Reader /\ d.section = c.section /\ d.current = <<>> /\ d.tokens = 0
       /\ ChunksHold(lines, d.chunks)
       /\ Len(d.chunks) > 0 /\ d.chunks[Len(d.chunks)].lines = c.current
       /\ \A i \in Said(lines) : i <= n => Carried(d.chunks, i)
       BY <1>7, <1>10, <1>14, <1>15, <1>16
<1> QED BY <1>17 DEF d
\* A heading of a run is its first line.
LEMMA HeadFirst ==
    ASSUME NEW lines, IsText(lines), NEW s, Run(lines, s), NEW g \in Headings(lines), s[1] <= g, g <= s[Len(s)]
    PROVE  g = s[1]
<1>1. g \in Said(lines) BY DEF Headings
<1>2. PICK k \in 1..Len(s) : s[k] = g BY <1>1 DEF Run
<1>3. Len(s) \in Nat BY DEF Run
<1>4. ~(k \in 2..Len(s)) BY <1>2 DEF Run
<1> QED BY <1>2, <1>3, <1>4

\* What is closed fits but for its joints.
LEMMA WholeFits ==
    ASSUME NEW lines, IsText(lines), NEW c \in Piece, Whole(lines, c)
    PROVE  FitsJoined(lines, c)
<1>1. PICK t \in Nat : Fits(lines, t) /\ c.tokens <= t + Len(c.lines) \div 2 BY DEF Whole
<1>2. c.tokens \in Nat /\ Len(c.lines) \in Nat BY DEF Piece
<1> DEFINE x == c.tokens
           h == Len(c.lines) \div 2
<1>3. x \in Nat /\ h \in Nat /\ x <= t + h
  <2>1. \A m \in Nat : m \div 2 \in Nat OBVIOUS
  <2>2. h \in Nat BY <1>2, <2>1
  <2>3. x \in Nat /\ x <= t + h BY <1>1, <1>2
  <2> QED BY <2>2, <2>3
<1> HIDE DEF x, h
<1>4. CASE t <= MaxTokens
  <2>1. x <= MaxTokens + h BY <1>3, <1>4, TokenAssumption
  <2> QED BY <2>1 DEF FitsJoined, x, h
<1>5. CASE \E i, j \in Said(lines) : t < OverlapTokens + Cost(lines[i]) + Cost(lines[j])
  <2>1. PICK i, j \in Said(lines) : t < OverlapTokens + Cost(lines[i]) + Cost(lines[j]) BY <1>5
  <2>2. Cost(lines[i]) \in Nat /\ Cost(lines[j]) \in Nat BY SaidLines
  <2>3. x < OverlapTokens + Cost(lines[i]) + Cost(lines[j]) + h BY ONLY <1>3, <2>1, <2>2, TokenAssumption
  <2> QED BY <2>3 DEF FitsJoined, x, h
<1> QED BY <1>1, <1>4, <1>5 DEF Fits

\* A record of the reader, by its fields.
LEMMA IsReader ==
    ASSUME NEW d, NEW c \in Reader, DOMAIN d = DOMAIN c, d = [x \in DOMAIN c |-> d[x]],
           d.chunks \in Seq(Piece), d.current \in Seq(Nat), d.tokens \in Nat, d.section \in Nat, d.page \in Nat
    PROVE  d \in Reader
<1>1. DOMAIN c = {"chunks", "current", "tokens", "section", "page"} BY DEF Reader
<1>2. d = [chunks |-> d.chunks, current |-> d.current, tokens |-> d.tokens, section |-> d.section, page |-> d.page]
      BY <1>1
<1> QED BY ONLY <1>2, d.chunks \in Seq(Piece), d.current \in Seq(Nat), d.tokens \in Nat, d.section \in Nat, d.page \in Nat
     DEF Reader

LEMMA ReadPage ==
    ASSUME NEW lines, IsText(lines), NEW n \in DOMAIN lines, NEW c, ReadInv(lines, c, n - 1), lines[n].kind = "page"
    PROVE  ReadInv(lines, ReadLine(lines, c, n), n)
<1> DEFINE d == [c EXCEPT !.page = n]
<1>1. ReadLine(lines, c, n) = d BY DEF ReadLine
<1>2. c \in Reader BY DEF ReadInv
<1>3. DOMAIN c = {"chunks", "current", "tokens", "section", "page"} BY <1>2 DEF Reader
<1>4. n \in Nat /\ n \notin Said(lines) BY SaidLines DEF Said
<1>5. /\ DOMAIN d = DOMAIN c /\ d.chunks = c.chunks /\ d.current = c.current /\ d.tokens = c.tokens
      /\ d.section = c.section /\ d.page = n
      BY <1>3
<1>6. d = [x \in DOMAIN c |-> d[x]] OBVIOUS
<1> HIDE DEF d
<1>7. d \in Reader
  <2>1. /\ c.chunks \in Seq(Piece) /\ c.current \in Seq(Nat) /\ c.tokens \in Nat /\ c.section \in Nat BY <1>2 DEF Reader
  <2> QED BY <1>2, <1>4, <1>5, <1>6, <2>1, IsReader
<1>8. \A i \in Said(lines) : i \in Nat /\ i # n BY <1>4, SaidLines
<1>9. \A i \in Said(lines) : (i <= n <=> i <= n - 1) /\ (i > n <=> i > n - 1) BY <1>4, <1>8
<1>10. ASSUME Before(lines, c, n - 1) PROVE Before(lines, d, n) BY <1>5, <1>9, <1>10 DEF Before
<1>11. ASSUME Amid(lines, c.chunks, c.current, c.section, c.tokens, n - 1)
       PROVE  Amid(lines, d.chunks, d.current, d.section, d.tokens, n)
  <2>1. c.current[Len(c.current)] <= n - 1 /\ Run(lines, c.current) BY <1>11 DEF Amid
  <2>2. c.current[Len(c.current)] \in Nat
    <3>1. c.current \in Seq(Said(lines)) /\ c.current # <<>> BY <2>1 DEF Run
    <3>2. c.current[Len(c.current)] \in Said(lines) BY <3>1
    <3> QED BY <3>2, SaidLines
  <2>3. c.current[Len(c.current)] <= n BY <1>4, <2>1, <2>2
  <2> QED BY <1>5, <1>9, <1>11, <2>3 DEF Amid
<1>12. ChunksHold(lines, d.chunks) BY <1>5 DEF ReadInv
<1> QED BY <1>1, <1>7, <1>10, <1>11, <1>12 DEF ReadInv

\* A run of one line begins, after the chunks that carry the lines before it.
LEMMA Begins ==
    ASSUME NEW lines, IsText(lines), NEW n \in Said(lines), NEW chunks, NEW section,
           Latest(lines, n, section), \A i \in Said(lines) : i < n => Carried(chunks, i),
           Len(chunks) > 0 => /\ n > chunks[Len(chunks)].lines[Len(chunks[Len(chunks)].lines)]
                              /\ n >= chunks[Len(chunks)].lines[1]
    PROVE  Amid(lines, chunks, <<n>>, section, Cost(lines[n]), n)
<1> DEFINE s == <<n>>
<1>1. n \in Nat /\ n \in DOMAIN lines /\ Cost(lines[n]) \in Nat \ {0} BY SaidLines
<1>2. Len(s) = 1 /\ s[1] = n /\ s = Append(<<>>, n) OBVIOUS
<1>3. Tokens(lines, s) = Cost(lines[n])
  <2>1. <<>> \in Seq(DOMAIN lines) OBVIOUS
  <2>2. Tokens(lines, Append(<<>>, n)) = Tokens(lines, <<>>) + Cost(lines[n]) BY <1>1, <2>1, TokensAppend
  <2> QED BY <1>1, <1>2, <2>2, TokensNone
<1>4. Run(lines, s) BY RunOne
<1>5. Fits(lines, Cost(lines[n]))
  <2>1. Cost(lines[n]) < OverlapTokens + Cost(lines[n]) + Cost(lines[n]) BY <1>1, TokenAssumption
  <2> QED BY <2>1 DEF Fits
<1> HIDE DEF s
<1>6. s[Len(s)] = n BY <1>2
<1>7. Len(chunks) > 0 => After(chunks[Len(chunks)].lines, s) BY <1>2, <1>6 DEF After
<1>8. Amid(lines, chunks, s, section, Cost(lines[n]), n) BY <1>1, <1>2, <1>3, <1>4, <1>5, <1>6, <1>7 DEF Amid
<1> QED BY <1>8 DEF s
LEMMA ReadHeading ==
    ASSUME NEW lines, IsText(lines), NEW n \in DOMAIN lines, NEW c, ReadInv(lines, c, n - 1), lines[n].kind = "heading"
    PROVE  ReadInv(lines, ReadLine(lines, c, n), n)
<1> DEFINE e == Flush(lines, c)
           d == [e EXCEPT !.section = n, !.current = <<n>>, !.tokens = Cost(lines[n])]
<1>1. ReadLine(lines, c, n) = d BY DEF ReadLine
<1>2. c \in Reader /\ ChunksHold(lines, c.chunks) BY DEF ReadInv
<1>3. n \in Nat \ {0} /\ n - 1 \in Nat /\ n \in Said(lines) /\ n \in Headings(lines) /\ Cost(lines[n]) \in Nat
      BY SaidLines DEF Said, Headings
<1>4. /\ e \in Reader /\ ChunksHold(lines, e.chunks)
      /\ \A i \in Said(lines) : i < n => Carried(e.chunks, i)
      /\ Len(e.chunks) > 0 => /\ n > e.chunks[Len(e.chunks)].lines[Len(e.chunks[Len(e.chunks)].lines)]
                              /\ n >= e.chunks[Len(e.chunks)].lines[1]
  <2>1. CASE Before(lines, c, n - 1)
    <3>1. e = c /\ e.chunks = <<>> BY <2>1 DEF Flush, Before
    <3>2. \A i \in Said(lines) : i \in Nat /\ ~(i < n) BY <1>3, <2>1, SaidLines DEF Before
    <3> QED BY <1>2, <3>1, <3>2
  <2>2. CASE Amid(lines, c.chunks, c.current, c.section, c.tokens, n - 1)
    <3>1. /\ e \in Reader /\ ChunksHold(lines, e.chunks)
          /\ Len(e.chunks) > 0 /\ e.chunks[Len(e.chunks)].lines = c.current
          /\ \A i \in Said(lines) : i <= n - 1 => Carried(e.chunks, i)
          BY <1>2, <1>3, <2>2, Flushed
    <3>2. \A i \in Said(lines) : i < n => i <= n - 1 BY <1>3, SaidLines
    <3>3. Run(lines, c.current) /\ c.current[Len(c.current)] <= n - 1 BY <2>2 DEF Amid
    <3>4. n > c.current[Len(c.current)] /\ n >= c.current[1]
      <4>1. c.current[1] \in Nat /\ c.current[Len(c.current)] \in Nat /\ c.current[1] <= c.current[Len(c.current)]
            BY <3>3, RunEnds
      <4> QED BY <1>3, <3>3, <4>1
    <3> QED BY <3>1, <3>2, <3>4
  <2> QED BY <2>1, <2>2 DEF ReadInv
<1> HIDE DEF e
<1>5. DOMAIN e = {"chunks", "current", "tokens", "section", "page"} BY <1>4 DEF Reader
<1>6. /\ DOMAIN d = DOMAIN e /\ d.chunks = e.chunks /\ d.current = <<n>> /\ d.tokens = Cost(lines[n])
      /\ d.section = n /\ d.page = e.page
      BY <1>5
<1>7. d = [x \in DOMAIN e |-> d[x]] OBVIOUS
<1> HIDE DEF d
<1>8. d \in Reader
  <2>1. e.chunks \in Seq(Piece) /\ e.page \in Nat BY <1>4 DEF Reader
  <2>2. <<n>> \in Seq(Nat) BY <1>3
  <2> QED BY <1>3, <1>4, <1>6, <1>7, <2>1, <2>2, IsReader
<1>9. Latest(lines, n, n) BY <1>3 DEF Latest
<1>10. Amid(lines, e.chunks, <<n>>, n, Cost(lines[n]), n) BY <1>3, <1>4, <1>9, Begins
<1>11. Amid(lines, d.chunks, d.current, d.section, d.tokens, n) /\ ChunksHold(lines, d.chunks) BY <1>4, <1>6, <1>10
<1>12. ReadInv(lines, d, n) BY <1>8, <1>11 DEF ReadInv
<1> QED BY <1>1, <1>12

\* A line of text goes on with a run; chunks are those before the run, and
\* carry what comes before it.
LEMMA GoesOn ==
    ASSUME NEW lines, IsText(lines), NEW n \in Said(lines) \ Headings(lines), NEW chunks, NEW s, NEW section, NEW tokens,
           Run(lines, s), s[Len(s)] <= n - 1, Latest(lines, s[1], section), tokens = Tokens(lines, s),
           Fits(lines, tokens + Cost(lines[n])),
           \A i \in Said(lines) : i <= n - 1 => i <= s[Len(s)],
           \A i \in Said(lines) : i < s[1] => Carried(chunks, i),
           Len(chunks) > 0 => /\ s[1] >= chunks[Len(chunks)].lines[1]
                              /\ n > chunks[Len(chunks)].lines[Len(chunks[Len(chunks)].lines)]
    PROVE  Amid(lines, chunks, Append(s, n), section, tokens + Cost(lines[n]), n)
<1> DEFINE t == Append(s, n)
<1>1. n \in Nat \ {0} /\ n \in DOMAIN lines /\ \A i \in Said(lines) : i \in Nat BY SaidLines
<1>2. s \in Seq(DOMAIN lines) /\ Len(s) \in Nat \ {0} /\ s[Len(s)] \in Nat BY RunEnds
<1>3. t[1] = s[1] /\ t[Len(t)] = n BY <1>2
<1>4. s[Len(s)] < n /\ \A g \in Said(lines) : g < n => g <= s[Len(s)] BY <1>1, <1>2
<1>5. Run(lines, t) BY <1>4, RunMore
<1>6. Tokens(lines, t) = tokens + Cost(lines[n]) BY <1>1, <1>2, TokensAppend
<1> HIDE DEF t
<1>7. Len(chunks) > 0 => After(chunks[Len(chunks)].lines, t) BY <1>3 DEF After
<1>8. t[Len(t)] <= n /\ \A i \in Said(lines) : i <= n => i <= t[Len(t)] BY <1>1, <1>3
<1>9. Amid(lines, chunks, t, section, tokens + Cost(lines[n]), n) BY <1>3, <1>5, <1>6, <1>7, <1>8 DEF Amid
<1> QED BY <1>9 DEF t
\* What the reader becomes at a line of text.
LEMMA TextRead ==
    ASSUME NEW lines, NEW n, NEW c, NEW chunks \in Seq(Piece), NEW s \in Seq(Nat), NEW tokens \in Nat, NEW d,
           c \in Reader, n \in Nat, Cost(lines[n]) \in Nat, NEW e \in Reader,
           e.chunks = chunks, e.current = s, e.tokens = tokens, e.section = c.section,
           d = [e EXCEPT !.current = Append(@, n), !.tokens = @ + Cost(lines[n])],
           ChunksHold(lines, chunks), Amid(lines, chunks, Append(s, n), c.section, tokens + Cost(lines[n]), n)
    PROVE  ReadInv(lines, d, n)
<1>1. DOMAIN e = {"chunks", "current", "tokens", "section", "page"} /\ e.page \in Nat /\ c.section \in Nat BY DEF Reader
<1>2. /\ DOMAIN d = DOMAIN e /\ d.chunks = chunks /\ d.current = Append(s, n) /\ d.tokens = tokens + Cost(lines[n])
      /\ d.section = c.section /\ d.page = e.page
      BY <1>1
<1>3. d = [x \in DOMAIN e |-> d[x]] OBVIOUS
<1>4. Append(s, n) \in Seq(Nat) /\ tokens + Cost(lines[n]) \in Nat OBVIOUS
<1>5. d \in Reader BY <1>1, <1>2, <1>3, <1>4, IsReader
<1> QED BY <1>2, <1>5 DEF ReadInv

LEMMA ReadText ==
    ASSUME NEW lines, IsText(lines), NEW n \in DOMAIN lines, NEW c, ReadInv(lines, c, n - 1), lines[n].kind = "text"
    PROVE  ReadInv(lines, ReadLine(lines, c, n), n)
<1> DEFINE over == c.tokens + Cost(lines[n]) > MaxTokens /\ c.current # <<>>
           tail == OverlapTail(lines, c.current, c.tokens)
           room == [Flush(lines, c) EXCEPT !.current = tail, !.tokens = Tokens(lines, tail)]
           d == ReadLine(lines, c, n)
<1>1. /\ n \in Nat \ {0} /\ n \in Said(lines) \ Headings(lines) /\ Cost(lines[n]) \in Nat
      /\ \A i \in Said(lines) : i \in Nat
      BY SaidLines DEF Said, Headings
<1>2. /\ c \in Reader /\ ChunksHold(lines, c.chunks) /\ c.chunks \in Seq(Piece) /\ c.current \in Seq(Nat)
      /\ c.tokens \in Nat /\ c.section \in Nat
      BY DEF ReadInv, Reader
<1>3. ~over => d = [c EXCEPT !.current = Append(@, n), !.tokens = @ + Cost(lines[n])] BY DEF ReadLine
<1>4. over => d = [room EXCEPT !.current = Append(@, n), !.tokens = @ + Cost(lines[n])] BY DEF ReadLine
<1> HIDE DEF d, tail, room
<1>5. CASE Before(lines, c, n - 1)
  <2>1. c.chunks = <<>> /\ c.current = <<>> /\ c.tokens = 0 /\ c.section = 0 /\ ~over BY <1>5 DEF Before
  <2>2. \A i \in Said(lines) : ~(i < n) BY <1>1, <1>5 DEF Before
  <2>3. Latest(lines, n, 0)
    <3>1. \A g \in Headings(lines) : ~(g <= n)
      <4>1. \A g \in Headings(lines) : g \in Said(lines) /\ g # n BY <1>1 DEF Headings
      <4> QED BY <1>1, <2>2, <4>1
    <3> QED BY <3>1 DEF Latest
  <2>4. Amid(lines, c.chunks, <<n>>, 0, Cost(lines[n]), n)
    <3>1. ~(Len(c.chunks) > 0) BY <2>1
    <3>2. n \in Said(lines) BY <1>1
    <3>3. \A i \in Said(lines) : i < n => Carried(c.chunks, i) BY <2>2
    <3> QED BY <2>3, <3>1, <3>2, <3>3, Begins
  <2>5. Append(c.current, n) = <<n>> /\ c.tokens + Cost(lines[n]) = Cost(lines[n]) BY <1>1, <2>1
  <2>6. Amid(lines, c.chunks, Append(c.current, n), c.section, c.tokens + Cost(lines[n]), n) BY <2>1, <2>4, <2>5
  <2>7. d = [c EXCEPT !.current = Append(@, n), !.tokens = @ + Cost(lines[n])] BY <1>3, <2>1
  <2>8. ReadInv(lines, d, n) BY <1>1, <1>2, <2>6, <2>7, TextRead
  <2> QED BY <2>8 DEF d
<1>6. CASE Amid(lines, c.chunks, c.current, c.section, c.tokens, n - 1)
  <2> DEFINE s == c.current
  <2>1. /\ Run(lines, s) /\ s[Len(s)] <= n - 1 /\ Latest(lines, s[1], c.section)
        /\ c.tokens = Tokens(lines, s) /\ Fits(lines, c.tokens)
        /\ \A i \in Said(lines) : i <= n - 1 => i <= s[Len(s)]
        /\ \A i \in Said(lines) : i < s[1] => Carried(c.chunks, i)
        /\ Len(c.chunks) > 0 => After(c.chunks[Len(c.chunks)].lines, s)
        BY <1>6 DEF Amid
  <2>2. /\ s \in Seq(Nat) /\ s \in Seq(DOMAIN lines) /\ Len(s) \in Nat \ {0} /\ s # <<>>
        /\ s[1] \in Nat /\ s[Len(s)] \in Nat /\ s[1] <= s[Len(s)] /\ s[Len(s)] < n
        /\ \A k \in 1..Len(s) : s[1] <= s[k] /\ s[k] \in Nat
    <3>1. /\ s \in Seq(Nat) /\ s \in Seq(DOMAIN lines) /\ Len(s) \in Nat \ {0}
          /\ s[1] \in Nat /\ s[Len(s)] \in Nat /\ s[1] <= s[Len(s)]
          /\ \A k \in 1..Len(s) : s[1] <= s[k] /\ s[k] \in Nat
          BY <2>1, RunEnds
    <3> QED BY <1>1, <2>1, <3>1
  <2>3. CASE ~over
    <3>1. c.tokens + Cost(lines[n]) <= MaxTokens BY <1>1, <1>2, <2>2, <2>3, TokenAssumption
    <3>2. Fits(lines, c.tokens + Cost(lines[n])) BY <3>1 DEF Fits
    <3> DEFINE z == c.chunks[Len(c.chunks)].lines
    <3>3. Len(c.chunks) > 0 => s[1] >= z[1] /\ n > z[Len(z)]
      <4> SUFFICES ASSUME Len(c.chunks) > 0 PROVE s[1] >= z[1] /\ n > z[Len(z)] OBVIOUS
      <4>1. s[1] >= z[1] /\ s[Len(s)] > z[Len(z)] BY <2>1 DEF After
      <4>2. Len(c.chunks) \in 1..Len(c.chunks) BY <1>2
      <4>3. Whole(lines, c.chunks[Len(c.chunks)]) BY <1>2, <4>2 DEF ChunksHold
      <4>4. Run(lines, z) BY <4>3 DEF Whole
      <4>5. z[Len(z)] \in Nat BY <4>4, RunEnds
      <4>6. s[Len(s)] < n BY <2>2
      <4>7. s[Len(s)] \in Nat BY <2>2
      <4>8. n \in Nat BY <1>1
      <4> HIDE DEF s, z
      <4> QED BY ONLY <4>1, <4>5, <4>6, <4>7, <4>8
    <3> HIDE DEF s
    <3>4. Amid(lines, c.chunks, Append(s, n), c.section, c.tokens + Cost(lines[n]), n) BY <1>1, <2>1, <3>2, <3>3, GoesOn
    <3>5. d = [c EXCEPT !.current = Append(@, n), !.tokens = @ + Cost(lines[n])] BY <1>3, <2>3
    <3>6. ReadInv(lines, d, n) BY <1>1, <1>2, <3>4, <3>5, TextRead DEF s
    <3> QED BY <3>6 DEF d
  <2>4. CASE over
    <3> DEFINE e == Flush(lines, c)
    <3>1. /\ e \in Reader /\ e.section = c.section /\ ChunksHold(lines, e.chunks)
          /\ Len(e.chunks) > 0 /\ e.chunks[Len(e.chunks)].lines = s
          /\ \A i \in Said(lines) : i <= n - 1 => Carried(e.chunks, i)
      <4>1. n - 1 \in Nat BY <1>1
      <4> QED BY <1>2, <1>6, <4>1, Flushed
    <3>2. e.chunks \in Seq(Piece) /\ DOMAIN e = {"chunks", "current", "tokens", "section", "page"} /\ e.page \in Nat
          BY <3>1 DEF Reader
    <3>3. room = [e EXCEPT !.current = tail, !.tokens = Tokens(lines, tail)] BY DEF room
    <3> HIDE DEF e
    <3>4. PICK a \in 1..(Len(s) + 1) :
              /\ tail = SubSeq(s, a, Len(s))
              /\ a = Len(s) + 1 => Tokens(lines, tail) = 0
              /\ a # Len(s) + 1 => Tokens(lines, tail) < OverlapTokens + Cost(lines[s[a]])
      <4>1. \E a \in 1..(Len(s) + 1) :
               /\ OverlapTail(lines, s, c.tokens) = SubSeq(s, a, Len(s))
               /\ a = Len(s) + 1 => Tokens(lines, SubSeq(s, a, Len(s))) = 0
               /\ a # Len(s) + 1 => Tokens(lines, SubSeq(s, a, Len(s))) < OverlapTokens + Cost(lines[s[a]])
            BY <2>1, <2>2, TailIs
      <4> QED BY <4>1 DEF tail
    <3>5. tail \in Seq(Nat) /\ tail \in Seq(DOMAIN lines)
      <4>1. s \in Seq(Nat) /\ s \in Seq(DOMAIN lines) /\ a >= 1 BY <2>2
      <4>2. \A S : s \in Seq(S) => SubSeq(s, a, Len(s)) \in Seq(S) BY ONLY <4>1, SubSeqProperties
      <4> QED BY <3>4, <4>1, <4>2
    <3>6. Tokens(lines, tail) \in Nat
      <4>1. CASE tail = <<>> BY <4>1, TokensNone
      <4>2. CASE tail # <<>> BY <3>5, <4>2, JoinedCosts
      <4> QED BY <4>1, <4>2
    <3>7. /\ room \in Reader /\ room.chunks = e.chunks /\ room.current = tail /\ room.tokens = Tokens(lines, tail)
          /\ room.section = c.section
      <4>1. /\ DOMAIN room = DOMAIN e /\ room.chunks = e.chunks /\ room.current = tail
            /\ room.tokens = Tokens(lines, tail) /\ room.section = c.section /\ room.page = e.page
            BY <3>1, <3>2, <3>3
      <4>2. room = [x \in DOMAIN e |-> room[x]] BY <3>3
      <4>3. room \in Reader BY <1>2, <3>1, <3>2, <3>5, <3>6, <4>1, <4>2, IsReader
      <4> QED BY <4>1, <4>3
    <3>8. \A i \in Said(lines) : i < n => Carried(e.chunks, i)
      <4>1. \A i \in Said(lines) : i < n => i <= n - 1 BY <1>1
      <4> QED BY <3>1, <4>1
    <3>9. \A g \in Headings(lines) : g <= n => g <= s[1]
      <4> SUFFICES ASSUME NEW g \in Headings(lines), g <= n PROVE g <= s[1] OBVIOUS
      <4>1. g \in Said(lines) /\ g # n /\ g \in Nat BY <1>1 DEF Headings
      <4>2. g <= s[Len(s)] BY <1>1, <2>1, <4>1
      <4>3. s[1] <= g => g = s[1] BY <2>1, <4>2, HeadFirst
      <4> QED BY <2>2, <4>1, <4>3
    <3>10. \A i \in Said(lines) : s[1] <= i /\ i <= n => Latest(lines, i, c.section)
      <4> SUFFICES ASSUME NEW i \in Said(lines), s[1] <= i, i <= n PROVE Latest(lines, i, c.section) OBVIOUS
      <4>1. i \in Nat /\ \A g \in Headings(lines) : g \in Nat BY <1>1 DEF Headings
      <4>2. c.section \in {g \in Headings(lines) : g <= s[1]} \cup {0} /\ \A g \in Headings(lines) : g <= s[1] => g <= c.section
            BY <2>1 DEF Latest
      <4>3. c.section \in {g \in Headings(lines) : g <= i} \cup {0} BY <2>2, <4>1, <4>2
      <4>4. \A g \in Headings(lines) : g <= i => g <= c.section BY <1>1, <3>9, <4>1, <4>2
      <4> QED BY <4>3, <4>4 DEF Latest
    <3>11. Amid(lines, e.chunks, Append(tail, n), c.section, Tokens(lines, tail) + Cost(lines[n]), n)
      <4>1. CASE a = Len(s) + 1
        <5>1. tail = <<>> BY <2>2, <3>4, <4>1
        <5>2. Tokens(lines, tail) + Cost(lines[n]) = Cost(lines[n]) /\ Append(tail, n) = <<n>>
          <6>1. Tokens(lines, tail) = 0 BY <3>4, <4>1
          <6>2. Cost(lines[n]) \in Nat BY <1>1
          <6>3. 0 + Cost(lines[n]) = Cost(lines[n]) BY ONLY <6>2
          <6>4. Append(<<>>, n) = <<n>> OBVIOUS
          <6> QED BY <5>1, <6>1, <6>3, <6>4
        <5>4. n > s[Len(s)] /\ n >= s[1] BY <1>1, <2>2
        <5>3. Latest(lines, n, c.section)
          <6>1. n \in Said(lines) /\ n \in Nat /\ s[1] \in Nat BY <1>1, <2>2
          <6>2. s[1] <= n /\ n <= n BY ONLY <5>4, <6>1
          <6> QED BY ONLY <3>10, <6>1, <6>2
        <5>5. Amid(lines, e.chunks, <<n>>, c.section, Cost(lines[n]), n) BY <1>1, <3>1, <3>8, <5>3, <5>4, Begins
        <5> QED BY <5>2, <5>5
      <4>2. CASE a # Len(s) + 1
        <5>1. a \in 1..Len(s) BY <2>2, <4>2
        <5> HIDE DEF s
        <5>2. Run(lines, tail) /\ tail[1] = s[a] /\ tail[Len(tail)] = s[Len(s)] BY <2>1, <3>4, <5>1, RunRest
        <5>3. s[a] \in Said(lines) BY <2>1, <5>1 DEF Run
        <5>4. s[1] <= s[a] /\ s[a] <= n /\ s[a] \in Nat
          <6>1. s[a] <= s[Len(s)]
            <7>0. Len(s) \in 1..Len(s) /\ (a # Len(s) => a < Len(s)) BY <2>2, <5>1
            <7>1. a # Len(s) => s[a] < s[Len(s)] BY <2>1, <5>1, <7>0 DEF Run
            <7> QED BY <2>2, <5>1, <7>1
          <6>2. s[1] <= s[a] /\ s[a] \in Nat /\ s[Len(s)] \in Nat BY <2>2, <5>1
          <6>3. s[Len(s)] <= n - 1 /\ n \in Nat BY <1>1, <2>1
          <6> QED BY ONLY <6>1, <6>2, <6>3
        <5>5. Latest(lines, tail[1], c.section) BY <3>10, <5>2, <5>3, <5>4
        <5>6. Fits(lines, Tokens(lines, tail) + Cost(lines[n]))
          <6>1. Cost(lines[s[a]]) \in Nat BY <5>3, SaidLines
          <6>2. Tokens(lines, tail) + Cost(lines[n]) < OverlapTokens + Cost(lines[s[a]]) + Cost(lines[n])
                BY <1>1, <3>4, <3>6, <4>2, <6>1, TokenAssumption
          <6> QED BY <1>1, <5>3, <6>2 DEF Fits
        <5>7. \A i \in Said(lines) : i < tail[1] => Carried(e.chunks, i)
          <6>1. \A i \in Said(lines) : i < s[a] => i < n BY <1>1, <5>4
          <6> QED BY <3>8, <5>2, <6>1
        <5>8. Len(e.chunks) > 0 => /\ tail[1] >= e.chunks[Len(e.chunks)].lines[1]
                                   /\ n > e.chunks[Len(e.chunks)].lines[Len(e.chunks[Len(e.chunks)].lines)]
              BY <1>1, <2>2, <3>1, <5>2, <5>4
        <5> QED BY <1>1, <2>1, <5>2, <5>5, <5>6, <5>7, <5>8, GoesOn
      <4> QED BY <4>1, <4>2
    <3>12. d = [room EXCEPT !.current = Append(@, n), !.tokens = @ + Cost(lines[n])] BY <1>4, <2>4
    <3>13. ReadInv(lines, d, n) BY <1>1, <1>2, <3>1, <3>2, <3>5, <3>6, <3>7, <3>11, <3>12, TextRead
    <3> QED BY <3>13 DEF d
  <2> QED BY <2>3, <2>4
<1> QED BY <1>5, <1>6 DEF ReadInv
-----------------------------------------------------------------------------
\* The lines are read one after the other.
Start == [chunks |-> <<>>, current |-> <<>>, tokens |-> 0, section |-> 0, page |-> 0]
ReadsTo(lines, m) ==
    \E r : r = [n \in 0..m |-> IF n = 0 THEN Start ELSE ReadLine(lines, r[n - 1], n)]

LEMMA OneMoreRead ==
    ASSUME NEW lines, NEW m \in Nat \ {0}, ReadsTo(lines, m - 1)
    PROVE  ReadsTo(lines, m)
<1>1. PICK f : f = [n \in 0..(m - 1) |-> IF n = 0 THEN Start ELSE ReadLine(lines, f[n - 1], n)] BY DEF ReadsTo
<1> DEFINE g == [n \in 0..m |-> IF n = m THEN ReadLine(lines, f[m - 1], m) ELSE f[n]]
<1>2. \A n \in 0..m : g[n] = IF n = 0 THEN Start ELSE ReadLine(lines, g[n - 1], n)
  <2> SUFFICES ASSUME NEW n \in 0..m PROVE g[n] = IF n = 0 THEN Start ELSE ReadLine(lines, g[n - 1], n) OBVIOUS
  <2>1. CASE n = m
    <3>1. n # 0 /\ n - 1 \in 0..m /\ n - 1 # m BY <2>1
    <3>2. g[n] = ReadLine(lines, f[m - 1], m) BY <2>1
    <3>3. g[n - 1] = f[n - 1] BY <3>1
    <3> QED BY <3>1, <3>2, <3>3, <2>1
  <2>2. CASE n # m
    <3>1. n \in 0..(m - 1) /\ g[n] = f[n] BY <2>2
    <3>2. f[n] = IF n = 0 THEN Start ELSE ReadLine(lines, f[n - 1], n) BY <1>1, <3>1
    <3>3. n # 0 => n - 1 \in 0..m /\ n - 1 # m /\ g[n - 1] = f[n - 1] BY <3>1
    <3> QED BY <3>1, <3>2, <3>3
  <2> QED BY <2>1, <2>2
<1>3. g = [n \in 0..m |-> g[n]] OBVIOUS
<1> HIDE DEF g
<1>4. g = [n \in 0..m |-> IF n = 0 THEN Start ELSE ReadLine(lines, g[n - 1], n)] BY <1>2, <1>3
<1> QED BY <1>4 DEF ReadsTo

LEMMA ReadsAll == ASSUME NEW lines, NEW k \in Nat PROVE ReadsTo(lines, k)
<1> DEFINE bad == {m \in Nat : ~ReadsTo(lines, m)}
<1> SUFFICES ASSUME bad # {} PROVE FALSE OBVIOUS
<1>1. PICK m \in bad : \A j \in bad : m <= j BY LeastOf
<1>2. ReadsTo(lines, 0)
  <2> DEFINE f == [n \in 0..0 |-> Start]
  <2>1. f = [n \in 0..0 |-> IF n = 0 THEN Start ELSE ReadLine(lines, f[n - 1], n)] OBVIOUS
  <2> QED BY <2>1 DEF ReadsTo
<1>3. m \in Nat \ {0} /\ ~(m <= m - 1) /\ m - 1 \in Nat BY <1>2
<1>4. ReadsTo(lines, m - 1) BY <1>1, <1>3
<1> QED BY <1>3, <1>4, OneMoreRead

LEMMA StartHolds == ASSUME NEW lines, IsText(lines) PROVE ReadInv(lines, Start, 0)
<1>1. \A i \in Said(lines) : i > 0 BY SaidLines
<1>2. Start \in Reader BY DEF Start, Reader
<1>3. Before(lines, Start, 0) BY <1>1 DEF Start, Before
<1>4. ChunksHold(lines, Start.chunks) BY DEF Start, ChunksHold
<1> QED BY <1>2, <1>3, <1>4 DEF ReadInv

LEMMA LineKeeps ==
    ASSUME NEW lines, IsText(lines), NEW n \in DOMAIN lines, NEW c, ReadInv(lines, c, n - 1)
    PROVE  ReadInv(lines, ReadLine(lines, c, n), n)
<1>1. lines[n].kind \in {"text", "heading", "page"} BY SaidLines
<1> QED BY <1>1, ReadPage, ReadHeading, ReadText

LEMMA ReadLineKeeps ==
    ASSUME NEW lines, IsText(lines),
           NEW r, r = [n \in 0..Len(lines) |-> IF n = 0 THEN Start ELSE ReadLine(lines, r[n - 1], n)]
    PROVE  ReadInv(lines, r[Len(lines)], Len(lines))
<1>1. Len(lines) \in Nat /\ DOMAIN lines = 1..Len(lines) BY SaidLines
<1> DEFINE bad == {n \in 0..Len(lines) : ~ReadInv(lines, r[n], n)}
<1>2. bad = {}
  <2> SUFFICES ASSUME bad # {} PROVE FALSE OBVIOUS
  <2>1. bad \in SUBSET Nat BY <1>1
  <2>2. PICK n \in bad : \A j \in bad : n <= j BY <2>1, LeastOf
  <2>3. r[0] = Start BY <1>1
  <2>4. n \in 1..Len(lines) /\ ~(n <= n - 1) /\ n - 1 \in 0..Len(lines) BY <1>1, <2>2, <2>3, StartHolds
  <2>5. ReadInv(lines, r[n - 1], n - 1) BY <2>2, <2>4
  <2>6. r[n] = ReadLine(lines, r[n - 1], n)
    <3>1. n \in 0..Len(lines) /\ n # 0 BY <1>1, <2>4
    <3> QED BY <3>1
  <2>7. n \in DOMAIN lines BY <1>1, <2>4
  <2>8. ReadInv(lines, r[n], n) BY <2>5, <2>6, <2>7, LineKeeps
  <2> QED BY <2>2, <2>8
<1>3. Len(lines) \in 0..Len(lines) BY <1>1
<1> QED BY ONLY <1>2, <1>3

LEMMA ChunksAre ==
    ASSUME NEW lines, IsText(lines)
    PROVE  LET chunks == chunkText(lines) IN
           /\ chunks \in Seq(Piece) /\ ChunksHold(lines, chunks)
           /\ \A i \in Said(lines) : Carried(chunks, i)
<1> DEFINE r == CHOOSE r : r = [n \in 0..Len(lines) |-> IF n = 0 THEN Start ELSE ReadLine(lines, r[n - 1], n)]
           e == Flush(lines, r[Len(lines)])
<1>1. Len(lines) \in Nat /\ DOMAIN lines = 1..Len(lines) BY SaidLines
<1>2. r = [n \in 0..Len(lines) |-> IF n = 0 THEN Start ELSE ReadLine(lines, r[n - 1], n)]
  <2>1. ReadsTo(lines, Len(lines)) BY <1>1, ReadsAll
  <2>2. \E h : h = [n \in 0..Len(lines) |-> IF n = 0 THEN Start ELSE ReadLine(lines, h[n - 1], n)] BY <2>1 DEF ReadsTo
  <2> QED BY <2>2
<1>3. chunkText(lines) = e.chunks BY DEF chunkText, Start
<1> HIDE DEF r
<1>4. ReadInv(lines, r[Len(lines)], Len(lines)) BY <1>2, ReadLineKeeps
<1> DEFINE c == r[Len(lines)]
<1> HIDE DEF c
<1>5. ReadInv(lines, c, Len(lines)) /\ e = Flush(lines, c) BY <1>4 DEF c
<1> HIDE DEF e
<1>6. c \in Reader /\ ChunksHold(lines, c.chunks) BY <1>5 DEF ReadInv
<1>7. \A i \in Said(lines) : i \in Nat /\ i <= Len(lines) BY <1>1, SaidLines
<1>8. CASE Before(lines, c, Len(lines))
  <2>1. e = c BY <1>5, <1>8 DEF Flush, Before
  <2>2. \A i \in Said(lines) : FALSE BY <1>1, <1>7, <1>8 DEF Before
  <2>3. c.chunks \in Seq(Piece) BY <1>6 DEF Reader
  <2> QED BY <1>3, <1>6, <2>1, <2>2, <2>3
<1>9. CASE Amid(lines, c.chunks, c.current, c.section, c.tokens, Len(lines))
  <2>1. e \in Reader /\ ChunksHold(lines, e.chunks) /\ \A i \in Said(lines) : i <= Len(lines) => Carried(e.chunks, i)
        BY <1>1, <1>5, <1>6, <1>9, Flushed
  <2>2. e.chunks \in Seq(Piece) BY <2>1 DEF Reader
  <2> QED BY <1>3, <1>7, <2>1, <2>2
<1> QED BY <1>5, <1>8, <1>9 DEF ReadInv

\* What is indexed is chunked from the text of the file, which stays the same.
IndexInv ==
    /\ DOMAIN indexed = Uploads
    /\ \A u \in Uploads : upload[u].at # "none" => upload[u].file \in UploadFiles
    /\ \A u \in Uploads : indexed[u][1] = "chunks" =>
           upload[u].at = "document" /\ indexed[u] = <<"chunks", chunkText(upload[u].file.lines)>>

LEMMA IndexStart == IngestInit => IndexInv
BY DEF IngestInit, IndexInv

\* An upload that goes on has its file, and has not been indexed.
LEMMA FileStays ==
    ASSUME ScanInv, IndexInv, NEW u \in Uploads, NEW r, upload' = [upload EXCEPT ![u] = r], UNCHANGED indexed,
           upload[u].at # "document", r.at # "none" => r.file \in UploadFiles
    PROVE  IndexInv'
<1>1. DOMAIN upload = Uploads BY DEF ScanInv
<1>2. upload'[u] = r /\ \A v \in Uploads : v # u => upload'[v] = upload[v] BY <1>1
<1>3. indexed[u][1] # "chunks" BY DEF IndexInv
<1> QED BY <1>2, <1>3 DEF IndexInv

LEMMA Extracted ==
    ASSUME NEW f, NEW format
    PROVE  extractText(f, format)[1] = "error" \/ extractText(f, format) = <<"text", f.lines>>
<1>1. Recognize(f)[1] = "error" \/ Recognize(f) = <<"text", f.lines>> BY DEF Recognize, Error
<1> QED BY <1>1 DEF extractText, Error

LEMMA IndexKeeps == ASSUME ScanInv, IndexInv, NEW u \in Uploads, Index(u) PROVE IndexInv'
<1> DEFINE f == upload[u].file
           extracted == extractText(f, detectFormat(f))
<1>1. /\ UNCHANGED upload /\ upload[u].at = "document"
      /\ indexed' = [indexed EXCEPT ![u] =
              CASE extracted[1] = "error" -> extracted
                [] extracted[2] = <<>> -> Error("EXTRACTION_EMPTY")
                [] OTHER -> <<"chunks", chunkText(extracted[2])>>]
      BY DEF Index
<1>2. extracted[1] = "error" \/ extracted = <<"text", f.lines>> BY Extracted
<1> HIDE DEF extracted, f
<1>3. indexed'[u][1] = "chunks" => indexed'[u] = <<"chunks", chunkText(f.lines)>>
  <2>1. DOMAIN indexed = Uploads BY DEF IndexInv
  <2>2. indexed'[u] = CASE extracted[1] = "error" -> extracted
                        [] extracted[2] = <<>> -> Error("EXTRACTION_EMPTY")
                        [] OTHER -> <<"chunks", chunkText(extracted[2])>>
        BY <1>1, <2>1
  <2>3. CASE extracted[1] = "error" 
    <3>1. extracted[1] # "chunks" BY <2>3
    <3>2. Error("EXTRACTION_EMPTY")[1] # "chunks" BY DEF Error
    <3>3. indexed'[u] = extracted \/ indexed'[u] = Error("EXTRACTION_EMPTY") BY <2>2, <2>3
    <3> QED BY <3>1, <3>2, <3>3
  <2>4. CASE extracted = <<"text", f.lines>>
    <3>1. extracted[1] # "error" /\ extracted[2] = f.lines BY <2>4
    <3>2. Error("EXTRACTION_EMPTY")[1] # "chunks" BY DEF Error
    <3>3. indexed'[u] = Error("EXTRACTION_EMPTY") \/ indexed'[u] = <<"chunks", chunkText(extracted[2])>> BY <2>2, <3>1
    <3> QED BY <3>1, <3>2, <3>3
  <2> QED BY <1>2, <2>3, <2>4
<1>4. \A v \in Uploads : v # u => indexed'[v] = indexed[v] BY <1>1 DEF IndexInv
<1>5. DOMAIN indexed' = Uploads BY <1>1 DEF IndexInv
<1> QED BY <1>1, <1>3, <1>4, <1>5 DEF IndexInv, f

\* A record that goes elsewhere keeps its file.
LEMMA StepKeeps == ASSUME ScanInv, IndexInv, NEW u \in Uploads, Reply(u) \/ Scan(u) \/ Put(u) \/ CreateDocument(u) PROVE IndexInv'
<1>1. upload[u].at \in {"scan", "put", "create"} /\ UNCHANGED indexed BY DEF Reply, Scan, Put, CreateDocument
<1>2. DOMAIN upload[u] = Fields /\ upload[u].file \in UploadFiles BY <1>1 DEF ScanInv, IndexInv
<1>3. \E r : upload' = [upload EXCEPT ![u] = r] /\ (r.at # "none" => r.file \in UploadFiles)
  <2>1. CASE Reply(u)
    <3>1. PICK data : upload' = [upload EXCEPT ![u].data = data] BY <2>1 DEF Reply
    <3> DEFINE r == [upload[u] EXCEPT !.data = data]
    <3>2. upload' = [upload EXCEPT ![u] = r] BY <3>1
    <3>3. r.file = upload[u].file BY <1>2 DEF Fields
    <3> QED BY <1>2, <3>2, <3>3
  <2>2. CASE Scan(u)
    <3>1. PICK verdict : upload' = [upload EXCEPT ![u].verdict = verdict, ![u].at = IF verdict = "clean" THEN "put" ELSE "refused"]
          BY <2>2 DEF Scan
    <3> DEFINE r == [upload[u] EXCEPT !.verdict = verdict, !.at = IF verdict = "clean" THEN "put" ELSE "refused"]
    <3>2. upload' = [upload EXCEPT ![u] = r] BY <3>1 DEF ScanInv
    <3>3. r.file = upload[u].file BY <1>2 DEF Fields
    <3> QED BY <1>2, <3>2, <3>3
  <2>3. CASE Put(u) \/ CreateDocument(u)
    <3>1. PICK at : upload' = [upload EXCEPT ![u].at = at] BY <2>3 DEF Put, CreateDocument, Goto
    <3> DEFINE r == [upload[u] EXCEPT !.at = at]
    <3>2. upload' = [upload EXCEPT ![u] = r] BY <3>1
    <3>3. r.file = upload[u].file BY <1>2 DEF Fields
    <3> QED BY <1>2, <3>2, <3>3
  <2> QED BY <2>1, <2>2, <2>3
<1>4. PICK r : upload' = [upload EXCEPT ![u] = r] /\ (r.at # "none" => r.file \in UploadFiles) BY <1>3
<1> QED BY <1>1, <1>4, FileStays

LEMMA IndexStep == ScanInv /\ IndexInv /\ [IngestNext]_ingestVars => IndexInv'
<1> SUFFICES ASSUME ScanInv, IndexInv, [IngestNext]_ingestVars PROVE IndexInv' OBVIOUS
<1>1. ASSUME NEW u \in Uploads, Receive(u) PROVE IndexInv'
  <2>1. PICK f \in UploadFiles : upload' = [upload EXCEPT ![u] =
            [at |-> IF Accepts(f) THEN "scan" ELSE "refused", file |-> f, data |-> "", verdict |-> "none"]]
        BY <1>1 DEF Receive
  <2>2. UNCHANGED indexed /\ upload[u].at # "document" BY <1>1 DEF Receive
  <2> DEFINE r == [at |-> IF Accepts(f) THEN "scan" ELSE "refused", file |-> f, data |-> "", verdict |-> "none"]
  <2>3. r.file \in UploadFiles /\ upload' = [upload EXCEPT ![u] = r] BY <2>1
  <2> HIDE DEF r
  <2> QED BY <2>2, <2>3, FileStays
<1>2. ASSUME Crash PROVE IndexInv'
  <2>1. UNCHANGED indexed BY <1>2 DEF Crash
  <2>2. \A u \in Uploads :
            upload'[u] = IF upload[u].at \in {"scan", "put", "create"} THEN [upload[u] EXCEPT !.at = "refused"] ELSE upload[u]
        BY <1>2 DEF Crash
  <2>3. \A u \in Uploads : upload[u].at \in {"scan", "put", "create"} =>
            upload'[u].file = upload[u].file /\ upload[u].file \in UploadFiles
    <3> SUFFICES ASSUME NEW u \in Uploads, upload[u].at \in {"scan", "put", "create"}
                 PROVE  upload'[u].file = upload[u].file /\ upload[u].file \in UploadFiles
        OBVIOUS
    <3>1. DOMAIN upload[u] = Fields /\ upload[u].file \in UploadFiles BY DEF ScanInv, IndexInv
    <3>2. upload'[u] = [upload[u] EXCEPT !.at = "refused"] BY <2>2
    <3> QED BY ONLY <3>1, <3>2 DEF Fields
  <2>4. \A u \in Uploads : upload[u].at \notin {"scan", "put", "create"} => upload'[u] = upload[u] BY <2>2
  <2> QED BY <2>1, <2>3, <2>4 DEF IndexInv
<1>3. ASSUME UNCHANGED ingestVars PROVE IndexInv' BY <1>3 DEF ingestVars, IndexInv
<1> QED BY <1>1, <1>2, <1>3, StepKeeps, IndexKeeps DEF IngestNext

LEMMA TextCarried == ASSUME NEW lines, IsText(lines) PROVE CarryText(lines, chunkText(lines))
<1> DEFINE chunks == chunkText(lines)
<1> HIDE DEF chunks
<1>5. chunks \in Seq(Piece) /\ ChunksHold(lines, chunks) /\ \A i \in Said(lines) : Carried(chunks, i)
      BY ChunksAre DEF chunks
<1>6. DOMAIN chunks = 1..Len(chunks) /\ Len(chunks) \in Nat BY <1>5
<1>7. \A k \in DOMAIN chunks :
         LET c == chunks[k] IN
         /\ Run(lines, c.lines) /\ Latest(lines, c.lines[1], c.section) /\ FitsJoined(lines, c)
         /\ DOMAIN c.lines = 1..Len(c.lines) /\ Len(c.lines) \in Nat \ {0}
  <2> SUFFICES ASSUME NEW k \in DOMAIN chunks
               PROVE  LET c == chunks[k] IN
                      /\ Run(lines, c.lines) /\ Latest(lines, c.lines[1], c.section) /\ FitsJoined(lines, c)
                      /\ DOMAIN c.lines = 1..Len(c.lines) /\ Len(c.lines) \in Nat \ {0}
      OBVIOUS
  <2>1. Whole(lines, chunks[k]) /\ chunks[k] \in Piece BY <1>5, <1>6 DEF ChunksHold
  <2>2. Run(lines, chunks[k].lines) BY <2>1 DEF Whole
  <2>3. chunks[k].lines \in Seq(Nat) /\ Len(chunks[k].lines) \in Nat \ {0} BY <2>2, RunEnds
  <2>4. FitsJoined(lines, chunks[k]) BY <2>1, WholeFits
  <2>5. Latest(lines, chunks[k].lines[1], chunks[k].section) BY <2>1 DEF Whole
  <2>6. DOMAIN chunks[k].lines = 1..Len(chunks[k].lines) BY <2>3
  <2> QED BY <2>2, <2>3, <2>4, <2>5, <2>6
<1>8. \A k \in DOMAIN chunks :
         LET s == chunks[k].lines IN
         Range(s) = {i \in Said(lines) : s[1] <= i /\ i <= s[Len(s)]}
  <2> SUFFICES ASSUME NEW k \in DOMAIN chunks
               PROVE  LET s == chunks[k].lines IN Range(s) = {i \in Said(lines) : s[1] <= i /\ i <= s[Len(s)]}
      OBVIOUS
  <2> DEFINE s == chunks[k].lines
  <2>1. Run(lines, s) /\ DOMAIN s = 1..Len(s) /\ Len(s) \in Nat \ {0} BY <1>7
  <2> HIDE DEF s
  <2>2. s \in Seq(Said(lines)) BY <2>1 DEF Run
  <2>3. \A j \in 1..Len(s) : s[j] \in Said(lines) BY <2>2
  <2>4. \A j \in 1..Len(s) : s[1] <= s[j] /\ s[j] \in Nat BY <2>1, RunEnds
  <2>5. \A j \in 1..Len(s) : s[j] <= s[Len(s)]
    <3> SUFFICES ASSUME NEW j \in 1..Len(s) PROVE s[j] <= s[Len(s)] OBVIOUS
    <3>1. Len(s) \in 1..Len(s) BY <2>1
    <3>0. Len(s) \in Nat /\ j \in 1..Len(s) BY <2>1
    <3>2. j # Len(s) => j < Len(s) BY ONLY <3>0
    <3>3. j # Len(s) => s[j] < s[Len(s)] BY <2>1, <3>1, <3>2 DEF Run
    <3> QED BY <2>4, <3>1, <3>3
  <2>6. \A i \in Said(lines) : s[1] <= i /\ i <= s[Len(s)] => \E j \in 1..Len(s) : s[j] = i BY <2>1 DEF Run
  <2>7. Range(s) = {s[j] : j \in 1..Len(s)} BY <2>1 DEF Range
  <2>8. Range(s) = {i \in Said(lines) : s[1] <= i /\ i <= s[Len(s)]} BY <2>3, <2>4, <2>5, <2>6, <2>7
  <2> QED BY <2>8 DEF s
<1>9. UNION {Range(chunks[k].lines) : k \in DOMAIN chunks} = Said(lines)
  <2>1. \A k \in DOMAIN chunks : Range(chunks[k].lines) \subseteq Said(lines) BY <1>8
  <2>2. ASSUME NEW i \in Said(lines) PROVE \E k \in DOMAIN chunks : i \in Range(chunks[k].lines)
    <3>1. PICK k \in 1..Len(chunks) : \E j \in 1..Len(chunks[k].lines) : chunks[k].lines[j] = i BY <1>5 DEF Carried
    <3>2. k \in DOMAIN chunks /\ DOMAIN chunks[k].lines = 1..Len(chunks[k].lines) BY <1>6, <1>7, <3>1
    <3> QED BY <3>1, <3>2 DEF Range
  <2> QED BY <2>1, <2>2
<1>10. ASSUME NEW k \in DOMAIN chunks, k > 1 PROVE After(chunks[k - 1].lines, chunks[k].lines) /\ k - 1 \in DOMAIN chunks
  <2>1. k \in 2..Len(chunks) /\ k - 1 \in DOMAIN chunks BY <1>6, <1>10
  <2> QED BY <1>5, <2>1 DEF ChunksHold
<1>11. \A k \in DOMAIN chunks :
           LET c == chunks[k] IN
           /\ \A i, j \in DOMAIN c.lines : i < j => c.lines[i] < c.lines[j]
           /\ \A j \in 2..Len(c.lines) : c.lines[j] \notin Headings(lines)
           /\ c.section \in {h \in Headings(lines) : h <= c.lines[1]} \cup {0}
           /\ \A h \in {g \in Headings(lines) : g <= c.lines[1]} : h <= c.section
           /\ FitsJoined(lines, c)
           /\ k > 1 => c.lines[1] >= chunks[k - 1].lines[1] /\ Last(c.lines) > Last(chunks[k - 1].lines)
  <2> SUFFICES ASSUME NEW k \in DOMAIN chunks
               PROVE  LET c == chunks[k] IN
           /\ \A i, j \in DOMAIN c.lines : i < j => c.lines[i] < c.lines[j]
           /\ \A j \in 2..Len(c.lines) : c.lines[j] \notin Headings(lines)
           /\ c.section \in {h \in Headings(lines) : h <= c.lines[1]} \cup {0}
           /\ \A h \in {g \in Headings(lines) : g <= c.lines[1]} : h <= c.section
           /\ FitsJoined(lines, c)
           /\ k > 1 => c.lines[1] >= chunks[k - 1].lines[1] /\ Last(c.lines) > Last(chunks[k - 1].lines)
      OBVIOUS
  <2> DEFINE c == chunks[k]
  <2>1. /\ Run(lines, c.lines) /\ Latest(lines, c.lines[1], c.section) /\ FitsJoined(lines, c)
        /\ DOMAIN c.lines = 1..Len(c.lines)
        BY <1>7
  <2>2. k > 1 => c.lines[1] >= chunks[k - 1].lines[1] /\ Last(c.lines) > Last(chunks[k - 1].lines)
        BY <1>10 DEF After, Last
  <2> HIDE DEF c
  <2>3. /\ \A i, j \in DOMAIN c.lines : i < j => c.lines[i] < c.lines[j]
        /\ \A j \in 2..Len(c.lines) : c.lines[j] \notin Headings(lines)
        BY <2>1 DEF Run
  <2>4. /\ c.section \in {h \in Headings(lines) : h <= c.lines[1]} \cup {0}
        /\ \A h \in {g \in Headings(lines) : g <= c.lines[1]} : h <= c.section
        BY <2>1 DEF Latest
  <2> QED BY <2>1, <2>2, <2>3, <2>4 DEF c
<1>12. /\ {i \in DOMAIN lines : lines[i].kind # "page"} = Said(lines)
       /\ {i \in Said(lines) : lines[i].kind = "heading"} = Headings(lines)
       BY DEF Said, Headings
<1>13. \A k \in DOMAIN chunks :
           LET c == chunks[k]
           IN Range(c.lines) = {i \in Said(lines) : c.lines[1] <= i /\ i <= Last(c.lines)}
       BY <1>8 DEF Last
<1>14. CarryText(lines, chunks) BY <1>9, <1>11, <1>12, <1>13 DEF CarryText, FitsJoined
<1> QED BY <1>14 DEF chunks

LEMMA ChunksCarry == IndexInv => ChunksCarryTheText
<1> SUFFICES ASSUME IndexInv, NEW u \in Uploads, indexed[u][1] = "chunks"
             PROVE  CarryText(upload[u].file.lines, indexed[u][2])
    BY DEF ChunksCarryTheText
<1>1. upload[u].at = "document" /\ indexed[u] = <<"chunks", chunkText(upload[u].file.lines)>> BY DEF IndexInv
<1>2. upload[u].file \in UploadFiles BY <1>1 DEF IndexInv
<1>3. IsText(upload[u].file.lines) BY <1>2, LineAssumption DEF IsText
<1>4. CarryText(upload[u].file.lines, chunkText(upload[u].file.lines)) BY <1>3, TextCarried
<1> QED BY <1>1, <1>4

\* For any text, limit and overlap, the chunks of an indexed document carry
\* every line of it in order and with no gap, each under the heading that was
\* the last when it began; but for the joints of its lines, half a token each,
\* one that is longer than the limit is shorter than an overlap and two lines
\* (chunking.ts 56-121).
THEOREM TextIsCarried == IngestSpec => []ChunksCarryTheText
<1>1. ScanInv /\ IndexInv /\ [IngestNext]_ingestVars => (ScanInv /\ IndexInv)' BY IngestStep, IndexStep
<1> QED BY <1>1, IngestStart, IndexStart, ChunksCarry, PTL DEF IngestSpec

-----------------------------------------------------------------------------
\* The connector.

USE WriteAssumption, SyncAssumption, SettingAssumption

\* The files a sync has listed and not yet upserted.
Owed(s) ==
    CASE pc[s] = "reading" -> upserts[s]
      [] pc[s] = "upserting" -> todo[s]
      [] pc[s] = "upsert" -> todo[s] \cup current[s]
      [] OTHER -> {}

DocumentInv == \A f \in Files : documents[f] = IF mapped[f] THEN 1 ELSE 0

CursorInv ==
    /\ \A f \in Files : mtime[f] <= writes
    /\ last.cursor <= writes
    /\ \A s \in Syncs : cursor[s] <= writes /\ newest[s] <= writes /\ \A f, g \in current[s] : f = g
    /\ \A s \in Syncs : pc[s] = "upsert" /\ found[s] => \A f \in current[s] : mapped[f]
    /\ "itemError" \notin faults =>
          /\ \A f \in Files : mtime[f] \in 1..last.cursor => mapped[f] \/ f \in missed
          /\ \A s \in Syncs, f \in Files :
                /\ mtime[f] \in 1..cursor[s] => mapped[f] \/ f \in missed \/ f \in Owed(s)
                /\ pc[s] = "stating" /\ mtime[f] > 0 => f \in todo[s] \cup upserts[s] \/ mapped[f] \/ f \in missed

MarkInv ==
    /\ \A f \in Files : deleted[f] => mapped[f]
    /\ \A s \in Syncs : pc[s] \in {"marking", "archive"} => \A f \in todo[s] : mapped[f]
    /\ DeletedMeansArchived

IInv == TypeOK /\ DocumentInv /\ CursorInv /\ MarkInv

USE DEF source, rows, ledger, call

-----------------------------------------------------------------------------
(* Type correctness                                                        *)

LEMMA InitTypeOK == Init => TypeOK
BY DEF Init, TypeOK, Phases

LEMMA ForgetTypeOK ==
    ASSUME TypeOK, NEW s \in Syncs, Forget(s), last' \in [rank : 0..SyncBound, cursor : 0..WriteBound],
           UNCHANGED <<source, rows, created>>
    PROVE  TypeOK'
BY DEF TypeOK, Forget, GoTo, Phases

LEMMA NextTypeOK == TypeOK /\ [Next]_vars => TypeOK'
<1> SUFFICES ASSUME TypeOK, [Next]_vars PROVE TypeOK'
  OBVIOUS
<1>1. ASSUME NEW f \in Files, WriteFile(f) PROVE TypeOK'
  BY <1>1 DEF WriteFile, TypeOK
<1>2. ASSUME NEW f \in Files, RemoveFile(f) PROVE TypeOK'
  BY <1>2 DEF RemoveFile, TypeOK
<1>3. ASSUME NEW s \in Syncs, CreateSync(s) PROVE TypeOK'
  BY <1>3 DEF CreateSync, GoTo, TypeOK, Phases
<1>4. ASSUME NEW s \in Syncs, ReadCursor(s) PROVE TypeOK'
  BY <1>4 DEF ReadCursor, GoTo, TypeOK, Phases
<1>5. ASSUME NEW s \in Syncs, ReadDirectory(s) \/ BeginReading(s) \/ EndListing(s) PROVE TypeOK'
  BY <1>5 DEF ReadDirectory, BeginReading, EndListing, GoTo, TypeOK, Phases
<1>15. ASSUME NEW s \in Syncs, Stat(s) PROVE TypeOK'
  BY <1>15 DEF Stat, TypeOK
<1>16. ASSUME NEW s \in Syncs, ReadFile(s) PROVE TypeOK'
  BY <1>16 DEF ReadFile, TypeOK
<1>6. ASSUME NEW s \in Syncs, BeginUpsert(s) PROVE TypeOK'
  BY <1>6 DEF BeginUpsert, GoTo, TypeOK, Phases
<1>7. ASSUME NEW s \in Syncs, CommitUpsert(s) PROVE TypeOK'
  <2>1. PICK f \in current[s] :
           /\ f \in Files
           /\ deleted' \in {deleted, [deleted EXCEPT ![f] = FALSE]}
           /\ documents' \in {documents, [documents EXCEPT ![f] = @ + 1]}
           /\ ready' \in {ready, [ready EXCEPT ![f] = TRUE]}
           /\ mapped' \in {mapped, [mapped EXCEPT ![f] = TRUE]}
    BY <1>7 DEF CommitUpsert, TypeOK
  <2>2. deleted' \in [Files -> BOOLEAN]
    BY <2>1 DEF TypeOK
  <2>3. documents' \in [Files -> Nat]
    BY <2>1 DEF TypeOK
  <2>4. ready' \in [Files -> BOOLEAN]
    BY <2>1 DEF TypeOK
  <2>5. mapped' \in [Files -> BOOLEAN]
    BY <2>1 DEF TypeOK
  <2>. QED BY <1>7, <2>2, <2>3, <2>4, <2>5 DEF CommitUpsert, EndItem, GoTo, TypeOK, Phases
<1>8. ASSUME NEW s \in Syncs, UpsertFails(s) PROVE TypeOK'
  BY <1>8 DEF UpsertFails, EndItem, GoTo, TypeOK, Phases
<1>9. ASSUME NEW s \in Syncs, SelectKnown(s) PROVE TypeOK'
  BY <1>9 DEF SelectKnown, GoTo, TypeOK, Phases
<1>10. ASSUME NEW s \in Syncs, MarkDeleted(s) PROVE TypeOK'
  BY <1>10 DEF MarkDeleted, GoTo, TypeOK, Phases
<1>11. ASSUME NEW s \in Syncs, ArchiveDocument(s) PROVE TypeOK'
  BY <1>11 DEF ArchiveDocument, EndItem, GoTo, TypeOK, Phases
<1>12. ASSUME NEW s \in Syncs, Complete(s) PROVE TypeOK'
  <2>1. last' \in [rank : 0..SyncBound, cursor : 0..WriteBound]
    BY <1>12 DEF Complete, TypeOK
  <2>. QED BY <1>12, <2>1, ForgetTypeOK DEF Complete
<1>13. ASSUME NEW s \in Syncs, SyncEnds(s) PROVE TypeOK'
  <2>1. last' \in [rank : 0..SyncBound, cursor : 0..WriteBound]
    BY <1>13 DEF SyncEnds, TypeOK
  <2>. QED BY <1>13, <2>1, ForgetTypeOK DEF SyncEnds
<1>14. CASE UNCHANGED vars
  BY <1>14 DEF vars, TypeOK
<1>. QED BY <1>1, <1>2, <1>3, <1>4, <1>5, <1>6, <1>7, <1>8, <1>9, <1>10, <1>11, <1>12, <1>13,
            <1>14, <1>15, <1>16 DEF Next, RunSync

\* The variables of the connector hold values of their columns, and a sync
\* has a file at hand exactly inside an item (connector.ts 117, 156).
THEOREM TypeCorrect == Spec => []TypeOK
BY InitTypeOK, NextTypeOK, PTL DEF Spec

-----------------------------------------------------------------------------
(* The strengthened invariant                                              *)

USE DEF IInv

LEMMA InitInv == Init => IInv
<1> SUFFICES ASSUME Init PROVE IInv
  OBVIOUS
<1>1. TypeOK
  BY InitTypeOK
<1>2. DocumentInv /\ MarkInv
  BY DEF Init, DocumentInv, MarkInv, DeletedMeansArchived
<1>3. CursorInv
  BY DEF Init, CursorInv
<1>. QED BY <1>1, <1>2, <1>3

\* A sync has one file at hand.
LEMMA OneAtHand ==
    ASSUME IInv, NEW s \in Syncs, NEW f \in current[s] PROVE f \in Files /\ current[s] = {f}
<1>1. \A g \in current[s] : g = f
  BY DEF CursorInv
<1>2. current[s] \subseteq Files
  BY DEF TypeOK
<1>. QED BY <1>1, <1>2

LEMMA WriteFileInv == ASSUME IInv, NEW f \in Files, WriteFile(f) PROVE (DocumentInv /\ CursorInv /\ MarkInv)'
<1>1. DocumentInv' /\ MarkInv'
  BY DEF WriteFile, DocumentInv, MarkInv, DeletedMeansArchived
<1>2. CursorInv'
  BY DEF WriteFile, Passed, CursorInv, Owed, TypeOK
<1>. QED BY <1>1, <1>2

LEMMA RemoveFileInv == ASSUME IInv, NEW f \in Files, RemoveFile(f) PROVE (DocumentInv /\ CursorInv /\ MarkInv)'
<1>1. DocumentInv' /\ MarkInv'
  BY DEF RemoveFile, DocumentInv, MarkInv, DeletedMeansArchived
<1>2. CursorInv'
  BY DEF RemoveFile, CursorInv, Owed, TypeOK
<1>. QED BY <1>1, <1>2

LEMMA CreateSyncInv == ASSUME IInv, NEW s \in Syncs, CreateSync(s) PROVE (DocumentInv /\ CursorInv /\ MarkInv)'
<1>1. DocumentInv' /\ MarkInv'
  BY DEF CreateSync, GoTo, DocumentInv, MarkInv, DeletedMeansArchived, TypeOK
<1>2. CursorInv'
  BY DEF CreateSync, GoTo, CursorInv, Owed, TypeOK
<1>. QED BY <1>1, <1>2

LEMMA ReadCursorInv == ASSUME IInv, NEW s \in Syncs, ReadCursor(s) PROVE (DocumentInv /\ CursorInv /\ MarkInv)'
<1>1. DocumentInv' /\ MarkInv'
  BY DEF ReadCursor, GoTo, DocumentInv, MarkInv, DeletedMeansArchived, TypeOK
<1>2. CursorInv'
  BY DEF ReadCursor, GoTo, CursorInv, Owed, TypeOK
<1>. QED BY <1>1, <1>2

LEMMA ReadDirectoryInv == ASSUME IInv, NEW s \in Syncs, ReadDirectory(s) PROVE (DocumentInv /\ CursorInv /\ MarkInv)'
<1>1. DocumentInv' /\ MarkInv'
  BY DEF ReadDirectory, GoTo, DocumentInv, MarkInv, DeletedMeansArchived, TypeOK
<1>2. CursorInv'
  BY DEF ReadDirectory, GoTo, CursorInv, Owed, TypeOK
<1>. QED BY <1>1, <1>2

\* A file that is not listed was there for a sync before, or was missed.
LEMMA StatInv == ASSUME IInv, NEW s \in Syncs, Stat(s) PROVE (DocumentInv /\ CursorInv /\ MarkInv)'
<1>1. DocumentInv' /\ MarkInv'
  BY DEF Stat, DocumentInv, MarkInv, DeletedMeansArchived, TypeOK
<1>2. PICK f \in todo[s] :
         /\ f \in Files /\ mtime[f] > 0 /\ pc[s] = "stating"
         /\ todo' = [todo EXCEPT ![s] = @ \ {f}]
         /\ newest' = [newest EXCEPT ![s] = IF mtime[f] > @ THEN mtime[f] ELSE @]
         /\ upserts' = [upserts EXCEPT ![s] = IF mtime[f] > cursor[s] THEN @ \cup {f} ELSE @]
         /\ UNCHANGED <<mtime, writes, missed, faults, mapped, last, pc, cursor, current, found>>
  BY DEF Stat, TypeOK
<1>3. \A r \in Syncs : Owed(r)' = Owed(r)
  BY <1>2 DEF Owed, TypeOK
<1>4. \A r \in Syncs : newest'[r] <= writes
  BY <1>2 DEF CursorInv, TypeOK
<1>5. ASSUME "itemError" \notin faults, NEW r \in Syncs, NEW g \in Files, pc[r] = "stating", mtime[g] > 0
      PROVE  g \in todo'[r] \cup upserts'[r] \/ mapped[g] \/ g \in missed
  <2>1. g \in todo[r] \cup upserts[r] \/ mapped[g] \/ g \in missed
    BY <1>5 DEF CursorInv
  <2>2. CASE r = s /\ g = f /\ mtime[f] <= cursor[s]
    <3>1. mtime[f] \in 1..cursor[s] /\ Owed(s) = {}
      BY <1>2, <2>2 DEF Owed, TypeOK
    <3>. QED BY <1>5, <2>2, <3>1 DEF CursorInv
  <2>3. CASE r = s /\ g = f /\ ~(mtime[f] <= cursor[s])
    <3>1. mtime[f] > cursor[s]
      BY <2>3 DEF TypeOK
    <3>. QED BY <1>2, <2>3, <3>1 DEF TypeOK
  <2>4. CASE ~(r = s /\ g = f)
    BY <1>2, <2>1, <2>4 DEF TypeOK
  <2>. QED BY <2>2, <2>3, <2>4
<1>6. CursorInv'
  BY <1>2, <1>3, <1>4, <1>5 DEF CursorInv
<1>. QED BY <1>1, <1>6

LEMMA BeginReadingInv == ASSUME IInv, NEW s \in Syncs, BeginReading(s) PROVE (DocumentInv /\ CursorInv /\ MarkInv)'
<1>1. DocumentInv' /\ MarkInv'
  BY DEF BeginReading, GoTo, DocumentInv, MarkInv, DeletedMeansArchived, TypeOK
<1>2. CursorInv'
  BY DEF BeginReading, GoTo, CursorInv, Owed, TypeOK
<1>. QED BY <1>1, <1>2

LEMMA ReadFileInv == ASSUME IInv, NEW s \in Syncs, ReadFile(s) PROVE (DocumentInv /\ CursorInv /\ MarkInv)'
<1>1. DocumentInv' /\ MarkInv'
  BY DEF ReadFile, DocumentInv, MarkInv, DeletedMeansArchived, TypeOK
<1>2. CursorInv'
  BY DEF ReadFile, CursorInv, Owed, TypeOK
<1>. QED BY <1>1, <1>2

LEMMA EndListingInv == ASSUME IInv, NEW s \in Syncs, EndListing(s) PROVE (DocumentInv /\ CursorInv /\ MarkInv)'
<1>1. DocumentInv' /\ MarkInv'
  BY DEF EndListing, GoTo, DocumentInv, MarkInv, DeletedMeansArchived, TypeOK
<1>2. CursorInv'
  BY DEF EndListing, GoTo, CursorInv, Owed, TypeOK
<1>. QED BY <1>1, <1>2

LEMMA BeginUpsertInv == ASSUME IInv, NEW s \in Syncs, BeginUpsert(s) PROVE (DocumentInv /\ CursorInv /\ MarkInv)'
<1>1. DocumentInv' /\ MarkInv'
  BY DEF BeginUpsert, GoTo, DocumentInv, MarkInv, DeletedMeansArchived, TypeOK
<1>2. CursorInv'
  BY DEF BeginUpsert, GoTo, CursorInv, Owed, TypeOK
<1>. QED BY <1>1, <1>2

LEMMA CommitUpsertInv == ASSUME IInv, NEW s \in Syncs, CommitUpsert(s) PROVE (DocumentInv /\ CursorInv /\ MarkInv)'
<1>1. DocumentInv' /\ MarkInv'
  <2>1. DocumentInv'
    BY DEF CommitUpsert, DocumentInv, TypeOK
  <2>2. /\ \A f \in Files : deleted'[f] => mapped'[f]
        /\ \A r \in Syncs : pc'[r] \in {"marking", "archive"} => \A f \in todo'[r] : mapped'[f]
    BY DEF CommitUpsert, EndItem, GoTo, MarkInv, TypeOK
  <2>3. DeletedMeansArchived'
    BY DEF CommitUpsert, EndItem, GoTo, MarkInv, DeletedMeansArchived, TypeOK
  <2>. QED BY <2>1, <2>2, <2>3 DEF MarkInv
<1>2. CursorInv'
  <2>1. PICK f \in current[s] : /\ f \in Files /\ current[s] = {f} /\ mapped'[f]
                                /\ \A g \in Files : mapped[g] => mapped'[g]
    <3>1. PICK f \in current[s] :
             /\ f \in Files
             /\ \/ /\ found[s] /\ UNCHANGED mapped
                \/ /\ ~found[s] /\ ~mapped[f] /\ mapped' = [mapped EXCEPT ![f] = TRUE]
                \/ /\ mapped[f] /\ UNCHANGED mapped
      BY OneAtHand DEF CommitUpsert
    <3>2. mapped'[f]
      BY <3>1 DEF CommitUpsert, CursorInv, TypeOK
    <3>. QED BY <3>1, <3>2, OneAtHand DEF TypeOK
  <2>2. /\ pc' = [pc EXCEPT ![s] = "upserting"] /\ current' = [current EXCEPT ![s] = {}]
        /\ UNCHANGED <<mtime, writes, missed, faults, last, cursor, newest, upserts, todo>> /\ pc[s] = "upsert"
    BY DEF CommitUpsert, EndItem, GoTo
  <2>3. /\ \A g \in Files : mtime'[g] <= writes'
        /\ last'.cursor <= writes'
        /\ \A r \in Syncs : cursor'[r] <= writes' /\ newest'[r] <= writes' /\ \A g, h \in current'[r] : g = h
    BY <2>2 DEF CursorInv, TypeOK
  <2>5. \A r \in Syncs : pc'[r] = "upsert" /\ found'[r] => \A g \in current'[r] : mapped'[g]
    BY <2>1, <2>2 DEF CommitUpsert, CursorInv, TypeOK
  <2>4. ASSUME "itemError" \notin faults', NEW r \in Syncs, NEW g \in Files, mtime'[g] \in 1..cursor'[r]
        PROVE  mapped'[g] \/ g \in missed' \/ g \in Owed(r)'
    <3>1. mapped[g] \/ g \in missed \/ g \in Owed(r)
      BY <2>2, <2>4 DEF CursorInv
    <3>2. CASE r = s
      BY <2>1, <2>2, <3>1, <3>2 DEF Owed, TypeOK
    <3>3. CASE r # s
      BY <2>1, <2>2, <3>1, <3>3 DEF Owed, TypeOK
    <3>. QED BY <3>2, <3>3
  <2>6. ASSUME "itemError" \notin faults', NEW r \in Syncs, NEW g \in Files, pc'[r] = "stating", mtime'[g] > 0
        PROVE  g \in todo'[r] \cup upserts'[r] \/ mapped'[g] \/ g \in missed'
    <3>1. pc[r] = "stating"
      BY <2>2, <2>6 DEF TypeOK
    <3>. QED BY <2>1, <2>2, <2>6, <3>1 DEF CursorInv
  <2>. QED BY <2>1, <2>2, <2>3, <2>4, <2>5, <2>6 DEF CursorInv
<1>. QED BY <1>1, <1>2

LEMMA UpsertFailsInv == ASSUME IInv, NEW s \in Syncs, UpsertFails(s) PROVE (DocumentInv /\ CursorInv /\ MarkInv)'
<1>1. DocumentInv' /\ MarkInv'
  BY DEF UpsertFails, EndItem, GoTo, DocumentInv, MarkInv, DeletedMeansArchived, TypeOK
<1>2. CursorInv'
  BY DEF UpsertFails, EndItem, GoTo, CursorInv, Owed, TypeOK
<1>. QED BY <1>1, <1>2

LEMMA SelectKnownInv == ASSUME IInv, NEW s \in Syncs, SelectKnown(s) PROVE (DocumentInv /\ CursorInv /\ MarkInv)'
<1>1. DocumentInv' /\ MarkInv'
  BY DEF SelectKnown, GoTo, DocumentInv, MarkInv, DeletedMeansArchived, TypeOK
<1>2. CursorInv'
  BY DEF SelectKnown, GoTo, CursorInv, Owed, TypeOK
<1>. QED BY <1>1, <1>2

LEMMA MarkDeletedInv == ASSUME IInv, NEW s \in Syncs, MarkDeleted(s) PROVE (DocumentInv /\ CursorInv /\ MarkInv)'
<1>1. DocumentInv' /\ MarkInv'
  BY DEF MarkDeleted, GoTo, DocumentInv, MarkInv, DeletedMeansArchived, TypeOK
<1>2. CursorInv'
  BY DEF MarkDeleted, GoTo, CursorInv, Owed, TypeOK
<1>. QED BY <1>1, <1>2

LEMMA ArchiveDocumentInv == ASSUME IInv, NEW s \in Syncs, ArchiveDocument(s) PROVE (DocumentInv /\ CursorInv /\ MarkInv)'
<1>1. DocumentInv' /\ MarkInv'
  <2>1. PICK f \in current[s] : f \in Files /\ ready' = [ready EXCEPT ![f] = FALSE] /\ current[s] = {f}
    BY OneAtHand DEF ArchiveDocument
  <2>2. DocumentInv' /\ \A g \in Files : deleted'[g] => mapped'[g]
    BY DEF ArchiveDocument, DocumentInv, MarkInv
  <2>3. \A r \in Syncs : pc'[r] \in {"marking", "archive"} => \A g \in todo'[r] : mapped'[g]
    BY DEF ArchiveDocument, EndItem, GoTo, MarkInv, TypeOK
  <2>4. DeletedMeansArchived'
    BY <2>1 DEF ArchiveDocument, EndItem, GoTo, MarkInv, DeletedMeansArchived, TypeOK
  <2>. QED BY <2>2, <2>3, <2>4 DEF MarkInv
<1>2. CursorInv'
  BY DEF ArchiveDocument, EndItem, GoTo, CursorInv, Owed, TypeOK
<1>. QED BY <1>1, <1>2

LEMMA CompleteInv == ASSUME IInv, NEW s \in Syncs, Complete(s) PROVE (DocumentInv /\ CursorInv /\ MarkInv)'
<1>1. DocumentInv' /\ MarkInv'
  BY DEF Complete, Forget, GoTo, DocumentInv, MarkInv, DeletedMeansArchived, TypeOK
<1>2. CursorInv'
  BY DEF Complete, Forget, GoTo, CursorInv, Owed, TypeOK
<1>. QED BY <1>1, <1>2

LEMMA SyncEndsInv == ASSUME IInv, NEW s \in Syncs, SyncEnds(s) PROVE (DocumentInv /\ CursorInv /\ MarkInv)'
<1>1. DocumentInv' /\ MarkInv'
  BY DEF SyncEnds, Forget, GoTo, DocumentInv, MarkInv, DeletedMeansArchived, TypeOK
<1>2. CursorInv'
  BY DEF SyncEnds, Forget, GoTo, CursorInv, Owed, TypeOK
<1>. QED BY <1>1, <1>2

LEMMA NextInv == IInv /\ [Next]_vars => IInv'
<1> SUFFICES ASSUME IInv, [Next]_vars PROVE IInv'
  OBVIOUS
<1>1. TypeOK'
  BY NextTypeOK
<1>2. ASSUME NEW s \in Syncs, RunSync(s) \/ SyncEnds(s) PROVE (DocumentInv /\ CursorInv /\ MarkInv)'
  BY <1>2, CreateSyncInv, ReadCursorInv, ReadDirectoryInv, StatInv, BeginReadingInv, ReadFileInv, EndListingInv,
     BeginUpsertInv, CommitUpsertInv, UpsertFailsInv, SelectKnownInv, MarkDeletedInv, ArchiveDocumentInv, CompleteInv, SyncEndsInv DEF RunSync
<1>3. CASE UNCHANGED vars
  <2>1. DocumentInv' /\ MarkInv'
    BY <1>3 DEF vars, DocumentInv, MarkInv, DeletedMeansArchived
  <2>2. CursorInv'
    BY <1>3 DEF vars, CursorInv, Owed, TypeOK
  <2>. QED BY <1>1, <2>1, <2>2
<1>4. ASSUME NEW f \in Files, WriteFile(f) \/ RemoveFile(f) PROVE (DocumentInv /\ CursorInv /\ MarkInv)'
  BY <1>4, WriteFileInv, RemoveFileInv
<1>. QED BY <1>1, <1>2, <1>3, <1>4 DEF Next

LEMMA Invariant == Spec => []IInv
BY InitInv, NextInv, PTL DEF Spec

\* However many syncs overlap, a file has one document
\* (tests/connector.test.ts 42).
THEOREM OneDocumentPerFile == Spec => []NoDuplicates
<1>1. IInv => NoDuplicates
  <2> SUFFICES ASSUME IInv, NEW f \in Files PROVE documents[f] <= 1
    BY DEF NoDuplicates
  <2>1. documents[f] = 0 \/ documents[f] = 1
    BY DEF DocumentInv
  <2>. QED BY <2>1
<1>. QED BY <1>1, Invariant, PTL

\* The cursor that the next sync starts from passes no file without a
\* document but one that was written behind a listing's back, whichever sync
\* completed last (connector.ts 44-57, 108-111).
THEOREM CursorIsCovered == Spec => []CursorCovers
<1>1. IInv => CursorCovers
  BY DEF CursorInv, CursorCovers
<1>. QED BY <1>1, Invariant, PTL

\* What is marked deleted is archived or about to be (connector.ts 151, 158).
THEOREM DeletedIsArchived == Spec => []DeletedMeansArchived
<1>1. IInv => DeletedMeansArchived
  BY DEF MarkInv
<1>. QED BY <1>1, Invariant, PTL
=============================================================================
