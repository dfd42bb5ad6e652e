------------------------------- MODULE Rerank -------------------------------
(***************************************************************************)
(* The deterministic reranker (src/server/ai/rerank.ts) in whole numbers:  *)
(* weights and signals are in hundredths, so scores are in ten-thousandths.*)
(* A candidate is a record of its signals, its document and whether that   *)
(* has an unresolved conflict; its text is abstracted to the signals.      *)
(***************************************************************************)
EXTENDS Integers, Sequences, FiniteSets

SignalNames == {"semantic", "lexical", "phrase", "title", "authority", "freshness"}
Conflict == 12

Weights(se, le, ph, ti, au, fr) ==
    [semantic |-> se, lexical |-> le, phrase |-> ph, title |-> ti, authority |-> au, freshness |-> fr]

WEIGHT_PRESETS ==
    [lexical  |-> Weights(0, 60, 10, 10, 12, 8),
     semantic |-> Weights(68, 6, 2, 2, 12, 10),
     hybrid   |-> Weights(42, 24, 5, 6, 12, 11),
     graph    |-> Weights(36, 22, 4, 6, 18, 14)]

\* The options a search passes: with no vector, semantic evidence is void.
Effective(mode, semanticAvailable) ==
    IF semanticAvailable THEN WEIGHT_PRESETS[mode] ELSE [WEIGHT_PRESETS[mode] EXCEPT !.semantic = 0]

Clamp(low, high, n) == IF n < low THEN low ELSE IF n > high THEN high ELSE n

Score(weights, c) ==
    LET raw == weights.semantic * c.signals.semantic + weights.lexical * c.signals.lexical
               + weights.phrase * c.signals.phrase + weights.title * c.signals.title
               + weights.authority * c.signals.authority + weights.freshness * c.signals.freshness
    IN Clamp(0, 10500, raw - (IF c.conflict THEN 100 * Conflict ELSE 0))

\* Array.prototype.sort is stable: a result's place is one after those ahead.
Ahead(results, i, j) ==
    \/ results[i].score > results[j].score
    \/ results[i].score = results[j].score /\ i < j
Place(results, i) == 1 + Cardinality({j \in DOMAIN results : Ahead(results, j, i)})
SortByScore(results) ==
    [k \in DOMAIN results |-> results[CHOOSE i \in DOMAIN results : Place(results, i) = k]]

\* A chunk over the cap of its document loses 0.02 for every place.
Diversify(results, cap) ==
    [k \in DOMAIN results |->
        LET before == Cardinality({j \in 1..(k - 1) : results[j].doc = results[k].doc})
        IN IF before < cap THEN results[k]
           ELSE [results[k] EXCEPT !.score = Clamp(0, @, @ - 200 * (before - cap + 1))]]

\* Bug: the candidates are not sorted before the caps count them.
RerankUnsorted(candidates, mode, semanticAvailable, cap) ==
    LET weights == Effective(mode, semanticAvailable)
        scored == [k \in DOMAIN candidates |->
                      [id |-> candidates[k].id, doc |-> candidates[k].doc,
                       score |-> Score(weights, candidates[k]), base |-> Score(weights, candidates[k])]]
    IN SortByScore(Diversify(scored, cap))

rerank(candidates, mode, semanticAvailable, cap) ==
    LET weights == Effective(mode, semanticAvailable)
        scored == [k \in DOMAIN candidates |->
                      [id |-> candidates[k].id, doc |-> candidates[k].doc,
                       score |-> Score(weights, candidates[k]), base |-> Score(weights, candidates[k])]]
    IN SortByScore(Diversify(SortByScore(scored), cap))
=============================================================================
