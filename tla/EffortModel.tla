---------------------------- MODULE EffortModel -----------------------------
(***************************************************************************)
(* tools/work_discovery_scan.py: what merged pull requests took is paired   *)
(* with the length of the issue that each of them closed, and the sizes of  *)
(* new issues are taken from it - if the two are correlated at all.         *)
(* Numbers are scaled so that ranks, means and cut points stay integers.    *)
(***************************************************************************)
EXTENDS Integers, Sequences, FiniteSets, Functions, TLC

CONSTANTS
    Home, HomeIssues, Abroad,   \* the scanned repository, its closed issues, others
    Lengths, Efforts,           \* lengths of bodies (0: none or not fetched), realized effort
    MaxMerged, MinSamples,      \* bounds; MIN_EFFORT_SAMPLES
    Short, Long                 \* bounds of the static heuristic

VARIABLES merged, body, model

vars == <<merged, body, model>>

(* closingIssuesReferences of a merged pull request, and its composite. *)
Closing == {{}} \cup {{<<Home, i>>} : i \in HomeIssues} \cup {{ref} : ref \in Abroad}
           \cup {{<<Home, i>> : i \in HomeIssues}}
Merged == [closes : Closing, effort : Efforts]

NoModel == [applies |-> FALSE, cuts |-> <<>>, n |-> 0]

Init ==
    /\ merged \in UNION {[1 .. n -> Merged] : n \in 0 .. MaxMerged}
    /\ body \in [HomeIssues -> Lengths]    \* numbered by their lengths
    /\ \A i, j \in HomeIssues : i < j => body[i] <= body[j]
    /\ model = NoModel
-----------------------------------------------------------------------------
(* Mistake: issues are told apart by their number alone. *)
SingleOfAnyRepository(pr) ==
    Cardinality(pr.closes) = 1 /\ \A ref \in pr.closes : ref[2] \in HomeIssues

(* _single_closing_issue: exactly one issue, and one of this repository. *)
Single(pr) == Cardinality(pr.closes) = 1 /\ \A ref \in pr.closes : ref[1] = Home

ClosedIssue(pr) == CHOOSE i \in HomeIssues : \E ref \in pr.closes : ref[2] = i

(* _build_effort_samples: an issue without a body gives no sample. *)
Samples(prs) ==
    LET usable == SelectSeq(prs, LAMBDA pr : Single(pr) /\ body[ClosedIssue(pr)] > 0) IN
    [k \in DOMAIN usable |-> [len |-> body[ClosedIssue(usable[k])], effort |-> usable[k].effort]]

(* _spearman: twice the average rank of each value, ties sharing theirs. *)
Ranks(vals) ==
    [k \in DOMAIN vals |->
        2 * Cardinality({j \in DOMAIN vals : vals[j] < vals[k]})
            + Cardinality({j \in DOMAIN vals : vals[j] = vals[k]}) - 1]

SumOf(vals) == FoldFunction(+, 0, vals)
Centered(vals) == [k \in DOMAIN vals |-> Len(vals) * vals[k] - SumOf(vals)]
Covariance(xs, ys) == SumOf([k \in DOMAIN xs |-> xs[k] * ys[k]])

(* rho >= 0.3, and 0 if one of the two does not vary. *)
Correlated(xs, ys) ==
    LET x == Centered(Ranks(xs))
        y == Centered(Ranks(ys))
        c == Covariance(x, y) IN
    c > 0 /\ 100 * c * c >= 9 * Covariance(x, x) * Covariance(y, y)

(* _tertile_cutpoints, statistics.quantiles(n = 3): three times each cut. *)
Cuts(vals) ==
    LET sorted == SortSeq(vals, <)
        n == Len(vals)
        Cut(i) == LET k == (i * (n + 1)) \div 3
                      j == IF k < 1 THEN 1 ELSE IF k > n - 1 THEN n - 1 ELSE k
                      d == i * (n + 1) - 3 * j IN
                  sorted[j] * (3 - d) + sorted[j + 1] * d
    IN IF n < 3 THEN <<>> ELSE <<Cut(1), Cut(2)>>

(* learn_effort_model *)
ModelOf(samples) ==
    LET lens == [k \in DOMAIN samples |-> samples[k].len]
        efforts == [k \in DOMAIN samples |-> samples[k].effort] IN
    [applies |-> /\ Len(samples) >= MinSamples /\ Len(samples) >= 3
                 /\ Correlated(lens, efforts),
     cuts |-> Cuts(lens), n |-> Len(samples)]

(* build_effort_model; without it (no history, gh fails, several           *)
(* repositories) the model is the one of Init.                             *)
Learn ==
    /\ model = NoModel
    /\ model' = ModelOf(Samples(merged))
    /\ UNCHANGED <<merged, body>>

Next == Learn
Spec == Init /\ [][Next]_vars

(* estimate_effort of an issue that has no size label: S, M, L as 1, 2, 3. *)
Size(len, criteria) ==
    IF model.applies
    THEN IF 3 * len <= model.cuts[1] THEN 1 ELSE IF 3 * len <= model.cuts[2] THEN 2 ELSE 3
    ELSE IF len >= Long \/ criteria >= 8 THEN 3 ELSE IF len < Short /\ criteria <= 2 THEN 1 ELSE 2
-----------------------------------------------------------------------------
TypeOK == model.applies \in BOOLEAN /\ Len(model.cuts) \in {0, 2} /\ model.n \in 0 .. MaxMerged

(* The size that a length is given is learned from this repository alone,  *)
(* whatever the order the merges come in and whatever was closed elsewhere; *)
(* it is learned only if some longer issue took more, and always if every   *)
(* longer one did; and a longer issue is never given a smaller size.        *)
OfHome == SelectSeq(merged, LAMBDA pr : \A ref \in pr.closes : ref \notin Abroad)
Pairs == {p \in (DOMAIN Samples(merged)) \X (DOMAIN Samples(merged)) :
             Samples(merged)[p[1]].len < Samples(merged)[p[2]].len}
Agrees(p) == Samples(merged)[p[1]].effort < Samples(merged)[p[2]].effort

EffortIsLearnedFromHome ==
    model # NoModel =>
        /\ LET s == Samples(OfHome) IN model = ModelOf([k \in DOMAIN s |-> s[Len(s) + 1 - k]])
        /\ model.applies => \E p \in Pairs : Agrees(p)
        /\ model.n >= MinSamples /\ model.n >= 3 /\ Pairs # {} /\ (\A p \in Pairs : Agrees(p))
               /\ (\A i, j \in DOMAIN Samples(merged) :
                       Samples(merged)[i].len = Samples(merged)[j].len
                           => Samples(merged)[i].effort = Samples(merged)[j].effort) => model.applies
        /\ \A a, b \in Lengths, c \in {0, 5, 9} : a <= b => Size(a, c) <= Size(b, c)
=============================================================================
