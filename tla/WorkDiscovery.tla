--------------------------- MODULE WorkDiscovery ----------------------------
(***************************************************************************)
(* tools/work_discovery_scan.py: one call per list and repository fetches   *)
(* the open issues, the open pull requests and the recent merges, one after *)
(* the other, while the repositories go on changing; the triage then sorts  *)
(* the issues into blocked ones and ranked candidates.  What an issue says  *)
(* of its blockers is the set of references that the regular expressions    *)
(* find in its body and its comments; a label is what it forces.            *)
(***************************************************************************)
EXTENDS Naturals, FiniteSets, Sequences, Functions

CONSTANTS
    Scanned,        \* the repositories of --repo, in this order
    ByName,         \* the same, in the order of their names
    Issues, Pulls,  \* references, <<repository, number>>
    Outside,        \* references to repositories that are not scanned
    Attributes,     \* [Issues -> [labels, milestone, effort, updated]]
    TopN, FreePanes, OpenLimit, RecentMerges,
    MaxBlockers,    \* bound on what an issue is blocked by at first
    MaxChanges      \* bound on what happens during a scan

Repo(ref) == ref[1]
Refs == Issues \cup Pulls
Repos == Range(Scanned)
NoFetch == [issues |-> {}, prs |-> {}, merges |-> <<>>]

VARIABLES
    open,        \* open issues and pull requests
    blockers,    \* blockers[i]: references behind a blocking keyword
    held,        \* issues with a blocked or on-hold label
    merges,      \* merges of each repository, the newest last
    pc, at,      \* the step of the scan and its repository
    bundles,     \* what has been fetched
    truncated,   \* input_truncated
    result, exit,
    changes,     \* bound
    stayed,      \* history: open in every state of the scan
    stayedShut,  \* history: closed in every state of the scan
    linked       \* history: blockers that an issue had in every state of the scan

vars == <<open, blockers, held, merges, pc, at, bundles, truncated, result, exit, changes, stayed, stayedShut, linked>>
world == <<open, blockers, held, merges>>
history == <<stayed, stayedShut, linked>>

NoResult == [top |-> <<>>, dropped |-> 0, excluded |-> {}]

Init ==
    /\ open \in SUBSET Refs
    /\ blockers \in [Issues -> {b \in SUBSET (Refs \cup Outside) : Cardinality(b) <= MaxBlockers}]
    /\ held \in SUBSET Issues
    /\ merges = [r \in Repos |-> <<>>]
    /\ pc = "issues" /\ at = 1
    /\ bundles = [r \in Repos |-> NoFetch] /\ truncated = FALSE
    /\ result = NoResult /\ exit = "none"
    /\ changes = 0
    /\ stayed = open /\ stayedShut = Refs \ open /\ linked = blockers
-----------------------------------------------------------------------------
(* The repositories change. *)
Witness ==
    /\ stayed' = stayed \cap open' /\ stayedShut' = stayedShut \ open'
    /\ linked' = [i \in Issues |-> linked[i] \cap blockers'[i]]

Change ==
    /\ pc # "done" /\ changes < MaxChanges
    /\ changes' = changes + 1
    /\ UNCHANGED <<pc, at, bundles, truncated, result, exit>>

(* A pull request is merged and closes, or only mentions, issues of any repository. *)
MergePull(p, closed, mentioned) ==
    /\ Change
    /\ p \in open
    /\ open' = open \ (closed \cup {p})
    /\ merges' = [merges EXCEPT ![Repo(p)] = Append(@, [pr |-> p, closed |-> closed,
                                                        mentioned |-> closed \cup mentioned])]
    /\ UNCHANGED <<blockers, held>> /\ Witness

CloseOrReopen(ref) ==
    /\ Change
    /\ open' = IF ref \in open THEN open \ {ref} ELSE open \cup {ref}
    /\ UNCHANGED <<blockers, held, merges>> /\ Witness

EditBlockers(i, ref) ==
    /\ Change
    /\ blockers' = [blockers EXCEPT ![i] = IF ref \in @ THEN @ \ {ref} ELSE @ \cup {ref}]
    /\ UNCHANGED <<open, held, merges>> /\ Witness
-----------------------------------------------------------------------------
(* gh issue list, gh pr list: the newest that are open, up to the limit. *)
Newest(refs) ==
    {ref \in refs : Cardinality({other \in refs : other[2] > ref[2]}) < OpenLimit}

(* fetch_open_issues, with the blockers and the label that each has now. *)
FetchIssues ==
    /\ pc = "issues"
    /\ LET found == Newest({i \in Issues \cap open : Repo(i) = Scanned[at]}) IN
       /\ bundles' = [bundles EXCEPT ![Scanned[at]].issues =
                         {[ref |-> i, blockers |-> blockers[i], held |-> i \in held] : i \in found}]
       /\ truncated' = (truncated \/ Cardinality(found) >= OpenLimit)
    /\ pc' = "pulls"
    /\ UNCHANGED <<world, at, result, exit, changes, history>>

FetchPulls ==
    /\ pc = "pulls"
    /\ LET found == Newest({p \in Pulls \cap open : Repo(p) = Scanned[at]}) IN
       /\ bundles' = [bundles EXCEPT ![Scanned[at]].prs = found]
       /\ truncated' = (truncated \/ Cardinality(found) >= OpenLimit)
    /\ pc' = "merges"
    /\ UNCHANGED <<world, at, result, exit, changes, history>>

(* fetch_recent_merges: the newest by the time of the merge. *)
FetchMerges ==
    /\ pc = "merges"
    /\ LET all == merges[Scanned[at]]
           from == IF Len(all) > RecentMerges THEN Len(all) - RecentMerges + 1 ELSE 1 IN
       bundles' = [bundles EXCEPT ![Scanned[at]].merges = SubSeq(all, from, Len(all))]
    /\ IF at < Len(Scanned) THEN at' = at + 1 /\ pc' = "issues" ELSE at' = at /\ pc' = "rank"
    /\ UNCHANGED <<world, truncated, result, exit, changes, history>>

(* Any call of gh that fails ends the scan with the error envelope. *)
FetchFails ==
    /\ pc \in {"issues", "pulls", "merges"}
    /\ pc' = "done" /\ exit' = "error"
    /\ UNCHANGED <<world, at, bundles, truncated, result, changes, history>>
-----------------------------------------------------------------------------
AllIssues == UNION {bundles[r].issues : r \in Repos}
AllMerges == UNION {Range(bundles[r].merges) : r \in Repos}

(* Mistake: a pull request does not block. *)
OpenIssuesOnly == {i.ref : i \in AllIssues}

(* open_refs_q: references are told apart by repository and number. *)
OpenRefs == {i.ref : i \in AllIssues} \cup UNION {bundles[r].prs : r \in Repos}

(* _classify_dependency_q: a reference that is not seen open is resolved. *)
OpenBlocking(i) == i.blockers \cap OpenRefs
Blocked(i) == i.held \/ OpenBlocking(i) # {}

(* _estimate_unblocked_q *)
Unblocked(i) ==
    \/ \E b \in i.blockers, m \in AllMerges : b = m.pr \/ b \in m.closed
    \/ \E m \in AllMerges : i.ref \in m.mentioned

(* compute_priority: the first priority label counts, then backlog. *)
Level == [high |-> 2, medium |-> 1, low |-> 0]
Priority(i) ==
    LET labels == Attributes[i.ref].labels
        graded == {k \in DOMAIN labels : labels[k] \in DOMAIN Level} IN
    IF graded # {} THEN Level[labels[CHOOSE k \in graded : \A l \in graded : k <= l]]
    ELSE IF "backlog" \in Range(labels) THEN 0 ELSE 1

(* estimate_parallelizable *)
Parallelizable(i) == OpenBlocking(i) = {}

(* build_candidate, of an issue that is not blocked. *)
Candidate(i) ==
    [priority |-> Priority(i), unblocked |-> Unblocked(i), parallelizable |-> Parallelizable(i),
     effort |-> Attributes[i.ref].effort, milestone |-> Attributes[i.ref].milestone,
     updated |-> Attributes[i.ref].updated, ref |-> i.ref]

(* _sort_key: smaller is better. *)
Bit(b) == IF b THEN 1 ELSE 0
SortKey(c) ==
    <<2 - c.priority, 1 - Bit(c.unblocked), 1 - Bit(c.parallelizable /\ FreePanes > 0),
      c.effort, 1 - Bit(c.milestone), 10 - c.updated,
      CHOOSE k \in DOMAIN ByName : ByName[k] = Repo(c.ref), c.ref[2]>>

Better(c, d) ==
    LET x == SortKey(c)  y == SortKey(d) IN
    \E k \in DOMAIN x : x[k] < y[k] /\ \A l \in 1 .. k - 1 : x[l] = y[l]

(* rank_candidates: the candidates from the best to the worst. *)
Candidates == {Candidate(i) : i \in {i \in AllIssues : ~Blocked(i)}}
Ranking == CHOOSE s \in [1 .. Cardinality(Candidates) -> Candidates] :
               \A j, k \in DOMAIN s : j < k => Better(s[j], s[k])

(* The best ones, and the entries of excluded_blocked. *)
Rank ==
    /\ pc = "rank"
    /\ LET ranked == Ranking
           top == SubSeq(ranked, 1, IF Len(ranked) < TopN THEN Len(ranked) ELSE TopN) IN
       /\ result' = [top |-> top, dropped |-> Len(ranked) - Len(top),
                     excluded |-> {i \in AllIssues : Blocked(i)}]
       /\ exit' = IF top = <<>> THEN "no candidates" ELSE "candidates found"
    /\ pc' = "done"
    /\ UNCHANGED <<world, at, bundles, truncated, changes, history>>

Next ==
    \/ \E p \in Pulls, closed, mentioned \in SUBSET Issues :
           (Cardinality(closed \cup mentioned) <= 1 /\ MergePull(p, closed, mentioned))
    \/ \E ref \in Refs : CloseOrReopen(ref)
    \/ \E i \in Issues, ref \in Refs : EditBlockers(i, ref)
    \/ FetchIssues \/ FetchPulls \/ FetchMerges \/ FetchFails
    \/ Rank

Spec == Init /\ [][Next]_vars
-----------------------------------------------------------------------------
TypeOK ==
    /\ open \subseteq Refs /\ blockers \in [Issues -> SUBSET (Refs \cup Outside)]
    /\ at \in DOMAIN Scanned
    /\ exit \in {"none", "error", "no candidates", "candidates found"}
    /\ {c.ref : c \in Range(result.top)} \subseteq {i.ref : i \in AllIssues}

(* Which issues and pull requests were open is only known list by list, but *)
(* what the scan says is true all the same: nothing that something open     *)
(* blocked all through the scan is proposed, nothing that was free all      *)
(* through it is excluded, and an issue that was open all through it is     *)
(* proposed, excluded or counted as cut off - unless a list reached its     *)
(* limit, which is reported.                                                *)
StillBlocked(i) == linked[i] \cap stayed # {}
MayBeBlocked(i) == i.held \/ i.blockers \ (stayedShut \cup Outside) # {}
Listed == {i.ref : i \in Range(result.top) \cup result.excluded}

TriageIsTrue ==
    pc = "done" /\ exit # "error" /\ ~truncated =>
        /\ \A i \in Range(result.top) : ~StillBlocked(i.ref)
        /\ \A i \in result.excluded : MayBeBlocked(i)
        /\ Cardinality((Issues \cap stayed) \ Listed) <= result.dropped
        /\ exit = "no candidates" => Issues \cap stayed \subseteq Listed
=============================================================================
