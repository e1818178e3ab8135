------------------------------ MODULE Retrieval ------------------------------
(***************************************************************************)
(* How evidence is found: the two searches, their fusion and the rerank    *)
(* (retrieval/), and the read-only tools over them (answers/agent_tools).  *)
(*                                                                         *)
(* A corpus has rows, each with its org, source_type, source_id,          *)
(* confidentiality, whether it has an embedding, and what its metadata     *)
(* says of customer_shareable ("yes", "no", or "unset": no such key); and, *)
(* for the query at hand, whether it is blank, the order in which each     *)
(* database index returns the rows (near for cosine distance, matching for *)
(* full text) and the reranker's scores.                                   *)
(***************************************************************************)
EXTENDS Integers, Listing, FiniteSetsExt, SequencesExt

CONSTANTS
    CandidateK,  \* retrieval_candidate_k: rows each search returns
    MaxResults,  \* _MAX_RESULTS of a tool
    RrfK         \* DEFAULT_RRF_K

ASSUME RetrievalAssumption ==
    CandidateK \in Nat /\ MaxResults \in Nat /\ RrfK \in Nat

\* A corpus as there are: each index returns some of the rows, each once, and the
\* reranker has a number for every row.
CorpusOK(corpus) ==
    /\ corpus.rows \in Seq(ToSet(corpus.rows))
    /\ \A rows \in {corpus.near, corpus.matching} :
         rows \in Seq(ToSet(corpus.rows)) /\ IsInjective(rows)
    /\ \A row \in ToSet(corpus.rows) : corpus.score[row.id] \in Int

-----------------------------------------------------------------------------
(* search.py, filters.py                                                   *)

\* Mutant: a row that says nothing of being shareable is taken as shareable.
AdmitsUnset(filters, row) ==
    /\ row.org = filters.org
    /\ filters.source_types # {} => row.source_type \in filters.source_types
    /\ filters.confidentiality # {} => row.confidentiality \in filters.confidentiality
    /\ filters.customer_shareable = "yes" => row.customer_shareable # "no"

\* The WHERE of both searches: a comparison with an unset key is never true.
Admits(filters, row) ==
    /\ row.org = filters.org
    /\ filters.source_types # {} => row.source_type \in filters.source_types
    /\ filters.confidentiality # {} => row.confidentiality \in filters.confidentiality
    /\ filters.customer_shareable # "any" =>
         row.customer_shareable = filters.customer_shareable

UpTo(rows, n) == SubSeq(rows, 1, Min({n, Len(rows)}))

VectorSearch(corpus, filters) ==
    LET near == corpus.near
    IN UpTo(Picked(near, {i \in DOMAIN near : near[i].embedded /\ Admits(filters, near[i])}),
            CandidateK)

KeywordSearch(corpus, filters) ==
    LET matching == corpus.matching
    IN UpTo(Picked(matching, {i \in DOMAIN matching : Admits(filters, matching[i])}), CandidateK)

-----------------------------------------------------------------------------
(* fusion.py                                                               *)

\* The place of an item of a list; lists have no item twice.
Rank(list, item) == CHOOSE i \in DOMAIN list : list[i] = item

\* k + rank, 0 for a list the item is not in.
Den(list, item) == IF item \in ToSet(list) THEN RrfK + Rank(list, item) ELSE 0

\* The sum of 1/(k + rank) over the lists an item is in, as a fraction.
Score(lists, item) ==
    LET v == Den(lists[1], item)
        w == Den(lists[2], item)
    IN CASE w = 0 -> [num |-> 1, den |-> v]
         [] v = 0 -> [num |-> 1, den |-> w]
         [] OTHER -> [num |-> v + w, den |-> v * w]

Above(s, t) == s.num * t.den > t.num * s.den

\* The place an item is first seen in, going through one list after the other.
FirstSeen(lists, item) ==
    IF item \in ToSet(lists[1]) THEN Rank(lists[1], item)
    ELSE Len(lists[1]) + Rank(lists[2], item)

\* Best first; of items with the same score, the first seen.
FusedBefore(lists, x, y) ==
    LET s == Score(lists, x)
        t == Score(lists, y)
    IN Above(s, t) \/ (~Above(t, s) /\ FirstSeen(lists, x) < FirstSeen(lists, y))

ReciprocalRankFusion(lists) ==
    LET items == ToSet(lists[1]) \cup ToSet(lists[2])
    IN InOrder(items, {p \in items \X items : FusedBefore(lists, p[1], p[2])})

-----------------------------------------------------------------------------
(* pipeline.py                                                             *)

\* Best first by the reranker's scores.  Rows it cannot tell apart stay in fused order:
\* by fusion score, and the sort is stable.
RankedBefore(corpus, fused, x, y) ==
    \/ corpus.score[x.id] > corpus.score[y.id]
    \/ corpus.score[x.id] = corpus.score[y.id] /\ Rank(fused, x) < Rank(fused, y)

Reranked(corpus, fused) ==
    LET rows == ToSet(fused)
    IN InOrder(rows, {p \in rows \X rows : RankedBefore(corpus, fused, p[1], p[2])})

\* Mutant: the best of the fused are reranked, not all of them.
RetrieveThenRerank(corpus, filters, top_k) ==
    LET lists == <<VectorSearch(corpus, filters), KeywordSearch(corpus, filters)>>
    IN Reranked(corpus, UpTo(ReciprocalRankFusion(lists), top_k))

\* Both searches, fused, reranked and cut.
Retrieve(corpus, filters, top_k) ==
    LET lists == <<VectorSearch(corpus, filters), KeywordSearch(corpus, filters)>>
    IN IF corpus.blank THEN <<>>
       ELSE UpTo(Reranked(corpus, ReciprocalRankFusion(lists)), top_k)

-----------------------------------------------------------------------------
(* agent_tools.py: the rows a tool call adds to the pool.  The organisation *)
(* is the server's, whatever the call says.                                 *)

SearchEvidence(corpus, org, args, customer_facing, top_k) ==
    LET filters == [org |-> org, source_types |-> args.source_types,
                    confidentiality |-> args.confidentiality,
                    customer_shareable |-> IF customer_facing THEN "yes"
                                           ELSE args.customer_shareable]
    IN UpTo(Retrieve(corpus, filters, top_k), MaxResults)

\* The rows of one document, in the order of chunk_index.
GetDocChunks(corpus, org, doc_id, source_type, customer_facing) ==
    LET rows == corpus.rows
    IN Picked(rows, {i \in DOMAIN rows : /\ rows[i].org = org
                                         /\ rows[i].source_type = source_type
                                         /\ rows[i].source_id = doc_id
                                         /\ customer_facing => rows[i].customer_shareable = "yes"})

\* get_findings cites nothing, and neither does a tool nobody knows.
ExecuteTool(corpus, org, call, customer_facing, top_k) ==
    CASE call.name = "search_evidence" ->
           SearchEvidence(corpus, org, call, customer_facing, top_k)
      [] call.name \in {"get_policy", "get_control"} ->
           GetDocChunks(corpus, org, call.id,
                        IF call.name = "get_policy" THEN "policy" ELSE "control", customer_facing)
      [] OTHER -> <<>>

-----------------------------------------------------------------------------
(* Correctness.                                                            *)

Position(rows, row) == IF row \in ToSet(rows) THEN Rank(rows, row) ELSE Len(rows) + 1

\* What retrieval keeps (fusion.py:1-11, pipeline.py:81-87): of all the candidates the
\* searches return, each once, as many as asked for, none left out that the reranker
\* puts above one kept; among rows the reranker cannot tell apart, one that is ahead
\* in both searches comes first, and, as long as the searches return no more rows
\* than k + 1, one that both found comes before one that a single search did.
RetrievalSoundIn(corpus, filters, top_k) ==
    LET near == VectorSearch(corpus, filters)
        matching == KeywordSearch(corpus, filters)
        candidates == ToSet(near) \cup ToSet(matching)
        kept == Retrieve(corpus, filters, top_k)
        ahead(x, y) ==
            \/ /\ x # y
               /\ Position(near, x) <= Position(near, y)
               /\ Position(matching, x) <= Position(matching, y)
            \/ /\ CandidateK <= RrfK + 1
               /\ x \in ToSet(near) \cap ToSet(matching)
               /\ y \notin ToSet(near) \cap ToSet(matching)
    IN IF corpus.blank THEN kept = <<>>
       ELSE /\ Len(kept) = Min({top_k, Cardinality(candidates)})
            /\ Cardinality(ToSet(kept)) = Len(kept)
            /\ \A x \in candidates, y \in candidates :
                 \/ corpus.score[x.id] > corpus.score[y.id]
                 \/ corpus.score[x.id] = corpus.score[y.id] /\ ahead(x, y)
                 => /\ Position(kept, x) < Position(kept, y) \/ x \notin ToSet(kept)
                    /\ y \in ToSet(kept) => x \in ToSet(kept)

\* The two ways to the same evidence let the same rows through (search.py:20-35,
\* agent_tools.py:193-216): what a customer-facing call returns is of the
\* organisation and said to be shareable, by search as by id; and a row that a search
\* among the documents of one source may return is also returned by its id.
GatesAgreeIn(corpus, org, customer_facing, args) ==
    LET found == ToSet(SearchEvidence(corpus, org, args, customer_facing, Len(corpus.rows)))
        calls == [name : {"get_policy", "get_control", "get_findings"},
                  id : {row.source_id : row \in ToSet(corpus.rows)}]
        fetched == UNION {ToSet(ExecuteTool(corpus, org, call, customer_facing, 0)) :
                            call \in calls}
        fetchable == {row \in ToSet(corpus.rows) :
                         /\ row.org = org
                         /\ row.source_type \in {"policy", "control"}
                         /\ customer_facing => row.customer_shareable = "yes"}
    IN /\ fetched = fetchable
       /\ \A row \in found :
            /\ row.org = org
            /\ customer_facing => row.customer_shareable = "yes"
            /\ row.source_type \in {"policy", "control"} => row \in fetched
=============================================================================
