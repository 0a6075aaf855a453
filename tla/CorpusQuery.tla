----------------------------- MODULE CorpusQuery -----------------------------
(***************************************************************************)
(* corpus_search: the query language (query.py), the correction of words   *)
(* nothing was found for, and a caller who asks for one page after the     *)
(* other (corpus.py, search).  Letters stand for folded characters; FTS5    *)
(* matches terms and is modelled by what its operators mean.                *)
(***************************************************************************)
EXTENDS Integers, Sequences, SequencesExt

CONSTANTS
    Letters,     \* what words are made of, integers above 0
    MaxWord,     \* bound: letters of a word
    MaxTokens,   \* bound: tokens of a query
    Limit,       \* the caller's limit
    MaxOffset,   \* search() refuses a larger offset (10,000)
    MaxClauses,  \* MAX_CLAUSES (32)
    Long, Stem   \* nearest_term: words of Long letters (5) share Stem of them (3)

VARIABLES
    query,       \* the tokens of the caller's query
    papers,      \* the corpus, in the order of its ranking: each the words it has
    offset,      \* of the next page, -1 when the caller is done
    seen,        \* the papers of the pages so far
    corrected    \* a page was answered for other words

vars == <<query, papers, offset, seen, corrected>>

Words == UNION {[1..n -> Letters] : n \in 1..MaxWord}
OrWord == <<0>>  \* the word "or"

\* What RAW_CLAUSE finds: a keyword, or a clause; pure punctuation makes no clause.
Clause(w, prefix, negated) == [word |-> w, prefix |-> prefix, negated |-> negated]
Term(w)    == [key |-> "term", clause |-> Clause(w, FALSE, FALSE)]
Without(w) == [key |-> "term", clause |-> Clause(w, FALSE, TRUE)]
Starts(w)  == [key |-> "term", clause |-> Clause(w, TRUE, FALSE)]
Key(k)     == [key |-> k, clause |-> Clause(OrWord, FALSE, FALSE)]

-----------------------------------------------------------------------------
(* parse() and render().                                                   *)

Unread == [required |-> <<>>, excluded |-> <<>>, or |-> FALSE, not |-> FALSE]

\* A clause to exclude takes a pending OR with it.
AddClause(p, c) ==
    IF c.negated \/ p.not
    THEN [p EXCEPT !.excluded = Append(@, c), !.not = FALSE, !.or = FALSE]
    ELSE [p EXCEPT !.required = IF p.or THEN [@ EXCEPT ![Len(@)] = Append(@, c)] ELSE Append(@, <<c>>),
                   !.or = FALSE]

\* OR with nothing to its left is the word.
ReadToken(p, t) ==
    CASE t.key = "OR" /\ p.required # <<>> -> [p EXCEPT !.or = TRUE]
      [] t.key = "NOT" -> [p EXCEPT !.not = TRUE]
      [] t.key \in {"AND", "noise"} -> p
      [] OTHER -> AddClause(p, t.clause)

Parse(tokens) == FoldLeft(ReadToken, Unread, tokens)

Clauses(p) == FlattenSeq(p.required) \o p.excluded
Accepted(p) == p.required # <<>> /\ Len(Clauses(p)) <= MaxClauses

Found(c, paper) == IF c.prefix THEN \E w \in paper : IsPrefix(c.word, w) ELSE c.word \in paper

\* The rendered expression: (OR of a group) AND ... NOT (OR of the excluded).
Matches(p, paper) ==
    /\ \A g \in Range(p.required) : \E c \in Range(g) : Found(c, paper)
    /\ ~\E c \in Range(p.excluded) : Found(c, paper)

-----------------------------------------------------------------------------
(* The spelling of words.                                                  *)

\* bounded_edit_distance: Levenshtein's rows, one letter of `left` each; -1 for None, also
\* as soon as a whole row is beyond the maximum.
NextRow(previous, i, letter, right) ==
    FoldLeft(LAMBDA row, j :
                 Append(row, Min({previous[j + 1] + 1, row[j] + 1,
                                  previous[j] + (IF letter = right[j] THEN 0 ELSE 1)})),
             <<i>>, [j \in DOMAIN right |-> j])
EditDistance(left, right, maximum) ==
    LET first == [j \in 1..(Len(right) + 1) |-> j - 1]
        last == FoldLeft(LAMBDA row, i :
                             IF row = <<>> THEN row
                             ELSE LET next == NextRow(row, i, left[i], right)
                                  IN  IF Min(Range(next)) > maximum THEN <<>> ELSE next,
                         first, [i \in DOMAIN left |-> i])
    IN  IF Len(left) - Len(right) \notin (-maximum)..maximum \/ last = <<>> \/ Last(last) > maximum
        THEN -1 ELSE Last(last)

Vocabulary == UNION Range(papers)
Documents(w) == Cardinality({n \in DOMAIN papers : w \in papers[n]})

\* nearest_term: of the indexed words that begin alike the closest, of those the one most
\* papers have; {} for None.
Allowed(w) == IF Len(w) < Long THEN 1 ELSE 2
Candidates(w) ==
    LET stem == SubSeq(w, 1, IF Len(w) < Long THEN 1 ELSE Stem)
    IN  {v \in Vocabulary : IsPrefix(stem, v) /\ EditDistance(w, v, Allowed(w)) > 0}
Nearest(w) ==
    LET rank(v) == EditDistance(w, v, Allowed(w)) * (Len(papers) + 1) - Documents(v)
    IN  {v \in Candidates(w) : \A u \in Candidates(w) : rank(v) <= rank(u)}

\* correct_terms: required words, alone in their group, that no paper has.
Correctable(g) == Len(g) = 1 /\ ~g[1].prefix /\ g[1].word \notin Vocabulary /\ Nearest(g[1].word) # {}
Respelled(p) ==
    [p EXCEPT !.required =
        [n \in DOMAIN @ |-> IF Correctable(@[n]) THEN <<[@[n][1] EXCEPT !.word = CHOOSE v \in Nearest(@) : TRUE]>>
                            ELSE @[n]]]

-----------------------------------------------------------------------------
(* search(), as often as the caller goes on.                               *)

\* The tokens of a query: two words and one that begins like the first, OR, NOT and AND,
\* a word to exclude, a prefix, punctuation.
Tokens ==
    {Term(<<1>>), Term(<<1, 2>>), Term(<<2, 1, 2>>), Without(<<1, 2>>), Starts(<<1>>)}
        \cup {Key(k) : k \in {"OR", "AND", "NOT", "noise"}}

Paper == SUBSET {<<1>>, <<1, 2>>, <<2, 1, 1>>, <<2, 1, 2>>, OrWord}

Init == query = <<>> /\ papers = <<>> /\ offset = -1 /\ seen = <<>> /\ corrected = FALSE

\* The longer queries only for what they mean, the short ones of some corpus.
Ask ==
    /\ query = <<>>
    /\ query' \in UNION {[1..n -> Tokens] : n \in 1..MaxTokens}
    /\ papers' \in IF Len(query') > 2 THEN {<<>>}
                   ELSE UNION {[1..n -> {{<<1>>, <<2, 1, 1>>}, {<<1, 2>>}, {<<1>>, <<1, 2>>}}] : n \in 0..3}
    /\ offset' = IF Accepted(Parse(query')) /\ papers' # <<>> THEN 0 ELSE -1
    /\ UNCHANGED <<seen, corrected>>

Page(p, from) ==
    LET all == SelectSeq([n \in DOMAIN papers |-> n], LAMBDA n : Matches(p, papers[n]))
    IN  SubSeq(all, from + 1, Min({from + Limit, Len(all)}))

\* A first page without rows is retried with corrected words, a later one is not.
Search(fuzzy) ==
    /\ offset \in 0..MaxOffset
    /\ LET p    == Parse(query)
           rows == Page(p, offset)
           new  == IF rows = <<>> /\ fuzzy /\ offset = 0 THEN Respelled(p) ELSE p
           got  == IF new = p THEN rows ELSE Page(new, offset)
       IN  /\ seen' = seen \o got
           /\ corrected' = (corrected \/ new # p)
           /\ offset' = IF Len(got) = Limit THEN offset + Len(got) ELSE -1
    /\ UNCHANGED <<query, papers>>

Next == Ask \/ \E fuzzy \in BOOLEAN : Search(fuzzy)

Spec == Init /\ [][Next]_vars

-----------------------------------------------------------------------------
(* Properties.                                                             *)

\* What a query says, token by token.  A clause is a term, or an OR before which nothing is
\* required; it is excluded by its sign or by a NOT with no clause in between.
IsClause(q, i) == q[i].key = "term" \/ (q[i].key = "OR" /\ Parse(SubSeq(q, 1, i - 1)).required = <<>>)
Excludes(q, i) ==
    /\ IsClause(q, i)
    /\ \/ q[i].clause.negated
       \/ \E k \in 1..(i - 1) : q[k].key = "NOT" /\ \A j \in (k + 1)..(i - 1) : ~IsClause(q, j)
Requires(q, i) == IsClause(q, i) /\ ~Excludes(q, i)
\* i is an alternative to the required clause before it.
Alternative(q, i) ==
    \E k \in 1..(i - 1) : q[k].key = "OR" /\ ~IsClause(q, k) /\ \A j \in (k + 1)..(i - 1) : ~IsClause(q, j)
\* The required clauses that are alternatives to i, which is none itself.
GroupOf(q, i) ==
    {j \in i..Len(q) : Requires(q, j) /\ \A k \in (i + 1)..j : Requires(q, k) => Alternative(q, k)}

Says(q, paper) ==
    /\ \A i \in DOMAIN q :
           Requires(q, i) /\ ~Alternative(q, i) => \E j \in GroupOf(q, i) : Found(q[j].clause, paper)
    /\ \A i \in DOMAIN q : Excludes(q, i) => ~Found(q[i].clause, paper)

\* The expression a query becomes finds the papers the query speaks of, however its words,
\* signs and operators are ordered: nothing excluded is found, alternatives are alternatives
\* to the term before them alone, and every other term is required.
QueriesMeanWhatTheySay ==
    LET p == Parse(query)
    IN  Accepted(p) => \A paper \in Paper : Matches(p, paper) <=> Says(query, paper)

\* What one edit makes of words.
Edited(S) ==
    S \cup UNION {UNION {{SubSeq(w, 1, i - 1) \o SubSeq(w, i + 1, Len(w)),
                          SubSeq(w, 1, i - 1) \o <<a>> \o SubSeq(w, i + 1, Len(w))} : i \in DOMAIN w, a \in Letters}
                  \cup UNION {{SubSeq(w, 1, i) \o <<a>> \o SubSeq(w, i + 1, Len(w)) : i \in 0..Len(w)} : a \in Letters}
                  : w \in S}

\* bounded_edit_distance is the least number of edits, if that is within the maximum.
DistanceIsExact ==
    \A w \in Words :
        LET near == <<{w}, Edited({w}), Edited(Edited({w}))>>
        IN  \A v \in Words, m \in 1..2 :
                LET n == {k \in 0..m : v \in near[k + 1]}
                IN  EditDistance(w, v, m) = IF n = {} THEN -1 ELSE Min(n)

\* A caller who goes on while hasMore says so is given every paper the query matches, once
\* and in order (unless the words were corrected, which only the first page is, or the
\* offset runs out).
PagesComplete ==
    offset = -1 /\ ~corrected /\ papers # <<>> /\ Accepted(Parse(query)) =>
        seen = SelectSeq([n \in DOMAIN papers |-> n], LAMBDA n : Matches(Parse(query), papers[n]))

\* The same without the exception: the pages of a corrected query go on.  The code breaks it.
CorrectedPagesComplete ==
    offset = -1 /\ corrected =>
        Len(seen) < Limit \/ ~\E n \in DOMAIN papers \ Range(seen) : Matches(Respelled(Parse(query)), papers[n])
=============================================================================
