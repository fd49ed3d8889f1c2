-------------------------------- MODULE Search --------------------------------
(***************************************************************************)
(* search_platform.py: the inverted index with its forward, surface and    *)
(* length tables under inserts, replacements and deletions, the words of   *)
(* autocomplete, and which documents a query finds.  Words are model       *)
(* values, Stem maps a word to its term, Near a term to the terms the      *)
(* fuzzy search accepts for it.  Scores decide only the order of the hits  *)
(* and are left out.                                                       *)
(***************************************************************************)
EXTENDS Integers, Sequences, FiniteSets, Functions, SequencesExt, FiniteSetsExt, Bags

CONSTANTS Id, Text, Stop, Stem, Near, Weight, Query, TagGap

VARIABLES docs, postings, forward, surface, docLen, totalLen, suggestDf, suggestSorted, dirty

indexVars == <<docs, postings, forward, surface, docLen, totalLen>>
vars == <<indexVars, suggestDf, suggestSorted, dirty>>

Field == {"title", "tags", "body"}
----------------------------------------------------------------------------
\* Analyzer.analyze: a stop word leaves no token but keeps its position.
analyze(words) ==
    {[term |-> Stem[words[i]], surface |-> words[i], position |-> i - 1]
        : i \in {j \in DOMAIN words : words[j] \notin Stop}}

TagBase(tags, i) == (i - 1) * TagGap

\* InvertedIndex._analyze_tags.
analyze_tags(tags) ==
    UNION {{[t EXCEPT !.position = TagBase(tags, i) + @] : t \in analyze(tags[i])} : i \in DOMAIN tags}

Tokens(doc) == [title |-> analyze(doc.title), tags |-> analyze_tags(doc.tags), body |-> analyze(doc.body)]
Terms(doc) == {t.term : t \in UNION Range(Tokens(doc))}
Surfaces(doc) == {t.surface : t \in UNION Range(Tokens(doc))}
Length(doc) == MapThenSumSet(LAMBDA f : Weight[f] * Cardinality(Tokens(doc)[f]), Field)

Posting(doc, term) ==
    [f \in Field |-> {t.position : t \in {u \in Tokens(doc)[f] : u.term = term}}]

Entry(f, key, value) == [x \in DOMAIN f \union {key} |-> IF x = key THEN value ELSE f[x]]
Removed(f, key) == Restrict(f, DOMAIN f \ {key})
Get(f, key, default) == IF key \in DOMAIN f THEN f[key] ELSE default

\* InvertedIndex.delete: the posting lists without id, and no empty list stays.
Unposted(id) ==
    LET left == [t \in DOMAIN postings |->
                    IF t \in Get(forward, id, {}) THEN Removed(postings[t], id) ELSE postings[t]]
    IN  Restrict(left, {t \in DOMAIN left : DOMAIN left[t] # {}})

Posted(lists, doc, id) ==
    [t \in DOMAIN lists \union Terms(doc) |->
        IF t \in Terms(doc) THEN Entry(Get(lists, t, <<>>), id, Posting(doc, t)) ELSE lists[t]]
----------------------------------------------------------------------------
Init ==
    /\ docs = <<>> /\ postings = <<>> /\ forward = <<>> /\ surface = <<>> /\ docLen = <<>>
    /\ totalLen = 0
    /\ suggestDf = EmptyBag /\ suggestSorted = {} /\ dirty = FALSE

\* SearchEngine._forget_surface.
Forgotten(id) == suggestDf (-) SetToBag(Get(surface, id, {}))

\* SearchEngine.index over InvertedIndex.upsert.
index(id, doc) ==
    /\ postings' = Posted(Unposted(id), doc, id)
    /\ docs' = Entry(docs, id, doc)
    /\ forward' = Entry(forward, id, Terms(doc))
    /\ surface' = Entry(surface, id, Surfaces(doc))
    /\ totalLen' = totalLen - Get(docLen, id, 0) + Length(doc)
    /\ docLen' = Entry(docLen, id, Length(doc))
    /\ suggestDf' = Forgotten(id) (+) SetToBag(Surfaces(doc))
    /\ dirty' = TRUE
    /\ UNCHANGED suggestSorted

delete(id) ==
    /\ id \in DOMAIN docs
    /\ postings' = Unposted(id)
    /\ docs' = Removed(docs, id)
    /\ forward' = Removed(forward, id)
    /\ surface' = Removed(surface, id)
    /\ totalLen' = totalLen - docLen[id]
    /\ docLen' = Removed(docLen, id)
    /\ suggestDf' = Forgotten(id)
    /\ dirty' = TRUE
    /\ UNCHANGED suggestSorted

\* SearchEngine.suggest rebuilds its sorted words when they are out of date.
suggest ==
    /\ dirty
    /\ suggestSorted' = DOMAIN suggestDf
    /\ dirty' = FALSE
    /\ UNCHANGED <<indexVars, suggestDf>>

Next ==
    \/ \E id \in Id : delete(id) \/ \E doc \in Text : index(id, doc)
    \/ suggest

Spec == Init /\ [][Next]_vars
----------------------------------------------------------------------------
\* QueryParser: a query is the words of its clauses; a phrase keeps its gaps.
Phrase(words) ==
    LET first == Min({t.position : t \in analyze(words)})
    IN  {[t EXCEPT !.position = @ - first] : t \in analyze(words)}
TermsOf(words) == {Stem[w] : w \in words \ Stop}

docs_with(term) == DOMAIN Get(postings, term, <<>>)

\* SearchEngine._has_phrase.
has_phrase(id, phrase) ==
    /\ \A t \in phrase : id \in docs_with(t.term)
    /\ \E f \in Field, t \in phrase : \E p \in postings[t.term][id][f] :
          \A u \in phrase : p - t.position + u.position \in postings[u.term][id][f]

\* SearchEngine._execute up to the scoring.
execute(q) ==
    LET should == TermsOf(q.should)
        scored == UNION {IF docs_with(t) # {} THEN {t} ELSE Near[t] : t \in should}
        phrase == IF analyze(q.phrase) = {} THEN {} ELSE Phrase(q.phrase)
        must == TermsOf(q.must) \union {t.term : t \in phrase}
        candidates == IF must # {}
                      THEN {id \in DOMAIN docs : \A t \in must : id \in docs_with(t)}
                      ELSE UNION {docs_with(t) : t \in scored}
    IN  {id \in candidates \ UNION {docs_with(t) : t \in TermsOf(q.must_not)} :
            phrase # {} => has_phrase(id, phrase)}
----------------------------------------------------------------------------
TypeOK ==
    /\ DOMAIN docs \subseteq Id
    /\ DOMAIN forward = DOMAIN docs /\ DOMAIN surface = DOMAIN docs
    /\ totalLen \in Nat /\ dirty \in BOOLEAN

\* search_platform.py, upsert, delete and _forget_surface: after any history of
\* inserts, replacements and deletions the postings, the lengths, and the counts
\* of autocomplete are those of the documents that are there now.
IndexIsDocs ==
    /\ DOMAIN postings = UNION {Terms(docs[i]) : i \in DOMAIN docs}
    /\ \A t \in DOMAIN postings :
          postings[t] = [i \in {j \in DOMAIN docs : t \in Terms(docs[j])} |-> Posting(docs[i], t)]
    /\ totalLen = MapThenSumSet(LAMBDA i : Length(docs[i]), DOMAIN docs)
    /\ \A w \in DOMAIN Stem :
          CopiesIn(w, suggestDf) = Cardinality({i \in DOMAIN docs : w \in Surfaces(docs[i])})
    /\ ~dirty => suggestSorted = DOMAIN suggestDf

\* What a reader of the documents says a query finds.
Sections(doc) == {doc.title, doc.body} \union Range(doc.tags)
Has(doc, words) == \E s \in Sections(doc) : \E w \in Range(s) : w \notin Stop /\ Stem[w] \in words
Says(doc, phrase) ==
    \E s \in Sections(doc) : \E k \in 0 .. Len(s) - 1 : \A i \in DOMAIN phrase :
        phrase[i] \in Stop
        \/ (k + i \in DOMAIN s /\ s[k + i] \notin Stop /\ Stem[s[k + i]] = Stem[phrase[i]])
Known(t) == \E i \in DOMAIN docs : Has(docs[i], {t})

\* search_platform.py, _execute and _has_phrase: a query finds the documents that
\* have every required word and its phrase inside one title, body or tag, none
\* of the excluded words, and, when nothing is required, some wanted word.
SearchExact ==
    \A q \in Query : execute(q) =
        {i \in DOMAIN docs :
            /\ \A w \in q.must \ Stop : Has(docs[i], {Stem[w]})
            /\ q.phrase # <<>> => Says(docs[i], q.phrase)
            /\ ~Has(docs[i], TermsOf(q.must_not))
            /\ (q.must \subseteq Stop /\ q.phrase = <<>>) =>
                  \E w \in q.should \ Stop : \/ Has(docs[i], {Stem[w]})
                                             \/ ~Known(Stem[w]) /\ Has(docs[i], Near[Stem[w]])}
=============================================================================
