------------------------------- MODULE Search -------------------------------
(***************************************************************************)
(* A reader of a finished index: Index::new opens the dictionary and the   *)
(* templates, Searcher::search_and_retrieve reads column files template by *)
(* template (src/search.rs, src/index.rs, src/columns/read.rs, src/dict.rs)*)
(* It changes nothing, so it is a set of operators over the files on disk. *)
(* Documents are sequences of token texts, a query is the text of a token. *)
(***************************************************************************)
EXTENDS IndexWriter

CONSTANT MaxHits   (* Hits wanted from one template: 10 in the code.       *)

ASSUME MaxHitsAssumption == MaxHits \in Nat \ {0}

(* The template ids of the dictionary's entry d, out of its block.         *)
TemplateIdsAt(d) ==
  LET block == Load(disk.values[(d - 1) \div TermsInBlock + 1])
  IN  Range(block.vals[((d - 1) % TermsInBlock) + 1])

(* Dict::search_single_term: the term's ordinal and its templates.         *)
NotFound == [term_id |-> -1, template_ids |-> {}]

(* Mutant of SearchSingleTerm: the ordinal is off by one.                  *)
SearchSingleTermFromOne(term) ==
  IF \E d \in DOMAIN disk.dictionary : disk.dictionary[d].term = term
  THEN LET d == CHOOSE d \in DOMAIN disk.dictionary :
                  disk.dictionary[d].term = term
       IN  [term_id      |-> d,
            template_ids |-> TemplateIdsAt(d)]
  ELSE NotFound

SearchSingleTerm(term) ==
  IF \E d \in DOMAIN disk.dictionary : disk.dictionary[d].term = term
  THEN LET d == CHOOSE d \in DOMAIN disk.dictionary :
                  disk.dictionary[d].term = term
       IN  [term_id      |-> d - 1,
            template_ids |-> TemplateIdsAt(d)]
  ELSE NotFound

(* Dict::get_term_for_ord.                                                 *)
GetTermForOrd(term_ord) == disk.dictionary[term_ord + 1].term

IsVariablePart(part) == part.kind = "Variable"

(* Template::check_match: a constant that matches decides.                 *)
CheckMatch(parts, term) ==
  IF \E i \in DOMAIN parts : ~IsVariablePart(parts[i]) /\ parts[i].text = term
  THEN "Full"
  ELSE IF \E i \in DOMAIN parts : IsVariablePart(parts[i])
       THEN "VariableMayMatch"
       ELSE "NoMatch"

(* decompress_column: a file cut into pieces of num_docs cells; a piece    *)
(* that is not full is dropped.                                            *)
DecompressColumn(cells, num_docs) ==
  IF num_docs = 0 THEN << >>
  ELSE [c \in 1 .. Len(cells) \div num_docs |->
          SubSeq(cells, (c - 1) * num_docs + 1, c * num_docs)]

(* Columns::get_doc_ids: the rows that match, column after column.  The    *)
(* predicate is given by the set of the cells it holds for.                *)
GetDocIds(columns, matching) ==
  LET In(column) == Ascending({r \in 1 .. Len(column) : column[r] \in matching})
  IN  FlattenSeq([c \in 1 .. Len(columns) |-> In(columns[c])])

(* Columns::get_term_ids.                                                  *)
GetTermIds(columns, doc) == [c \in 1 .. Len(columns) |-> columns[c][doc]]

(* IndexInner::search_in_zstd_column: the hits, as rows of the template.   *)
ColumnsOf(k) == DecompressColumn(disk.columns[k], disk.templates[k].num_docs)

SearchInColumn(k, matching) ==
  LET hits == GetDocIds(ColumnsOf(k), matching)
  IN  SubSeq(hits, 1, IF Len(hits) < MaxHits THEN Len(hits) ELSE MaxHits)

(* Searcher::get_doc_from_templates, what it finds in template k.          *)
HitRows(query, k) ==
  LET match == CheckMatch(disk.templates[k].parts, query)
      found == SearchSingleTerm(query)
  IN  IF match = "Full" THEN SearchInColumn(k, Nat)
      ELSE IF match = "VariableMayMatch" /\ k - 1 \in found.template_ids
           THEN SearchInColumn(k, {found.term_id})
           ELSE << >>

(* Template::reconstruct.                                                  *)
Reconstruct(parts, term_ids) ==
  [i \in 1 .. Len(parts) |->
     IF IsVariablePart(parts[i])
     THEN GetTermForOrd(term_ids[Cardinality(
            {j \in 1 .. i : IsVariablePart(parts[j])})])
     ELSE parts[i].text]

(* IndexInner::retrieve_doc of one row.                                    *)
Retrieve(k, r) ==
  Reconstruct(disk.templates[k].parts, GetTermIds(ColumnsOf(k), r))

-----------------------------------------------------------------------------

Finished == stage = "done"

Rows == UNION {{<<k, r>> : r \in 1 .. disk.templates[k].num_docs}
                 : k \in DOMAIN disk.templates}

RowsWithTerm(query, k) ==
  {r \in 1 .. disk.templates[k].num_docs : Contains(Retrieve(k, r), query)}

HasVariable(k) ==
  \E i \in DOMAIN disk.templates[k].parts :
    IsVariablePart(disk.templates[k].parts[i])

(***************************************************************************)
(* The files give back the input: the documents that reconstruct() makes   *)
(* of all rows of all templates are the lines that were indexed, as often  *)
(* as they were, up to the cap on the length of a term.  Templates, column *)
(* files and dictionary are written by separate passes and only meet here. *)
(***************************************************************************)
FilesHoldInput ==
  Finished =>
    LET text == [row \in Rows |-> CapLine(Retrieve(row[1], row[2]))]
    IN  /\ Cardinality(Rows) = Len(lines)
        /\ \A doc \in {CapLine(line) : line \in Lines} :
             Cardinality({row \in Rows : text[row] = doc})
               = Cardinality({n \in DOMAIN lines : CapLine(lines[n]) = doc})

(***************************************************************************)
(* A document that a search returns contains the term searched for, also   *)
(* where check_match decides on a constant and takes every row.            *)
(***************************************************************************)
SearchSound ==
  Finished =>
    \A query \in Texts : \A k \in DOMAIN disk.templates :
      \A n \in DOMAIN HitRows(query, k) :
        Contains(Retrieve(k, HitRows(query, k)[n]), query)

(***************************************************************************)
(* In a template with a variable, a search misses no document that         *)
(* contains the term unless it stopped at MaxHits.                         *)
(***************************************************************************)
SearchComplete ==
  Finished =>
    \A query \in Texts : \A k \in DOMAIN disk.templates :
      (HasVariable(k) /\ Len(HitRows(query, k)) < MaxHits) =>
        RowsWithTerm(query, k) \subseteq Range(HitRows(query, k))

-----------------------------------------------------------------------------
(* What the documentation says and the code does not do.                   *)

(***************************************************************************)
(* search.rs: "Search for a term and retrieve the documents that match the *)
(* term."  A template without variables has no cells, so that a search     *)
(* finds none of its documents.                                            *)
(***************************************************************************)
SearchFinds ==
  Finished =>
    \A query \in Texts : \A k \in DOMAIN disk.templates :
      RowsWithTerm(query, k) # {} => HitRows(query, k) # << >>

(***************************************************************************)
(* columns/read.rs: "an iterator over the document IDs that match a given  *)
(* predicate."  A document comes once for each column that matches.        *)
(***************************************************************************)
HitsDistinct ==
  Finished =>
    \A query \in Texts : \A k \in DOMAIN disk.templates :
      IsInjective(HitRows(query, k))
=============================================================================
