---------------------------- MODULE IndexWriter ----------------------------
(***************************************************************************)
(* The rest of IndexWriter::index (src/indexing/index_writer.rs): template *)
(* ids are assigned, the dictionary, the templates and one column file per *)
(* template are written.  Three passes over the hash map of groups have to *)
(* agree on its order; `order` is that order, any one within a bucket.     *)
(***************************************************************************)
EXTENDS Patterns, ValueBlock

CONSTANTS
  Rank,         (* Rank[t]: the place of the text t in byte order.         *)
  TermsInBlock  (* How many terms the SSTable puts in a block.             *)

ASSUME RankAssumption ==
  /\ TermsInBlock \in Nat \ {0}
  /\ Rank \in [Texts -> Nat]
  /\ \A s, t \in Texts : Rank[s] = Rank[t] => s = t

VARIABLES
  stage,           (* Where the writer is.                                 *)
  order,           (* The groups in iteration order: the one at k has the  *)
                   (* template id k - 1.                                   *)
  term_templates,  (* term_id_idx: the templates of every term id.         *)
  left,            (* sorted_terms: the terms still to be written.         *)
  new_id,
  old_to_new,      (* old_to_new_id_map.                                   *)
  written,         (* Column files written so far.                         *)
  disk             (* The files: dictionary, the blocks with its values,   *)
                   (* templates, columns.                                  *)

writerVars == <<stage, order, term_templates, left, new_id, old_to_new,
                written, disk>>
allVars == <<vars, writerVars>>

Template(k) == groups[order[k]]

(* iter_columns: the columns in the order of the template's tokens.        *)
VariableAt(group, n) ==
  CHOOSE i \in 1 .. Len(group.tokens) :
    /\ IsVariable(group.tokens[i])
    /\ Cardinality({j \in 1 .. i : IsVariable(group.tokens[j])}) = n

NumVariables(group) ==
  Cardinality({i \in 1 .. Len(group.tokens) : IsVariable(group.tokens[i])})

(* Mutant of IterColumns: the columns in the order they were created.      *)
ColumnsAsStored(group) == group.columns

IterColumns(group) ==
  [n \in 1 .. NumVariables(group) |->
     group.columns[group.tokens[VariableAt(group, n)].column_index]]

-----------------------------------------------------------------------------

WriterInit ==
  /\ Init
  /\ stage = "idle"
  /\ order = << >>
  /\ term_templates = << >>
  /\ left = {}
  /\ new_id = 0
  /\ old_to_new = << >>
  /\ written = 0
  /\ disk = [dictionary |-> << >>, values |-> << >>, templates |-> << >>, columns |-> << >>]

(* assign_template_ids: bucket by bucket, in any order within one.         *)
AssignTemplateIds(ids) ==
  /\ stage = "idle"
  /\ phase = "merged"
  /\ \A j, k \in DOMAIN ids : j < k => ids[j].num_tokens <= ids[k].num_tokens
  /\ order' = ids
  /\ stage' = "index terms"
  /\ UNCHANGED <<vars, term_templates, left, new_id, old_to_new, written, disk>>

(* The templates with a row that holds the term id.                       *)
Holds(k, id) ==
  \E n \in DOMAIN IterColumns(Template(k)) :
    id \in Range(IterColumns(Template(k))[n])

TemplatesWith(id) == {k - 1 : k \in {k \in DOMAIN order : Holds(k, id)}}

(* term_id_idx_to_template_ids, then the start of                          *)
(* write_dictionary_and_generate_mapping.                                  *)
TermIdIdx ==
  /\ stage = "index terms"
  /\ term_templates' =
       [id \in 0 .. term_map.next_term_id - 1 |-> TemplatesWith(id)]
  /\ left' = {e \in [text : Texts, id : 0 .. term_map.next_term_id - 1] :
                Stored(term_map, e.id, e.text)}
  /\ old_to_new' = [id \in 0 .. term_map.next_term_id |-> 0]
  /\ stage' = "dictionary"
  /\ UNCHANGED <<vars, order, new_id, written, disk>>

(* The inner loop: the old ids of one term, from the hash map and from the *)
(* buffer.  (Mutant: an entry at a time.)                                  *)
OneOldId(text) ==
  LET ids == {e.id : e \in {e \in left : e.text = text}}
  IN  IF ids = {} THEN {} ELSE {CHOOSE id \in ids : TRUE}

OldIds(text) == {e.id : e \in {e \in left : e.text = text}}

(* Their templates.  (Mutant: template_ids is not cleared in between.)     *)
TemplatesSoFar(ids) ==
  UNION {term_templates[id] : id \in ids}
    \cup UNION {d.template_ids : d \in Range(disk.dictionary)}

TemplatesOf(ids) == UNION {term_templates[id] : id \in ids}

(* A skipped term leaves its new id to the next.  (Mutant: it does not.)   *)
NewIdUsed(templates) == new_id + 1

NewIdAfter(templates) == IF templates = {} THEN new_id ELSE new_id + 1

(* What the iterator still has.  (Mutant: a skipped term is met again.)    *)
LeftUnlessSkipped(ids) ==
  IF TemplatesOf(ids) = {} THEN left ELSE {e \in left : e.id \notin ids}

LeftAfter(ids) == {e \in left : e.id \notin ids}

(* The outer loop of write_dictionary_and_generate_mapping: all entries of *)
(* the least term left share the new id.  A term of no template is skipped *)
(* and the next one takes its new id.                                      *)
WriteTerm(text) ==
  LET ids       == OldIds(text)
      templates == TemplatesOf(ids)
  IN  /\ stage = "dictionary"
      /\ ids # {}
      /\ \A e \in left : Rank[text] <= Rank[e.text]
      /\ left' = LeftAfter(ids)
      /\ old_to_new' = [id \in DOMAIN old_to_new |->
                          IF id \in ids THEN new_id ELSE old_to_new[id]]
      /\ new_id' = NewIdAfter(templates)
      /\ disk' = IF templates = {} THEN disk
                 ELSE [disk EXCEPT !.dictionary =
                         Append(@, [term |-> text, template_ids |-> templates])]
      /\ UNCHANGED <<vars, stage, order, term_templates, written>>

(* sort_unstable: the elements of a set, in ascending order.               *)
Ascending(S) ==
  [n \in 1 .. Cardinality(S) |->
     CHOOSE x \in S : Cardinality({y \in S : y <= x}) = n]

(* The blocks the values were serialized to on the way: those of          *)
(* TermsInBlock terms each, of what is left in the last one.               *)
ValueBlocks(entries) ==
  LET Value(d) == Ascending(entries[d].template_ids)
      Ends(b)  == IF b * TermsInBlock < Len(entries) THEN b * TermsInBlock
                                                     ELSE Len(entries)
      First(b) == (b - 1) * TermsInBlock
  IN  [b \in 1 .. (Len(entries) + TermsInBlock - 1) \div TermsInBlock |->
         SerializeBlock([i \in 1 .. Ends(b) - First(b) |-> Value(First(b) + i)])]

(* builder.finish().                                                       *)
EndDictionary ==
  /\ stage = "dictionary"
  /\ left = {}
  /\ disk' = [disk EXCEPT !.values = ValueBlocks(disk.dictionary)]
  /\ stage' = "templates"
  /\ UNCHANGED <<vars, order, term_templates, left, new_id, old_to_new, written>>

(* Template::from, TemplateToken::from: types and columns are not written. *)
Part(token) ==
  IF IsConstant(token) THEN [kind |-> "Constant", text |-> token.text]
                       ELSE [kind |-> "Variable"]

WriteTemplates ==
  /\ stage = "templates"
  /\ disk' = [disk EXCEPT !.templates =
       [k \in 1 .. Len(order) |->
          [template_id |-> k - 1,
           num_docs    |-> Template(k).num_docs,
           parts       |-> [i \in 1 .. Len(Template(k).tokens) |->
                              Part(Template(k).tokens[i])]]]]
  /\ stage' = "columns"
  /\ UNCHANGED <<vars, order, term_templates, left, new_id, old_to_new, written>>

(* write_column_and_remap: the columns one after the other in one file.    *)
ColumnFile(group) ==
  LET cells == FlattenSeq(IterColumns(group))
  IN  [n \in 1 .. Len(cells) |-> old_to_new[cells[n]]]

WriteColumn ==
  /\ stage = "columns"
  /\ written < Len(order)
  /\ written' = written + 1
  /\ disk' = [disk EXCEPT !.columns = Append(@, ColumnFile(Template(written')))]
  /\ UNCHANGED <<vars, stage, order, term_templates, left, new_id, old_to_new>>

EndColumns ==
  /\ stage = "columns"
  /\ written = Len(order)
  /\ stage' = "done"
  /\ UNCHANGED <<vars, order, term_templates, left, new_id, old_to_new,
                 written, disk>>

Done == stage = "done" /\ UNCHANGED allVars

Write ==
  \/ \E ids \in SetToSeqs(DOMAIN groups) : AssignTemplateIds(ids)
  \/ TermIdIdx
  \/ \E text \in Texts : WriteTerm(text)
  \/ EndDictionary
  \/ WriteTemplates
  \/ WriteColumn
  \/ EndColumns

(* The steps of Patterns that change something.                            *)
Reorganise ==
  /\ \/ Ingest
     \/ \E split \in BOOLEAN : EndOfInput(split)
     \/ Split
     \/ Merge
  /\ UNCHANGED writerVars

WriterNext == Reorganise \/ Write \/ Done

WriterSpec == WriterInit /\ [][WriterNext]_allVars /\ WF_allVars(WriterNext)

-----------------------------------------------------------------------------

(***************************************************************************)
(* The dictionary is what an SSTable has to be: its terms strictly         *)
(* ascending, so that a term of the hash map and of the id-like buffer is  *)
(* inserted once, and the ordinal the reader gets for a term is the new id *)
(* that the columns hold.                                                  *)
(***************************************************************************)
DictionarySorted ==
  \A m, n \in DOMAIN disk.dictionary :
    m < n => Rank[disk.dictionary[m].term] < Rank[disk.dictionary[n].term]

(***************************************************************************)
(* Every cell of every column file names, by ordinal, the very term its    *)
(* term id stood for, and that term's entry lists the template: a skipped  *)
(* term must not give its new id away to a cell, duplicates must agree.    *)
(***************************************************************************)
CellsNameTheirTerms ==
  \A k \in 1 .. written :
    LET cells == FlattenSeq(IterColumns(Template(k)))
    IN  \A n \in 1 .. Len(cells) :
          LET ordinal == disk.columns[k][n]
              entry   == disk.dictionary[ordinal + 1]
          IN  /\ ordinal < Len(disk.dictionary)
              /\ Stored(term_map, cells[n], entry.term)
              /\ k - 1 \in entry.template_ids

(***************************************************************************)
(* No template is listed for a term that none of its rows holds: a reader  *)
(* that is sent to a template's column file finds the term there.          *)
(***************************************************************************)
EntriesHaveRows ==
  stage = "done" =>
    \A d \in DOMAIN disk.dictionary :
      \A t \in disk.dictionary[d].template_ids :
        d - 1 \in Range(disk.columns[t + 1])

(***************************************************************************)
(* index() returns.  Every loop of the split, the merge and the writer     *)
(* ends, and none of its lookups fails: no unwrap() of a group that        *)
(* another step removed or replaced, no term id that find_term_for_term_id *)
(* cannot find (a step that panics has no successor here).                 *)
(***************************************************************************)
IndexReturns == <>(stage = "done")
=============================================================================
