------------------------------ MODULE Patterns ------------------------------
(***************************************************************************)
(* What IndexWriter::index does to the groups after the first pass and     *)
(* before anything is written (src/indexing/patterns.rs): split_templates, *)
(* if the environment asks for it, moves the rows of frequent terms to     *)
(* groups of their own, merge_templates joins small groups of one shape.   *)
(* The loops are cut into steps.  Iteration over a hash map is any order.  *)
(***************************************************************************)
EXTENDS PreliminaryIndex, SequencesExt

CONSTANTS
  SplitThreshold,       (* SPLIT_TEMPLATE_THRESHOLD, 400000 by default.    *)
  MergeMinDocs,         (* Groups with fewer documents give up their       *)
                        (* constants in a merge: 1000 in the code.         *)
  FingerprintTypes(_)   (* The hash of a sequence of token types that      *)
                        (* insert_duplicate uses.                          *)

ASSUME PatternsAssumption ==
  /\ SplitThreshold \in Nat
  /\ MergeMinDocs \in Nat
  /\ \A line \in Lines : \A types \in [1 .. Len(line) -> Types] :
       FingerprintTypes(types) \in Nat

VARIABLES
  phase,    (* Where IndexWriter::index is.                                *)
  todo,     (* The groups that split_templates has not looked at yet.      *)
  work,     (* The groups at work: the one being split or the class being  *)
            (* merged, with the cursors of the loops over it.              *)
  aside,    (* Groups out of the map, on their way into insert_new_group,  *)
            (* with their rows' origin: new_groups, first_group.           *)
  salt,     (* next_group_salt of each bucket.                             *)
  classes   (* token_group_to_group_id, what is left of it to merge.       *)

patternVars == <<phase, todo, work, aside, salt, classes>>
vars == <<ingestVars, patternVars>>

Buckets == {Len(line) : line \in Lines}

Idle == [ids |-> << >>, key |-> << >>, token |-> 1, member |-> 1]

-----------------------------------------------------------------------------
(* Helpers of split_templates.                                             *)

RowsWith(column, id) == {r \in 1 .. Len(column) : column[r] = id}

(* remove_rows: the rows of a sequence that are in keep, in their order.   *)
RetainRows(seq, keep) ==
  [n \in 1 .. Cardinality(keep) |->
     seq[CHOOSE r \in keep : Cardinality({s \in keep : s <= r}) = n]]

(* Mutant of RemoveRows: num_docs is not updated.                          *)
RemoveRowsOfColumnsOnly(group, keep) ==
  [group EXCEPT !.columns = [c \in DOMAIN @ |-> RetainRows(@[c], keep)]]

RemoveRows(group, keep) ==
  [group EXCEPT
     !.columns  = [c \in DOMAIN @ |-> RetainRows(@[c], keep)],
     !.num_docs = Cardinality(keep)]

(* find_term_for_term_id: the hash map is scanned before the buffer.       *)
FindsTerm(tm, id, text) ==
  \/ InMap(tm, id, text)
  \/ InBuffer(tm, id, text) /\ \A t \in Texts : ~InMap(tm, id, t)

(* The token of a new group when column c becomes the constant text: the   *)
(* columns right of c move up.  (Mutant: so do those left of it.)          *)
MoveAll(token, c, text) ==
  CASE IsConstant(token)       -> token
    [] IsVariable(token)
       /\ token.column_index = c -> NewConstant(token.token_type, text)
    [] OTHER                   -> [token EXCEPT !.column_index = @ - 1]

FixToken(token, c, text) ==
  CASE IsVariable(token)
       /\ token.column_index = c -> NewConstant(token.token_type, text)
    [] IsVariable(token)
       /\ token.column_index > c -> [token EXCEPT !.column_index = @ - 1]
    [] OTHER                   -> token

(* The new group of move_term_id_to_new_group, its rows chosen.            *)
FixColumn(group, c, text) ==
  [group EXCEPT !.tokens  = [i \in DOMAIN @ |-> FixToken(@[i], c, text)],
                !.columns = RemoveAt(@, c)]

-----------------------------------------------------------------------------
(* Helpers of merge_templates.                                             *)

(* The key of a group: groups with equal keys are merged.                  *)
MergeableToken(token, num_docs) ==
  IF IsConstant(token) /\ num_docs >= MergeMinDocs
  THEN [kind |-> "Constant", text |-> token.text]
  ELSE [kind |-> "Variable"]

MergeKey(group) ==
  [i \in 1 .. Len(group.tokens) |->
     MergeableToken(group.tokens[i], group.num_docs)]

(* convert_to_variable.                                                    *)
ConvertToVariable(group, tm, i) ==
  IF IsVariable(group.tokens[i]) THEN group
  ELSE LET id == TermIdOf(tm, group.tokens[i].text, FALSE)
       IN  [group EXCEPT
              !.columns   = Append(@, [r \in 1 .. group.num_docs |-> id]),
              !.tokens[i] = NewVariable(@.token_type, Len(group.columns) + 1)]

TermMapAfterConvert(group, tm, i) ==
  IF IsVariable(group.tokens[i]) THEN tm
  ELSE MutateOrCreate(tm, group.tokens[i].text, FALSE)

(* DocGroup::append: the columns of variable tokens are matched by the     *)
(* tokens' position, their column indexes may differ.                      *)
AppendGroup(group, other) ==
  LET Paired(i, c) == /\ IsVariable(group.tokens[i])
                      /\ IsVariable(other.tokens[i])
                      /\ group.tokens[i].column_index = c
      Positions    == 1 .. Len(group.tokens) \cap 1 .. Len(other.tokens)
  IN  [group EXCEPT
         !.num_docs = @ + other.num_docs,
         !.columns  = [c \in DOMAIN @ |->
           IF \E i \in Positions : Paired(i, c)
           THEN LET i == CHOOSE i \in Positions : Paired(i, c)
                IN  @[c] \o other.columns[other.tokens[i].column_index]
           ELSE @[c]]]

-----------------------------------------------------------------------------

Init ==
  /\ IngestInit
  /\ phase = "ingest"
  /\ todo = {}
  /\ work = Idle
  /\ aside = << >>
  /\ salt = [n \in Buckets |-> 0]
  /\ classes = {}

Ingest == phase = "ingest" /\ IngestNext /\ UNCHANGED patternVars

(* The iterator over the lines ends; ST is set or it is not.               *)
EndOfInput(split) ==
  /\ phase = "ingest"
  /\ pos = 0
  /\ phase' = IF split THEN "split" ELSE "classify"
  /\ todo' = IF split THEN DOMAIN groups ELSE {}
  /\ UNCHANGED <<ingestVars, work, aside, salt, classes>>

TokenTypes(group) ==
  [i \in DOMAIN group.tokens |-> group.tokens[i].token_type]

(* insert_duplicate: a group's fingerprint, salted.  (Mutant: it is not.)  *)
Unsalted(group, next_salt) ==
  [num_tokens |-> Len(group.tokens), id |-> FingerprintTypes(TokenTypes(group))]

DuplicateId(group, next_salt) ==
  [num_tokens |-> Len(group.tokens),
   id         |-> next_salt + FingerprintTypes(TokenTypes(group))]

(* insert_new_group of the first group set aside.                          *)
InsertNewGroup ==
  LET new    == Head(aside)
      bucket == Len(new.group.tokens)
      id     == DuplicateId(new.group, salt[bucket] + 1)
  IN  /\ aside # << >>
      /\ salt' = [salt EXCEPT ![bucket] = @ + 1]
      /\ groups' = Put(groups, id, new.group)
      /\ origin' = Put(origin, id, new.rows)
      /\ aside' = Tail(aside)
      /\ UNCHANGED <<term_map, lines, pos>>

-----------------------------------------------------------------------------
(* split_templates.                                                        *)

(* The next group: bucket by bucket, in any order within one.              *)
SplitGroup(g) ==
  /\ phase = "split"
  /\ work = Idle
  /\ g \in todo
  /\ \A h \in todo : g.num_tokens <= h.num_tokens
  /\ work' = [Idle EXCEPT !.ids = <<g>>]
  /\ todo' = todo \ {g}
  /\ UNCHANGED <<ingestVars, phase, aside, salt, classes>>

Splitting == phase = "split" /\ work # Idle

SplitId == work.ids[1]
SplitToken == groups[SplitId].tokens[work.token]

Frequent(id) ==
  /\ IsVariable(SplitToken)
  /\ Cardinality(RowsWith(groups[SplitId].columns[SplitToken.column_index], id))
       > SplitThreshold

(* move_term_id_to_new_group.                                              *)
MoveTerm(id, text) ==
  /\ Splitting
  /\ work.token <= Len(groups[SplitId].tokens)
  /\ Frequent(id)
  /\ FindsTerm(term_map, id, text)
  /\ LET group == groups[SplitId]
         c     == SplitToken.column_index
         moved == RowsWith(group.columns[c], id)
         kept  == 1 .. group.num_docs \ moved
     IN  /\ aside' = Append(aside,
               [group |-> FixColumn(RemoveRows(group, moved), c, text),
                rows  |-> RetainRows(origin[SplitId], moved)])
         /\ groups' = [groups EXCEPT ![SplitId] = RemoveRows(group, kept)]
         /\ origin' = [origin EXCEPT ![SplitId] = RetainRows(@, kept)]
  /\ UNCHANGED <<term_map, lines, pos, phase, todo, work, salt, classes>>

(* No term of the token is frequent (any more): the next token.            *)
SplitNextToken ==
  /\ Splitting
  /\ work.token <= Len(groups[SplitId].tokens)
  /\ \A id \in 0 .. term_map.next_term_id - 1 : ~Frequent(id)
  /\ work' = [work EXCEPT !.token = @ + 1]
  /\ UNCHANGED <<ingestVars, phase, todo, aside, salt, classes>>

SplitGroupDone ==
  /\ Splitting
  /\ work.token > Len(groups[SplitId].tokens)
  /\ work' = Idle
  /\ UNCHANGED <<ingestVars, phase, todo, aside, salt, classes>>

(* Only after the last group do the new ones enter the map.                *)
InsertSplitGroup ==
  /\ phase = "split"
  /\ work = Idle
  /\ todo = {}
  /\ InsertNewGroup
  /\ UNCHANGED <<phase, todo, work, classes>>

EndSplit ==
  /\ phase = "split"
  /\ work = Idle
  /\ todo = {}
  /\ aside = << >>
  /\ phase' = "classify"
  /\ UNCHANGED <<ingestVars, todo, work, aside, salt, classes>>

-----------------------------------------------------------------------------
(* merge_templates.                                                        *)

(* A class of one group is left alone.  (Mutant: so is one of two.)        *)
MoreThanTwo(class) == Cardinality(class.ids) > 2

WorthMerging(class) == Cardinality(class.ids) >= 2

(* The classes are built once, before any group changes.                   *)
Classify ==
  /\ phase = "classify"
  /\ phase' = "merge"
  /\ classes' = {class \in {[key |-> MergeKey(groups[g]),
                             ids |-> {h \in DOMAIN groups :
                                        MergeKey(groups[h]) = MergeKey(groups[g])}]
                              : g \in DOMAIN groups} :
                   WorthMerging(class)}
  /\ UNCHANGED <<ingestVars, todo, work, aside, salt>>

StartMerge(class, ids) ==
  /\ phase = "merge"
  /\ work = Idle
  /\ work' = [Idle EXCEPT !.ids = ids, !.key = class.key]
  /\ classes' = classes \ {class}
  /\ UNCHANGED <<ingestVars, phase, todo, aside, salt>>

Merging == phase = "merge" /\ work # Idle

Converting == Merging /\ work.token <= Len(work.key)

ConvertMember ==
  LET g == work.ids[work.member]
  IN  /\ Converting
      /\ work.key[work.token].kind = "Variable"
      /\ work.member <= Len(work.ids)
      /\ groups' = [groups EXCEPT ![g] =
                      ConvertToVariable(@, term_map, work.token)]
      /\ term_map' = TermMapAfterConvert(groups[g], term_map, work.token)
      /\ work' = [work EXCEPT !.member = @ + 1]
      /\ UNCHANGED <<lines, origin, pos, phase, todo, aside, salt, classes>>

ConvertNextToken ==
  /\ Converting
  /\ work.key[work.token].kind = "Constant" \/ work.member > Len(work.ids)
  /\ work' = [work EXCEPT !.token = @ + 1, !.member = 1]
  /\ UNCHANGED <<ingestVars, phase, todo, aside, salt, classes>>

Appending == Merging /\ work.token > Len(work.key)

(* The first member leaves the map ...                                     *)
TakeFirst ==
  LET g == work.ids[1]
  IN  /\ Appending
      /\ aside = << >>
      /\ aside' = <<[group |-> groups[g], rows |-> origin[g]]>>
      /\ groups' = [h \in DOMAIN groups \ {g} |-> groups[h]]
      /\ origin' = [h \in DOMAIN groups \ {g} |-> origin[h]]
      /\ work' = [work EXCEPT !.member = 2]
      /\ UNCHANGED <<term_map, lines, pos, phase, todo, salt, classes>>

(* ... the others are appended to it and removed ...  (Mutant: they are    *)
(* read where they are and stay in the map.)                               *)
AppendCopyOfMember ==
  LET g == work.ids[work.member]
  IN  /\ Appending
      /\ aside # << >>
      /\ work.member <= Len(work.ids)
      /\ aside' = <<[group |-> AppendGroup(aside[1].group, groups[g]),
                     rows  |-> aside[1].rows \o origin[g]]>>
      /\ work' = [work EXCEPT !.member = @ + 1]
      /\ UNCHANGED <<ingestVars, phase, todo, salt, classes>>

AppendMember ==
  LET g == work.ids[work.member]
  IN  /\ Appending
      /\ aside # << >>
      /\ work.member <= Len(work.ids)
      /\ aside' = <<[group |-> AppendGroup(aside[1].group, groups[g]),
                     rows  |-> aside[1].rows \o origin[g]]>>
      /\ groups' = [h \in DOMAIN groups \ {g} |-> groups[h]]
      /\ origin' = [h \in DOMAIN groups \ {g} |-> origin[h]]
      /\ work' = [work EXCEPT !.member = @ + 1]
      /\ UNCHANGED <<term_map, lines, pos, phase, todo, salt, classes>>

(* ... and the merged group goes back under a new id.                      *)
InsertMerged ==
  /\ Appending
  /\ work.member > Len(work.ids)
  /\ InsertNewGroup
  /\ work' = Idle
  /\ UNCHANGED <<phase, todo, classes>>

EndMerge ==
  /\ phase = "merge"
  /\ work = Idle
  /\ classes = {}
  /\ phase' = "merged"
  /\ UNCHANGED <<ingestVars, todo, work, aside, salt, classes>>

(* The groups stay as they are from here on.                               *)
Merged == phase = "merged" /\ UNCHANGED vars

-----------------------------------------------------------------------------

Split ==
  \/ \E g \in todo : SplitGroup(g)
  \/ \E id \in 0 .. term_map.next_term_id - 1, text \in Texts : MoveTerm(id, text)
  \/ SplitNextToken
  \/ SplitGroupDone
  \/ InsertSplitGroup
  \/ EndSplit

Merge ==
  \/ Classify
  \/ \E class \in classes : \E ids \in SetToSeqs(class.ids) : StartMerge(class, ids)
  \/ ConvertMember
  \/ ConvertNextToken
  \/ TakeFirst
  \/ AppendMember
  \/ InsertMerged
  \/ EndMerge

Next ==
  \/ Ingest
  \/ \E split \in BOOLEAN : EndOfInput(split)
  \/ Split
  \/ Merge
  \/ Merged

(* One thread runs index() to its end.                                     *)
Spec == Init /\ [][Next]_vars /\ WF_vars(Next)

-----------------------------------------------------------------------------

(***************************************************************************)
(* Every group there is, in the map or aside, with its rows' origin.       *)
(***************************************************************************)
Holders == {<<"map", g>> : g \in DOMAIN groups}
           \cup {<<"aside", n>> : n \in DOMAIN aside}

Held(h) == IF h[1] = "map" THEN groups[h[2]] ELSE aside[h[2]].group
HeldRows(h) == IF h[1] = "map" THEN origin[h[2]] ELSE aside[h[2]].rows

(* The documents that can be read back, up to the cap.                     *)
CellText(group, i, r) ==
  IF IsConstant(group.tokens[i]) THEN Capped[group.tokens[i].text]
  ELSE Capped[CHOOSE text \in Texts :
         Stored(term_map, group.columns[group.tokens[i].column_index][r], text)]

DocText(group, r) ==
  [i \in 1 .. Len(group.tokens) |-> CellText(group, i, r)]

Readable ==
  LET rows == UNION {{<<h, r>> : r \in 1 .. Held(h).num_docs} : h \in Holders}
      text == [row \in rows |-> DocText(Held(row[1]), row[2])]
  IN  [doc \in {text[row] : row \in rows} |->
         Cardinality({row \in rows : text[row] = doc})]

CapLine(line) == [i \in 1 .. Len(line) |-> Capped[line[i]]]

(* The documents handed over and stored: all lines but one being pushed.   *)
Logged == [n \in 1 .. NumPushed |-> CapLine(lines[n])]

InputOpen == phase = "ingest"

Store == INSTANCE LogStore WITH
           Documents <- {CapLine(line) : line \in Lines},
           log       <- Logged,
           docs      <- Readable,
           open      <- InputOpen

PatternsTypeOK ==
  /\ IngestTypeOK
  /\ phase \in {"ingest", "split", "classify", "merge", "merged"}
  /\ todo \subseteq DOMAIN groups
  /\ work.ids \in Seq(GroupIds)
  /\ work.token \in Nat \ {0}
  /\ work.member \in Nat \ {0}
  /\ \A n \in DOMAIN aside : /\ aside[n].group \in Groups
                             /\ aside[n].rows \in Seq(Nat)
  /\ salt \in [Buckets -> Nat]
  /\ \A class \in classes : class.ids \subseteq DOMAIN groups

(***************************************************************************)
(* The indexer implements the bag of documents: the step of the first pass *)
(* that ends the push of a line adds that line, once, the others change    *)
(* nothing that can be read, and no step of split_templates or             *)
(* merge_templates adds, loses, repeats or alters a document (remove_rows, *)
(* columns.remove and the shift of column indexes, append by token         *)
(* position, rows converted under one term id).                            *)
(***************************************************************************)
ImplementsLogStore == Store!Spec

(***************************************************************************)
(* insert_duplicate never puts a group under an id that is in use, which   *)
(* would drop the group that has it: not that of a group it was split from *)
(* or merged from, nor that of one inserted a moment ago.                  *)
(***************************************************************************)
Inserting ==
  /\ aside # << >>
  /\ \/ phase = "split" /\ work = Idle /\ todo = {}
     \/ Appending /\ work.member > Len(work.ids)

NewIdsFresh ==
  Inserting =>
    LET group == Head(aside).group
    IN  DuplicateId(group, salt[Len(group.tokens)] + 1) \notin DOMAIN groups

(***************************************************************************)
(* What it asks of the two hashes in a state, and of the types that occur  *)
(* there only: no two salts lead from the types of two groups of a bucket  *)
(* to the same id, and no salt from those of a group to the id that a line *)
(* of the input has.  It speaks of as many salts as a bucket can come to,  *)
(* three for a line.  The hashes of two sequences may well be equal.       *)
(***************************************************************************)
MaxSalt == 3 * Len(lines)

SaltsApart(types, others) ==
  \A s, t \in 1 .. MaxSalt :
    s + FingerprintTypes(types) = t + FingerprintTypes(others) => s = t

SaltedIsNew(types, line) ==
  \A t \in 1 .. MaxSalt :
    FingerprintTokens(TypesOf(line)) # t + FingerprintTypes(types)

HashesApart ==
  phase # "ingest" =>
    \A h \in Holders :
      /\ \A k \in Holders : Len(Held(h).tokens) = Len(Held(k).tokens)
           => SaltsApart(TokenTypes(Held(h)), TokenTypes(Held(k)))
      /\ \A n \in 1 .. Len(lines) : Len(Held(h).tokens) = Len(lines[n])
           => SaltedIsNew(TokenTypes(Held(h)), lines[n])

(***************************************************************************)
(* After the first pass the columns of every group are as long as the      *)
(* group has documents, wherever the group is: the column file is cut back *)
(* into columns by that number.                                            *)
(***************************************************************************)
HeldRectangular ==
  phase # "ingest" =>
    \A h \in Holders :
      /\ ColumnsOwned(Held(h))
      /\ Len(HeldRows(h)) = Held(h).num_docs
      /\ \A c \in 1 .. Len(Held(h).columns) :
           Len(Held(h).columns[c]) = Held(h).num_docs

(***************************************************************************)
(* merge_templates leaves nothing to merge: when it is done, the keys of   *)
(* the groups that are left differ, although its classes were built before *)
(* the first group changed.                                                *)
(***************************************************************************)
MergeComplete ==
  phase = "merged" =>
    \A g, h \in DOMAIN groups : MergeKey(groups[g]) = MergeKey(groups[h]) => g = h
=============================================================================
