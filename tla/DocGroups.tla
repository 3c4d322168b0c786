----------------------------- MODULE DocGroups -----------------------------
(***************************************************************************)
(* A document group of the indexer (DocGroup, preliminary_index.rs): one   *)
(* template and, for each of its variable tokens, a column of term ids     *)
(* with one row per document.  Columns are numbered from 1 here, from 0 in *)
(* the code; token_index, always the token's position, is left out.        *)
(***************************************************************************)
EXTENDS TermMap, FiniteSets

CONSTANTS
  Types,         (* The token types.                                       *)
  TypeOf,        (* TypeOf[t]: the type the tokenizer gives the text t.    *)
  IdLikeCheckAt  (* Row count at which push samples a column for id-like   *)
                 (* terms: 10000 in the code.                              *)

ASSUME DocGroupsAssumption ==
  TypeOf \in [Texts -> Types] /\ IdLikeCheckAt \in Nat

ConstantTokens ==
  [kind : {"Constant"}, token_type : Types, text : Texts]

VariableTokens ==
  [kind : {"Variable"}, token_type : Types, column_index : Nat \ {0},
   is_id_like : BOOLEAN]

TemplateTokens == ConstantTokens \cup VariableTokens

Groups ==
  [tokens : Seq(TemplateTokens), columns : Seq(Seq(Nat)), num_docs : Nat]

NewConstant(token_type, text) ==
  [kind |-> "Constant", token_type |-> token_type, text |-> text]

NewVariable(token_type, column_index) ==
  [kind |-> "Variable", token_type |-> token_type,
   column_index |-> column_index, is_id_like |-> FALSE]

IsVariable(token) == token.kind = "Variable"

IsConstant(token) == token.kind = "Constant"

(* DocGroup::new: the first line of a group is all constants.              *)
NewGroup(line) ==
  [ tokens   |-> [i \in 1 .. Len(line) |-> NewConstant(TypeOf[line[i]], line[i])],
    columns  |-> << >>,
    num_docs |-> 1 ]

(* check_is_id_like: at least 98 % of the rows hold different ids.         *)
IdLikePercent == 98

CheckIsIdLike(column) ==
  Cardinality({column[r] : r \in 1 .. Len(column)}) * 100
    >= IdLikePercent * Len(column)

(***************************************************************************)
(* The three branches of the loop in DocGroup::push for template token i   *)
(* and a line whose token i is text: what they make of the group.  The     *)
(* constant branches compare the whole texts.                              *)
(***************************************************************************)
Matches(group, i, text) == group.tokens[i].text = text

(* The column of a new variable repeats the old text for the rows so far   *)
(* and ends with the new one.  (Mutants: the new row is left out; the rows *)
(* so far are filled with the new text.)                                   *)
OldRowsOnly(num_docs, term_id, ct) == [r \in 1 .. num_docs |-> term_id]

NewTextOnly(num_docs, term_id, ct) == [r \in 1 .. num_docs + 1 |-> ct]

NewColumn(num_docs, term_id, ct) == Append([r \in 1 .. num_docs |-> term_id], ct)

(* The constant becomes a variable.                                        *)
PushMismatch(group, tm, i, text) ==
  LET existing == group.tokens[i].text
      ct       == TermIdOf(tm, text, FALSE)
      term_id  == TermIdOf(MutateOrCreate(tm, text, FALSE), existing, FALSE)
  IN  [group EXCEPT
         !.columns   = Append(@, NewColumn(group.num_docs, term_id, ct)),
         !.tokens[i] = NewVariable(TypeOf[text], Len(group.columns) + 1)]

(* The same branch's two calls of mutate_or_create, in their order.        *)
TermMapAfterMismatch(group, tm, i, text) ==
  MutateOrCreate(MutateOrCreate(tm, text, FALSE), group.tokens[i].text, FALSE)

(* A variable takes the term id; the row with number IdLikeCheckAt + 1     *)
(* decides whether later rows look the term up.                            *)
PushVariable(group, tm, i, text) ==
  LET token  == group.tokens[i]
      column == Append(group.columns[token.column_index],
                       TermIdOf(tm, text, token.is_id_like))
  IN  [group EXCEPT
         !.columns[token.column_index] = column,
         !.tokens[i].is_id_like =
           IF group.num_docs = IdLikeCheckAt THEN CheckIsIdLike(column) ELSE @]

(***************************************************************************)
(* What row r of the group holds at token i, read back through the term    *)
(* map: the template's text, or a term stored under the column's id.       *)
(***************************************************************************)
CellReads(group, tm, i, r, text) ==
  \/ /\ IsConstant(group.tokens[i])
     /\ group.tokens[i].text = text
  \/ /\ IsVariable(group.tokens[i])
     /\ Stored(tm, group.columns[group.tokens[i].column_index][r], text)

(* The hash map caps long keys, so a cell may read the capped text.        *)
CellRecovers(group, tm, i, r, text) ==
  CellReads(group, tm, i, r, text) \/ CellReads(group, tm, i, r, Capped[text])

(* Every column belongs to exactly one variable token.                     *)
ColumnsOwned(group) ==
  /\ \A i \in 1 .. Len(group.tokens) :
       IsVariable(group.tokens[i]) =>
         group.tokens[i].column_index \in 1 .. Len(group.columns)
  /\ \A i, j \in 1 .. Len(group.tokens) :
       /\ IsVariable(group.tokens[i])
       /\ IsVariable(group.tokens[j])
       /\ group.tokens[i].column_index = group.tokens[j].column_index
       => i = j
  /\ \A c \in 1 .. Len(group.columns) :
       \E i \in 1 .. Len(group.tokens) :
         IsVariable(group.tokens[i]) /\ group.tokens[i].column_index = c

(* Every column has one row per document, those of the tokens left of the  *)
(* cursor of a push one more.                                              *)
Rectangular(group, cursor) ==
  /\ ColumnsOwned(group)
  /\ \A i \in 1 .. Len(group.tokens) :
       IsVariable(group.tokens[i]) =>
         Len(group.columns[group.tokens[i].column_index])
           = group.num_docs + IF i < cursor THEN 1 ELSE 0
=============================================================================
