-------------------------- MODULE PreliminaryIndex --------------------------
(***************************************************************************)
(* The first pass of the indexer: preliminary_index() feeds every line to  *)
(* DocGroupsByLen::insert, which opens a group for a token count and       *)
(* fingerprint not seen before or pushes the line onto the group that has  *)
(* it.  DocGroup::push walks the template token by token, and so does the  *)
(* model: one step per token, `pos` being the next one.                    *)
(***************************************************************************)
EXTENDS DocGroups

CONSTANTS
  Lines,                 (* The lines that may be logged, as token texts.  *)
  MaxLines,              (* Bound: the number of lines of the input.       *)
  FingerprintTokens(_)   (* The hash of a sequence of token types.         *)

TypesOf(line) == [i \in 1 .. Len(line) |-> TypeOf[line[i]]]

ASSUME LinesAssumption ==
  /\ MaxLines \in Nat
  /\ \A line \in Lines : /\ line \in Seq(Texts)
                         /\ FingerprintTokens(TypesOf(line)) \in Nat

VARIABLES
  term_map,  (* IndexingTermmap.                                           *)
  groups,    (* DocGroupsByLen: the group of every id in use.              *)
  lines,     (* History: the input so far.  The last line is the one being *)
             (* pushed while pos > 0.                                      *)
  origin,    (* History: origin[g][r] is the line in row r of group g.     *)
  pos        (* The next template token of the push in progress, 0 if      *)
             (* there is none.                                             *)

ingestVars == <<term_map, groups, lines, origin, pos>>

GroupIds == [num_tokens : Nat, id : Nat]

GroupIdOf(line) ==
  [num_tokens |-> Len(line), id |-> FingerprintTokens(TypesOf(line))]

(* Insertion into a hash map: an entry with the same id is replaced.       *)
Put(f, id, value) ==
  [g \in DOMAIN f \cup {id} |-> IF g = id THEN value ELSE f[g]]

-----------------------------------------------------------------------------

IngestInit ==
  /\ term_map = EmptyTermMap
  /\ groups = << >>
  /\ lines = << >>
  /\ origin = << >>
  /\ pos = 0

(* The lookup that decides whether a line opens a group or joins one.      *)
(* (Mutant: nothing is ever found.)                                        *)
NeverFound(id) == FALSE

HasGroup(id) == id \in DOMAIN groups

(* DocGroups::insert, None: the line opens a group.                        *)
OpenGroup(line) ==
  LET id == GroupIdOf(line)
  IN  /\ pos = 0
      /\ Len(lines) < MaxLines
      /\ ~HasGroup(id)
      /\ lines' = Append(lines, line)
      /\ groups' = Put(groups, id, NewGroup(line))
      /\ origin' = Put(origin, id, <<Len(lines) + 1>>)
      /\ UNCHANGED <<term_map, pos>>

(* DocGroups::insert, Some: the line is pushed onto its group.             *)
BeginPush(line) ==
  /\ pos = 0
  /\ Len(lines) < MaxLines
  /\ HasGroup(GroupIdOf(line))
  /\ lines' = Append(lines, line)
  /\ pos' = 1
  /\ UNCHANGED <<term_map, groups, origin>>

(* The line being pushed, its group and its token at the cursor.           *)
Current == lines[Len(lines)]
CurrentId == GroupIdOf(Current)
CurrentGroup == groups[CurrentId]
CurrentText == Current[pos]

AtToken == pos > 0 /\ pos <= Len(CurrentGroup.tokens)

PushSameConstant ==
  /\ AtToken
  /\ IsConstant(CurrentGroup.tokens[pos])
  /\ Matches(CurrentGroup, pos, CurrentText)
  /\ pos' = pos + 1
  /\ UNCHANGED <<term_map, groups, lines, origin>>

PushNewVariable ==
  /\ AtToken
  /\ IsConstant(CurrentGroup.tokens[pos])
  /\ ~Matches(CurrentGroup, pos, CurrentText)
  /\ term_map' = TermMapAfterMismatch(CurrentGroup, term_map, pos, CurrentText)
  /\ groups' = [groups EXCEPT ![CurrentId] =
                  PushMismatch(CurrentGroup, term_map, pos, CurrentText)]
  /\ pos' = pos + 1
  /\ UNCHANGED <<lines, origin>>

PushToColumn ==
  /\ AtToken
  /\ IsVariable(CurrentGroup.tokens[pos])
  /\ term_map' = MutateOrCreate(term_map, CurrentText,
                                CurrentGroup.tokens[pos].is_id_like)
  /\ groups' = [groups EXCEPT ![CurrentId] =
                  PushVariable(CurrentGroup, term_map, pos, CurrentText)]
  /\ pos' = pos + 1
  /\ UNCHANGED <<lines, origin>>

(* The end of push: the row is counted.                                    *)
EndPush ==
  /\ pos > 0
  /\ pos > Len(CurrentGroup.tokens)
  /\ groups' = [groups EXCEPT ![CurrentId].num_docs = @ + 1]
  /\ origin' = [origin EXCEPT ![CurrentId] = Append(@, Len(lines))]
  /\ pos' = 0
  /\ UNCHANGED <<term_map, lines>>

IngestNext ==
  \/ \E line \in Lines : OpenGroup(line) \/ BeginPush(line)
  \/ PushSameConstant
  \/ PushNewVariable
  \/ PushToColumn
  \/ EndPush

IngestSpec == IngestInit /\ [][IngestNext]_ingestVars

-----------------------------------------------------------------------------

IngestTypeOK ==
  /\ term_map \in TermMaps
  /\ DOMAIN groups \subseteq GroupIds
  /\ groups \in [DOMAIN groups -> Groups]
  /\ origin \in [DOMAIN groups -> Seq(Nat)]
  /\ lines \in Seq(Lines)
  /\ pos \in Nat

(* The lines that are rows: all but the one being pushed.                  *)
NumPushed == IF pos > 0 THEN Len(lines) - 1 ELSE Len(lines)

(* The cursor of the push in progress, if it is on group g.                *)
Cursor(g) == IF pos > 0 /\ g = CurrentId THEN pos ELSE 0

(***************************************************************************)
(* Columns stay rectangular: the column of a variable has one row per      *)
(* document of the group, however late the position turned variable, so    *)
(* that row r of every column belongs to the same document (push,          *)
(* convert_to_variable, append and remove_rows each grow or cut columns    *)
(* on their own).  The column file is cut back into columns by num_docs.   *)
(***************************************************************************)
ColumnsRectangular ==
  \A g \in DOMAIN groups : Rectangular(groups[g], Cursor(g))

(***************************************************************************)
(* Every row of every group reads back as the line it was made from, up to *)
(* the cap on the length of a dictionary key: templates that change under  *)
(* way, shared and id-like terms lose nothing of the rows pushed before.   *)
(***************************************************************************)
RowsRecoverable ==
  \A g \in DOMAIN groups :
    \A r \in 1 .. groups[g].num_docs :
      /\ Len(lines[origin[g][r]]) = Len(groups[g].tokens)
      /\ \A i \in 1 .. Len(groups[g].tokens) :
           CellRecovers(groups[g], term_map, i, r, lines[origin[g][r]][i])

(***************************************************************************)
(* Every line of the input is a row of exactly one group, but for the one  *)
(* being pushed: no group overwrites another one under its id, none is     *)
(* appended twice and none is left out.                                    *)
(***************************************************************************)
InOneRow(n) ==
  \E g \in DOMAIN groups : \E r \in 1 .. groups[g].num_docs :
    \A h \in DOMAIN groups : \A s \in 1 .. groups[h].num_docs :
      origin[h][s] = n <=> h = g /\ s = r

EveryLineInOneRow == \A n \in 1 .. NumPushed : InOneRow(n)

(* Term ids: see IdsNameOneTerm.  push_unique and the hash map draw from   *)
(* one counter; the dictionary writer indexes its tables by these ids.     *)
TermIdsSound == IdsNameOneTerm(term_map)

(* What a push relies on: its line is in the bucket and group it looks in. *)
PushInRange ==
  pos > 0 => /\ Len(lines) > 0
             /\ CurrentId \in DOMAIN groups
             /\ pos <= Len(Current) + 1

GroupsMatchLines ==
  \A g \in DOMAIN groups :
    /\ Len(groups[g].tokens) = g.num_tokens
    /\ Len(origin[g]) = groups[g].num_docs
    /\ \A r \in 1 .. groups[g].num_docs : origin[g][r] \in 1 .. NumPushed

(* The row under way already reads as the tokens left of the cursor.       *)
RowInFlight ==
  pos > 0 =>
    \A i \in 1 .. pos - 1 :
      CellRecovers(CurrentGroup, term_map, i, CurrentGroup.num_docs + 1, Current[i])

(***************************************************************************)
(* The inductive invariant of the first pass: between any two tokens of a  *)
(* push, finished rows, the row under way and the term map fit together.   *)
(***************************************************************************)
IngestInv ==
  /\ IngestTypeOK
  /\ PushInRange
  /\ GroupsMatchLines
  /\ ColumnsRectangular
  /\ RowsRecoverable
  /\ RowInFlight
  /\ EveryLineInOneRow
  /\ TermIdsSound
=============================================================================
