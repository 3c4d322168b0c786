----------------------------- MODULE SchemaTree -----------------------------
(***************************************************************************)
(* The schema tree (src/schema.rs): every path of keys that leads to a     *)
(* leaf of a JSON document, and the kind of the leaf, get a leaf id; the   *)
(* set of a document's leaf ids is its schema id.  A document is a stream  *)
(* of parser events, each of them a step, and may end in an error at any   *)
(* of them.  Nodes and leaves are numbered from 1 here, from 0 in the code.*)
(***************************************************************************)
EXTENDS Integers, Sequences, FiniteSets, SequencesExt

CONSTANTS
  JsonKeys,    (* Keys of JSON objects.                                    *)
  Kinds,       (* Kinds of leaves: null, bool, number, string, array.      *)
  MaxEntries,  (* Bound: the entries of all objects of all documents.      *)
  MaxDepth     (* Bound: objects that are open at a time.                  *)

ASSUME SchemaTreeAssumption == MaxEntries \in Nat /\ MaxDepth \in Nat \ {0}

VARIABLES
  nodes,    (* The nodes: children by key, leaf ids by kind.               *)
  leaves,   (* LeafInfo of every leaf id.                                  *)
  open,     (* The nodes of the objects being parsed, the root first.      *)
  entry,    (* The key whose value comes next and its node, if any.        *)
  out,      (* leaf_ids of the document being parsed.                      *)
  path,     (* History: the keys that lead to the innermost open object.   *)
  shape,    (* History: path and kind of the document's leaves so far.     *)
  schemas,  (* History: schema id and shape of all documents.              *)
  entries   (* The number of entries, for the bound.                       *)

treeVars == <<nodes, leaves>>
docVars == <<open, entry, out, path, shape>>
vars == <<treeVars, docVars, schemas, entries>>

Root == 1
None == 0

EmptyNode == [children |-> [k \in JsonKeys |-> None],
              leaves   |-> [kind \in Kinds |-> None]]

NoEntry == << >>


-----------------------------------------------------------------------------

Init ==
  /\ nodes = <<EmptyNode>>
  /\ leaves = << >>
  /\ open = << >>
  /\ entry = NoEntry
  /\ out = << >>
  /\ path = << >>
  /\ shape = {}
  /\ schemas = {}
  /\ entries = 0

(* ingest_json_with: the root object begins.                               *)
StartDocument ==
  /\ open = << >>
  /\ open' = <<Root>>
  /\ out' = << >>
  /\ path' = << >>
  /\ shape' = {}
  /\ UNCHANGED <<treeVars, entry, schemas, entries>>

InObject == open # << >> /\ entry = NoEntry
AtValue == entry # NoEntry

Innermost == open[Len(open)]
Key == entry[1]
Node == entry[2]

(* The child of a node under a key.  (Mutant: of any node.)                *)
AnyChild(parent, key) ==
  LET parents == {n \in 1 .. Len(nodes) : nodes[n].children[key] # None}
  IN  IF parents = {} THEN None
      ELSE nodes[CHOOSE n \in parents : \A m \in parents : n <= m].children[key]

ExistingChild(parent, key) == nodes[parent].children[key]

(* The id of a new node.  (Mutants: of the last, or read after the push.)  *)
LastNodeId == Len(nodes)

NodeIdAfterPush == Len(nodes) + 2

NewNodeId == Len(nodes) + 1

(* The next key of the object, which may well be one it already had:       *)
(* get_or_create_child.                                                    *)
NextKey(key) ==
  LET child == ExistingChild(Innermost, key)
  IN  /\ InObject
      /\ entries < MaxEntries
      /\ entries' = entries + 1
      /\ \/ /\ child # None
            /\ entry' = <<key, child>>
            /\ UNCHANGED nodes
         \/ /\ child = None
            /\ entry' = <<key, NewNodeId>>
            /\ nodes' = Append([nodes EXCEPT ![Innermost].children[key] =
                                  NewNodeId], EmptyNode)
      /\ UNCHANGED <<leaves, open, out, path, shape, schemas>>

(* The leaf id a node has for a kind.  (Mutant: it is not looked up.)      *)
NoLeaf(node, kind) == None

ExistingLeaf(node, kind) == nodes[node].leaves[kind]

(* The id of a new leaf.  (Mutant: that of the last one.)                  *)
LastLeafId == IF leaves = << >> THEN 1 ELSE Len(leaves)

NewLeafId == Len(leaves) + 1

(* emit_leaf: intern_leaf, and the id is noted.                            *)
EmitLeaf(kind) ==
  LET leaf == ExistingLeaf(Node, kind)
  IN  /\ AtValue
      /\ \/ /\ leaf # None
            /\ out' = Append(out, leaf)
            /\ UNCHANGED treeVars
         \/ /\ leaf = None
            /\ out' = Append(out, NewLeafId)
            /\ nodes' = [nodes EXCEPT ![Node].leaves[kind] = NewLeafId]
            /\ leaves' = Append(leaves, [key |-> Key, kind |-> kind])
      /\ shape' = shape \cup {<<Append(path, Key), kind>>}
      /\ entry' = NoEntry
      /\ UNCHANGED <<open, path, schemas, entries>>

(* visit_map of a value.  (Beyond a depth of its own, the parser fails.)   *)
OpenObject ==
  /\ AtValue
  /\ Len(open) < MaxDepth
  /\ open' = Append(open, Node)
  /\ path' = Append(path, Key)
  /\ entry' = NoEntry
  /\ UNCHANGED <<treeVars, out, shape, schemas, entries>>

CloseObject ==
  /\ InObject
  /\ Len(open) > 1
  /\ open' = Front(open)
  /\ path' = Front(path)
  /\ UNCHANGED <<treeVars, entry, out, shape, schemas, entries>>

(* SchemaId::new of leaf_ids, a sorted sequence without duplicates.        *)
SchemaId == ToSet(out)

EndDocument ==
  /\ InObject
  /\ Len(open) = 1
  /\ schemas' = schemas \cup {[id |-> SchemaId, shape |-> shape]}
  /\ open' = << >>
  /\ out' = << >>
  /\ path' = << >>
  /\ shape' = {}
  /\ UNCHANGED <<treeVars, entry, entries>>

(* An error in an object: what it brought into the tree stays there.       *)
FailDocument ==
  /\ open # << >>
  /\ open' = << >>
  /\ entry' = NoEntry
  /\ out' = << >>
  /\ path' = << >>
  /\ shape' = {}
  /\ UNCHANGED <<treeVars, schemas, entries>>

Next ==
  \/ StartDocument
  \/ \E key \in JsonKeys : NextKey(key)
  \/ \E kind \in Kinds : EmitLeaf(kind)
  \/ OpenObject
  \/ CloseObject
  \/ EndDocument
  \/ FailDocument

Spec == Init /\ [][Next]_vars

-----------------------------------------------------------------------------
(* Reconstruction.                                                         *)

(* The leaves of a node that a schema id contains.  (Mutant: all of them.) *)
AllOfNode(n, id) == {kind \in Kinds : nodes[n].leaves[kind] # None}

Selected(n, id) == {kind \in Kinds : nodes[n].leaves[kind] \in id}

Below(key, set) == {<< <<key>> \o leaf[1], leaf[2] >> : leaf \in set}

(* The leaves, by path and kind, in the value of node n, given those in    *)
(* the values of its children.                                             *)
Filled(values, n, id) ==
  {<< << >>, kind >> : kind \in Selected(n, id)}
    \cup UNION {Below(k, values[nodes[n].children[k]]) :
                  k \in {k \in JsonKeys : nodes[n].children[k] # None}}

(* reconstruct_node_value_with for every node: a child comes after its     *)
(* parent.                                                                 *)
NodeValues(id) ==
  LET values[n \in 1 .. Len(nodes)] == Filled(values, n, id)
  IN  values

Reconstructed(id) == NodeValues(id)[Root]

(* The two panics: several kinds at one path, or a leaf and an object.     *)
ReconstructPanics(id) ==
  \E n \in 1 .. Len(nodes) :
    LET kinds == Selected(n, id)
    IN  \/ Cardinality(kinds) > 1
        \/ kinds # {} /\ NodeValues(id)[n] # {<< << >>, kind >> : kind \in kinds}

-----------------------------------------------------------------------------

SchemaTreeTypeOK ==
  /\ \A n \in 1 .. Len(nodes) :
       /\ nodes[n].children \in [JsonKeys -> 0 .. Len(nodes)]
       /\ nodes[n].leaves \in [Kinds -> 0 .. Len(leaves)]
  /\ leaves \in Seq([key : JsonKeys, kind : Kinds])
  /\ open \in Seq(1 .. Len(nodes))
  /\ AtValue => entry \in JsonKeys \X (1 .. Len(nodes))
  /\ out \in Seq(1 .. Len(leaves))

(***************************************************************************)
(* Nodes are a tree: every node but the root is the child of exactly one   *)
(* node under one key, and was created after it, also when documents fail  *)
(* after they created some.                                                *)
(***************************************************************************)
NodesFormTree ==
  \A n \in 1 .. Len(nodes) :
    LET parents == {p \in (1 .. Len(nodes)) \X JsonKeys :
                      nodes[p[1]].children[p[2]] = n}
    IN  /\ Cardinality(parents) = IF n = Root THEN 0 ELSE 1
        /\ \A p \in parents : p[1] < n

(***************************************************************************)
(* Every leaf id stands at exactly one node and kind, and leaf_info tells  *)
(* that kind and the key that leads to the node.                           *)
(***************************************************************************)
LeavesInterned ==
  \A leaf \in 1 .. Len(leaves) :
    LET places == {p \in (1 .. Len(nodes)) \X Kinds :
                     nodes[p[1]].leaves[p[2]] = leaf}
    IN  /\ Cardinality(places) = 1
        /\ \A p \in places :
             /\ leaves[leaf].kind = p[2]
             /\ \E m \in 1 .. Len(nodes) :
                  nodes[m].children[leaves[leaf].key] = p[1]

(***************************************************************************)
(* "A list of leaf ids that uniquely identifies a schema": documents have  *)
(* one schema id exactly if their leaves have the same paths and kinds,    *)
(* whenever they came and whatever came, or failed, in between.            *)
(***************************************************************************)
SchemaIdsIdentify ==
  \A s, t \in schemas : s.id = t.id <=> s.shape = t.shape

(***************************************************************************)
(* A schema id gives back the leaves of its document, also when the tree   *)
(* has grown since: what came later is left out, objects without leaves    *)
(* are not put in.  (For the ids that panic see ReconstructReturns.)       *)
(***************************************************************************)
ReconstructsShape ==
  \A s \in schemas : ReconstructPanics(s.id) \/ Reconstructed(s.id) = s.shape

(***************************************************************************)
(* The tree only grows: a leaf id keeps its place and its leaf_info, a     *)
(* node its place, so that schema ids remain valid.                        *)
(***************************************************************************)
Grows ==
  /\ Len(nodes') >= Len(nodes) /\ Len(leaves') >= Len(leaves)
  /\ \A n \in 1 .. Len(nodes) :
       /\ \A k \in JsonKeys :
            nodes[n].children[k] # None => nodes'[n].children[k] = nodes[n].children[k]
       /\ \A kind \in Kinds :
            nodes[n].leaves[kind] # None => nodes'[n].leaves[kind] = nodes[n].leaves[kind]
  /\ \A leaf \in 1 .. Len(leaves) : leaves'[leaf] = leaves[leaf]

TreeOnlyGrows == [][Grows]_vars

(***************************************************************************)
(* "Reconstruct a JSON object value for this schema": a document with a    *)
(* key twice in one object has a schema id, for which that panics.         *)
(***************************************************************************)
ReconstructReturns == \A s \in schemas : ~ReconstructPanics(s.id)
=============================================================================
