-------------------------- MODULE SchemaTreeProofs --------------------------
(***************************************************************************)
(* The tree of schemas is a tree that only grows, every leaf id has one    *)
(* place in it, and a schema id stands for one set of paths and kinds, for *)
(* any documents, of which any may fail, and gives that set back.          *)
(***************************************************************************)
EXTENDS SchemaTree, FiniteSetTheorems, SequenceTheorems, WellFoundedInduction, TLAPS

-----------------------------------------------------------------------------
(* The inductive invariant.                                                *)

Child(n, k) == nodes[n].children[k]
LeafOf(n, kind) == nodes[n].leaves[kind]

NodeIds == 1 .. Len(nodes)
LeafIds == 1 .. Len(leaves)

NodeType == [children : [JsonKeys -> Nat], leaves : [Kinds -> Nat]]
LeafInfo == [key : JsonKeys, kind : Kinds]

TreeTypes ==
  /\ nodes \in Seq(NodeType) /\ Len(nodes) >= 1
  /\ leaves \in Seq(LeafInfo)
  /\ \A n \in NodeIds : \A k \in JsonKeys : Child(n, k) \in 0 .. Len(nodes)
  /\ \A n \in NodeIds : \A kind \in Kinds : LeafOf(n, kind) \in 0 .. Len(leaves)

\* A key whose value comes next leads from the innermost object to its node.
DocTypes ==
  /\ open \in Seq(NodeIds)
  /\ out \in Seq(LeafIds)
  /\ AtValue => /\ open # << >>
                /\ \E p, n \in NodeIds : \E k \in JsonKeys :
                     p = Innermost /\ entry = <<k, n>> /\ Child(p, k) = n

\* Edges lead to nodes made later, each of which is reached over one of them.
Tree ==
  /\ \A p, q \in NodeIds : \A k, j \in JsonKeys :
       Child(p, k) # None /\ Child(p, k) = Child(q, j) => p = q /\ k = j
  /\ \A p \in NodeIds : \A k \in JsonKeys : Child(p, k) # None => p < Child(p, k)
  /\ \A n \in NodeIds : n # Root => \E p \in NodeIds : \E k \in JsonKeys : Child(p, k) = n

\* No two places have one leaf id, and each leaf id has one.
LeafPlaces ==
  /\ \A p, q \in NodeIds : \A k, j \in Kinds :
       LeafOf(p, k) # None /\ LeafOf(p, k) = LeafOf(q, j) => p = q /\ k = j
  /\ \A leaf \in LeafIds : \E n \in NodeIds : \E kind \in Kinds : LeafOf(n, kind) = leaf
  /\ \A n \in NodeIds : \A kind \in Kinds : \A leaf \in LeafIds :
       LeafOf(n, kind) = leaf =>
         /\ leaves[leaf].kind = kind
         /\ \E m \in NodeIds : \E k \in JsonKeys :
              k = leaves[leaf].key /\ Child(m, k) = n

\* Each open object is in the one before it.
OpenChain ==
  \A i \in 1 .. Len(open) - 1 : \E p, n \in NodeIds : \E k \in JsonKeys :
    p = open[i] /\ n = open[i + 1] /\ Child(p, k) = n

\* P gives every node the keys that lead to it, which no other node has.
PathsAre(P) ==
  /\ P \in [NodeIds -> Seq(JsonKeys)]
  /\ P[Root] = << >>
  /\ \A n \in NodeIds : \A k \in JsonKeys :
       Child(n, k) # None => P[Child(n, k)] = Append(P[n], k)
  /\ \A n, m \in NodeIds : P[n] = P[m] => n = m

\* The paths and kinds of the leaves with these ids.
IsShape(P, set, ids) ==
  \A q : q \in set <=> \E n \in NodeIds : \E kind \in Kinds :
                         q = <<P[n], kind>> /\ LeafOf(n, kind) \in ids

DocumentsAre(P) ==
  /\ open # << >> => path = P[Innermost]
  /\ IsShape(P, shape, ToSet(out))
  /\ \A s \in schemas : s.id \in SUBSET LeafIds /\ IsShape(P, s.shape, s.id)

TreeInv == TreeTypes /\ DocTypes /\ Tree /\ LeafPlaces /\ OpenChain

SchemaInv == TreeInv /\ \E P : PathsAre(P) /\ DocumentsAre(P)

-----------------------------------------------------------------------------
(* Sequences.                                                              *)

LEMMA SeqWiden ==
  ASSUME NEW S, NEW T, S \subseteq T, NEW s \in Seq(S)
  PROVE  s \in Seq(T)
  OBVIOUS

LEMMA FrontOfAppend ==
  ASSUME NEW S, NEW s \in Seq(S), NEW e \in S
  PROVE  Front(Append(s, e)) = s
<1>1. /\ Append(s, e) \in Seq(S) /\ Len(Append(s, e)) = Len(s) + 1
      /\ \A i \in 1 .. Len(s) : Append(s, e)[i] = s[i]
      /\ Len(s) \in Nat
  OBVIOUS
<1>2. Front(Append(s, e)) = SubSeq(Append(s, e), 1, Len(s))
  BY <1>1 DEF Front
<1>3. SubSeq(Append(s, e), 1, Len(s)) \in Seq(S)
      /\ Len(SubSeq(Append(s, e), 1, Len(s))) = Len(s)
      /\ \A i \in 1 .. Len(s) : SubSeq(Append(s, e), 1, Len(s))[i] = s[i]
  BY <1>1
<1> QED
  BY <1>2, <1>3, SeqEqual

(* The last key and what comes before it can be told from a path.          *)
LEMMA PathsInjective ==
  \A s, t \in Seq(JsonKeys) : \A e, f \in JsonKeys :
    Append(s, e) = Append(t, f) => s = t /\ e = f
  BY AppendInjective

LEMMA AppendNotEmpty ==
  ASSUME NEW S, NEW s \in Seq(S), NEW e \in S
  PROVE  Append(s, e) # << >>
<1>1. Len(Append(s, e)) = Len(s) + 1 /\ Len(s) \in Nat /\ Len(<< >>) = 0
  OBVIOUS
<1>2. Len(Append(s, e)) # 0
  BY <1>1
<1> QED
  BY <1>1, <1>2

-----------------------------------------------------------------------------
(* What a step can do to the tree.                                         *)

\* A node is added below a node p, under a key.
NodeAdded(p, key) ==
  /\ nodes' \in Seq(NodeType) /\ Len(nodes') = Len(nodes) + 1
  /\ \A n \in NodeIds : \A k \in JsonKeys :
       Child(n, k)' = IF n = p /\ k = key THEN Len(nodes) + 1 ELSE Child(n, k)
  /\ \A n \in NodeIds : \A kind \in Kinds : LeafOf(n, kind)' = LeafOf(n, kind)
  /\ \A k \in JsonKeys : nodes'[Len(nodes) + 1].children[k] = None
  /\ \A kind \in Kinds : nodes'[Len(nodes) + 1].leaves[kind] = None
  /\ leaves' = leaves

\* A leaf of a kind is added to a node p, which a key leads to.
LeafAdded(p, key, type) ==
  /\ nodes' \in Seq(NodeType) /\ Len(nodes') = Len(nodes)
  /\ \A n \in NodeIds : \A k \in JsonKeys : Child(n, k)' = Child(n, k)
  /\ \A n \in NodeIds : \A kind \in Kinds :
       LeafOf(n, kind)' = IF n = p /\ kind = type THEN Len(leaves) + 1
                          ELSE LeafOf(n, kind)
  /\ leaves' \in Seq(LeafInfo) /\ Len(leaves') = Len(leaves) + 1
  /\ \A leaf \in LeafIds : leaves'[leaf] = leaves[leaf]
  /\ leaves'[Len(leaves) + 1] = [key |-> key, kind |-> type]

\* A node with another child, or another leaf.
WithChild(node, key, v) == [node EXCEPT !.children[key] = v]
WithLeaf(node, type, v) == [node EXCEPT !.leaves[type] = v]

(* Only that child, or that leaf, is another one.                          *)
LEMMA WithChildFacts ==
  ASSUME NEW node \in NodeType, NEW key \in JsonKeys, NEW v \in Nat
  PROVE  /\ WithChild(node, key, v) \in NodeType
         /\ WithChild(node, key, v).leaves = node.leaves
         /\ \A k \in JsonKeys : WithChild(node, key, v).children[k]
                                  = IF k = key THEN v ELSE node.children[k]
<1>1. WithChild(node, key, v) \in NodeType
  BY DEF NodeType, WithChild
<1>2. WithChild(node, key, v).leaves = node.leaves
  BY DEF NodeType, WithChild
<1>3. \A k \in JsonKeys : WithChild(node, key, v).children[k]
                            = IF k = key THEN v ELSE node.children[k]
  BY DEF NodeType, WithChild
<1> QED
  BY <1>1, <1>2, <1>3

LEMMA WithLeafFacts ==
  ASSUME NEW node \in NodeType, NEW type \in Kinds, NEW v \in Nat
  PROVE  /\ WithLeaf(node, type, v) \in NodeType
         /\ WithLeaf(node, type, v).children = node.children
         /\ \A kind \in Kinds : WithLeaf(node, type, v).leaves[kind]
                                  = IF kind = type THEN v ELSE node.leaves[kind]
<1>1. WithLeaf(node, type, v) \in NodeType
  BY DEF NodeType, WithLeaf
<1>2. WithLeaf(node, type, v).children = node.children
  BY DEF NodeType, WithLeaf
<1>3. \A kind \in Kinds : WithLeaf(node, type, v).leaves[kind]
                            = IF kind = type THEN v ELSE node.leaves[kind]
  BY DEF NodeType, WithLeaf
<1> QED
  BY <1>1, <1>2, <1>3

(* The innermost object and the node of an entry are nodes.                *)
LEMMA Cursor ==
  ASSUME TreeTypes, DocTypes
  PROVE  /\ open # << >> => Innermost \in NodeIds
         /\ AtValue => /\ Key \in JsonKeys /\ Node \in NodeIds
                       /\ entry = <<Key, Node>> /\ open # << >>
                       /\ Child(Innermost, Key) = Node
<1>1. ASSUME open # << >> PROVE Innermost \in NodeIds
  <2>1. Len(open) \in 1 .. Len(open)
    BY <1>1 DEF DocTypes
  <2> QED
    BY <2>1 DEF DocTypes, Innermost
<1> QED
  BY <1>1 DEF DocTypes, Key, Node

(* get_or_create_child adds a node or leaves the tree as it is.            *)
LEMMA NextKeyAdds ==
  ASSUME TreeTypes, DocTypes, NEW key \in JsonKeys, NextKey(key)
  PROVE  \/ /\ Child(Innermost, key) # None /\ UNCHANGED treeVars
            /\ entry' = <<key, Child(Innermost, key)>>
         \/ /\ Child(Innermost, key) = None /\ NodeAdded(Innermost, key)
            /\ entry' = <<key, Len(nodes) + 1>>
<1> DEFINE p == Innermost
           new == Len(nodes) + 1
           node == WithChild(nodes[p], key, new)
           old == [nodes EXCEPT ![p] = node]
<1>1. CASE Child(p, key) # None
  BY <1>1 DEF NextKey, Child, ExistingChild, treeVars
<1>2. CASE Child(p, key) = None
  <2>1. /\ nodes' = Append(old, EmptyNode) /\ leaves' = leaves
        /\ entry' = <<key, new>>
    BY <1>2 DEF NextKey, Child, ExistingChild, NewNodeId, WithChild
  <2>2. /\ p \in NodeIds /\ nodes \in Seq(NodeType) /\ Len(nodes) \in Nat
        /\ new \in Nat /\ \A n \in NodeIds : nodes[n] \in NodeType
    BY Cursor DEF NextKey, InObject, TreeTypes, NodeIds
  <2> HIDE DEF p
  <2>3. EmptyNode \in NodeType
    BY DEF EmptyNode, NodeType, None
  <2>4. /\ node \in NodeType /\ node.leaves = nodes[p].leaves
        /\ \A k \in JsonKeys : node.children[k] = IF k = key THEN new
                                                  ELSE nodes[p].children[k]
    <3> HIDE DEF new
    <3>1. nodes[p] \in NodeType /\ new \in Nat
      BY <2>2
    <3> QED
      BY <3>1, WithChildFacts
  <2> HIDE DEF node
  <2>5. /\ old \in Seq(NodeType) /\ Len(old) = Len(nodes) /\ old[p] = node
        /\ \A n \in NodeIds : n # p => old[n] = nodes[n]
    BY <2>2, <2>4 DEF NodeIds
  <2> HIDE DEF old
  <2>6. /\ nodes' \in Seq(NodeType) /\ Len(nodes') = new
        /\ \A n \in NodeIds : nodes'[n] = old[n]
        /\ nodes'[new] = EmptyNode
    BY <2>1, <2>2, <2>3, <2>5 DEF NodeIds
  <2>7. /\ \A k \in JsonKeys : nodes'[new].children[k] = None
        /\ \A kind \in Kinds : nodes'[new].leaves[kind] = None
    BY <2>6 DEF EmptyNode
  <2> HIDE DEF new
  <2>8. ASSUME NEW n \in NodeIds
        PROVE  /\ \A k \in JsonKeys : nodes'[n].children[k]
                    = IF n = p /\ k = key THEN new ELSE nodes[n].children[k]
               /\ nodes'[n].leaves = nodes[n].leaves
    BY <2>4, <2>5, <2>6
  <2>9. NodeAdded(p, key)
    BY <2>1, <2>6, <2>7, <2>8 DEF NodeAdded, Child, LeafOf, new
  <2> QED
    BY <1>2, <2>1, <2>9 DEF p, new
<1> QED
  BY <1>1, <1>2

(* intern_leaf adds a leaf or leaves the tree as it is.                    *)
LEMMA EmitLeafAdds ==
  ASSUME TreeTypes, DocTypes, NEW type \in Kinds, EmitLeaf(type)
  PROVE  \/ /\ LeafOf(Node, type) # None /\ UNCHANGED treeVars
            /\ out' = Append(out, LeafOf(Node, type))
         \/ /\ LeafOf(Node, type) = None /\ LeafAdded(Node, Key, type)
            /\ out' = Append(out, Len(leaves) + 1)
<1> DEFINE p == Node
           new == Len(leaves) + 1
           node == WithLeaf(nodes[p], type, new)
           info == [key |-> Key, kind |-> type]
<1>1. CASE LeafOf(p, type) # None
  BY <1>1 DEF EmitLeaf, LeafOf, ExistingLeaf
<1>2. CASE LeafOf(p, type) = None
  <2>1. /\ nodes' = [nodes EXCEPT ![p] = node] /\ leaves' = Append(leaves, info)
        /\ out' = Append(out, new)
    BY <1>2 DEF EmitLeaf, LeafOf, ExistingLeaf, NewLeafId, WithLeaf
  <2>2. /\ p \in NodeIds /\ Key \in JsonKeys /\ nodes \in Seq(NodeType)
        /\ leaves \in Seq(LeafInfo) /\ Len(nodes) \in Nat /\ Len(leaves) \in Nat
        /\ new \in Nat /\ \A n \in NodeIds : nodes[n] \in NodeType
    BY Cursor DEF EmitLeaf, TreeTypes, NodeIds
  <2>3. info \in LeafInfo
    BY <2>2 DEF LeafInfo
  <2> HIDE DEF p
  <2>4. /\ node \in NodeType /\ node.children = nodes[p].children
        /\ \A kind \in Kinds : node.leaves[kind] = IF kind = type THEN new
                                                   ELSE nodes[p].leaves[kind]
    <3> HIDE DEF new
    <3>1. nodes[p] \in NodeType /\ new \in Nat
      BY <2>2
    <3> QED
      BY <3>1, WithLeafFacts
  <2> HIDE DEF node, info
  <2>5. /\ nodes' \in Seq(NodeType) /\ Len(nodes') = Len(nodes) /\ nodes'[p] = node
        /\ \A n \in NodeIds : n # p => nodes'[n] = nodes[n]
    BY <2>1, <2>2, <2>4 DEF NodeIds
  <2>6. /\ leaves' \in Seq(LeafInfo) /\ Len(leaves') = new
        /\ \A leaf \in LeafIds : leaves'[leaf] = leaves[leaf]
        /\ leaves'[new] = info
    BY <2>1, <2>2, <2>3 DEF LeafIds
  <2> HIDE DEF new
  <2>7. ASSUME NEW n \in NodeIds
        PROVE  /\ \A kind \in Kinds : nodes'[n].leaves[kind]
                    = IF n = p /\ kind = type THEN new ELSE nodes[n].leaves[kind]
               /\ nodes'[n].children = nodes[n].children
    BY <2>4, <2>5
  <2>8. LeafAdded(p, Key, type)
    BY <2>5, <2>6, <2>7 DEF LeafAdded, Child, LeafOf, new, info
  <2> QED
    BY <1>2, <2>1, <2>8 DEF p, new
<1> QED
  BY <1>1, <1>2

-----------------------------------------------------------------------------
(* What the steps keep of the tree.                                        *)

(* The new node is a leaf of the tree, without ids.                        *)
LEMMA AddedNode ==
  ASSUME TreeTypes, NEW p \in NodeIds, NEW key \in JsonKeys, NodeAdded(p, key)
  PROVE  /\ Len(nodes) \in Nat /\ NodeIds' = NodeIds \cup {Len(nodes) + 1}
         /\ Len(nodes) + 1 \notin NodeIds /\ LeafIds' = LeafIds
         /\ \A n \in NodeIds' : \A k \in JsonKeys :
              Child(n, k)' = IF n = p /\ k = key THEN Len(nodes) + 1
                             ELSE IF n = Len(nodes) + 1 THEN None ELSE Child(n, k)
         /\ \A n \in NodeIds' : \A kind \in Kinds :
              LeafOf(n, kind)' = IF n = Len(nodes) + 1 THEN None ELSE LeafOf(n, kind)
<1> DEFINE new == Len(nodes) + 1
<1>1. Len(nodes) \in Nat /\ Len(nodes') = new /\ leaves' = leaves
  BY DEF TreeTypes, NodeAdded
<1>2. NodeIds' = NodeIds \cup {new} /\ new \notin NodeIds /\ LeafIds' = LeafIds
  BY <1>1 DEF NodeIds, LeafIds
<1>3. ASSUME NEW n \in NodeIds'
      PROVE  /\ \A k \in JsonKeys :
                  Child(n, k)' = IF n = p /\ k = key THEN new
                                 ELSE IF n = new THEN None ELSE Child(n, k)
             /\ \A kind \in Kinds :
                  LeafOf(n, kind)' = IF n = new THEN None ELSE LeafOf(n, kind)
  <2>1. CASE n \in NodeIds
    BY <1>2, <2>1 DEF NodeAdded
  <2>2. CASE n = new
    <3>1. /\ \A k \in JsonKeys : Child(n, k)' = None
          /\ \A kind \in Kinds : LeafOf(n, kind)' = None
      BY <1>1, <2>2 DEF NodeAdded, Child, LeafOf
    <3> QED
      BY <1>2, <2>2, <3>1
  <2> QED
    BY <1>2, <2>1, <2>2
<1> QED
  BY <1>1, <1>2, <1>3

(* A new node keeps the tree a tree, and leaf ids where they are.          *)
LEMMA NodeAddedKeeps ==
  ASSUME TreeTypes, Tree, LeafPlaces, NEW p \in NodeIds, NEW key \in JsonKeys,
         Child(p, key) = None, NodeAdded(p, key)
  PROVE  (TreeTypes /\ Tree /\ LeafPlaces)'
<1> DEFINE new == Len(nodes) + 1
<1>1. /\ Len(nodes) \in Nat /\ NodeIds' = NodeIds \cup {new}
      /\ new \notin NodeIds /\ LeafIds' = LeafIds
  BY AddedNode
<1>2. /\ \A n \in NodeIds' : \A k \in JsonKeys :
           Child(n, k)' = IF n = p /\ k = key THEN new
                          ELSE IF n = new THEN None ELSE Child(n, k)
      /\ \A n \in NodeIds' : \A kind \in Kinds :
           LeafOf(n, kind)' = IF n = new THEN None ELSE LeafOf(n, kind)
  BY AddedNode
<1>3. /\ Len(nodes') = new /\ leaves' = leaves /\ nodes' \in Seq(NodeType)
  BY DEF NodeAdded
<1>4. /\ \A n \in NodeIds : \A k \in JsonKeys :
           Child(n, k) \in 0 .. Len(nodes) /\ Child(n, k) # new
      /\ \A n \in NodeIds : n \in 1 .. Len(nodes) /\ n < new
  BY <1>1 DEF TreeTypes, NodeIds
<1>5. TreeTypes'
  <2>1. ASSUME NEW n \in NodeIds', NEW k \in JsonKeys
        PROVE  Child(n, k)' \in 0 .. new
    BY <1>1, <1>2, <1>4 DEF None
  <2>2. ASSUME NEW n \in NodeIds', NEW kind \in Kinds
        PROVE  LeafOf(n, kind)' \in 0 .. Len(leaves)
    <3>1. Len(leaves) \in Nat
      BY DEF TreeTypes
    <3> QED
      BY <1>1, <1>2, <3>1 DEF None, TreeTypes
  <2>3. Len(nodes') >= 1 /\ leaves' \in Seq(LeafInfo)
    BY <1>1, <1>3 DEF TreeTypes
  <2> QED
    BY <1>3, <2>1, <2>2, <2>3 DEF TreeTypes
<1> HIDE DEF new
<1>6. Tree'
  <2>1. ASSUME NEW m \in NodeIds', NEW n \in NodeIds', NEW k \in JsonKeys, NEW j \in JsonKeys,
               Child(m, k)' # None, Child(m, k)' = Child(n, j)'
        PROVE  m = n /\ k = j
    BY <1>1, <1>2, <1>4, <2>1 DEF Tree
  <2>2. ASSUME NEW m \in NodeIds', NEW k \in JsonKeys, Child(m, k)' # None
        PROVE  m < Child(m, k)'
    BY <1>1, <1>2, <1>4, <2>2 DEF Tree
  <2>3. ASSUME NEW n \in NodeIds', n # Root
        PROVE  \E m \in NodeIds' : \E k \in JsonKeys : Child(m, k)' = n
    <3>1. CASE n = new
      BY <1>1, <1>2, <3>1
    <3>2. CASE n \in NodeIds
      <4>1. PICK m \in NodeIds, k \in JsonKeys : Child(m, k) = n
        BY <2>3, <3>2 DEF Tree
      <4>2. ~(m = p /\ k = key)
        BY <1>4, <3>2, <4>1 DEF None
      <4>3. Child(m, k)' = n
        BY <1>1, <1>2, <4>1, <4>2
      <4> QED
        BY <1>1, <4>3
    <3> QED
      BY <1>1, <3>1, <3>2
  <2> QED
    BY <2>1, <2>2, <2>3 DEF Tree
<1>7. LeafPlaces'
  <2>1. ASSUME NEW m \in NodeIds', NEW n \in NodeIds', NEW k \in Kinds, NEW j \in Kinds,
               LeafOf(m, k)' # None, LeafOf(m, k)' = LeafOf(n, j)'
        PROVE  m = n /\ k = j
    BY <1>1, <1>2, <2>1 DEF LeafPlaces
  <2>2. ASSUME NEW leaf \in LeafIds'
        PROVE  \E n \in NodeIds' : \E kind \in Kinds : LeafOf(n, kind)' = leaf
    <3>1. PICK n \in NodeIds, kind \in Kinds : LeafOf(n, kind) = leaf
      BY <1>1 DEF LeafPlaces
    <3>2. LeafOf(n, kind)' = leaf
      BY <1>1, <1>2, <3>1
    <3> QED
      BY <1>1, <3>2
  <2>3. ASSUME NEW n \in NodeIds', NEW kind \in Kinds, NEW leaf \in LeafIds',
               LeafOf(n, kind)' = leaf
        PROVE  /\ leaves'[leaf].kind = kind
               /\ \E m \in NodeIds' : \E k \in JsonKeys :
                    k = leaves'[leaf].key /\ Child(m, k)' = n
    <3>1. leaf # None /\ leaf \in LeafIds
      BY <1>1 DEF LeafIds, None, TreeTypes
    <3>2. n \in NodeIds /\ LeafOf(n, kind) = leaf
      BY <1>1, <1>2, <2>3, <3>1
    <3>3. PICK m \in NodeIds, k \in JsonKeys : k = leaves[leaf].key /\ Child(m, k) = n
      BY <3>1, <3>2 DEF LeafPlaces
    <3>4. ~(m = p /\ k = key)
      BY <1>4, <3>2, <3>3 DEF None
    <3>5. Child(m, k)' = n /\ m \in NodeIds'
      BY <1>1, <1>2, <3>3, <3>4
    <3>6. leaves[leaf].kind = kind
      BY <3>1, <3>2 DEF LeafPlaces
    <3> QED
      BY <1>3, <3>3, <3>5, <3>6
  <2> QED
    BY <2>1, <2>2, <2>3 DEF LeafPlaces
<1> QED
  BY <1>5, <1>6, <1>7

(* The new leaf has an id no other place has.                              *)
LEMMA AddedLeaf ==
  ASSUME TreeTypes, NEW p \in NodeIds, NEW key \in JsonKeys, NEW type \in Kinds,
         LeafAdded(p, key, type)
  PROVE  /\ Len(leaves) \in Nat /\ LeafIds' = LeafIds \cup {Len(leaves) + 1}
         /\ Len(leaves) + 1 \notin LeafIds /\ NodeIds' = NodeIds
         /\ None \notin LeafIds /\ Len(leaves) + 1 # None
         /\ \A n \in NodeIds : \A kind \in Kinds :
              LeafOf(n, kind) # None => LeafOf(n, kind) \in LeafIds
<1>1. Len(leaves) \in Nat /\ Len(leaves') = Len(leaves) + 1 /\ Len(nodes') = Len(nodes)
  BY DEF TreeTypes, LeafAdded
<1>2. ASSUME NEW n \in NodeIds, NEW kind \in Kinds, LeafOf(n, kind) # None
      PROVE  LeafOf(n, kind) \in LeafIds
  <2>1. LeafOf(n, kind) \in 0 .. Len(leaves)
    BY DEF TreeTypes
  <2> QED
    BY <1>1, <1>2, <2>1 DEF None, LeafIds
<1> QED
  BY <1>1, <1>2 DEF LeafIds, NodeIds, None

LEMMA LeafAddedKeeps ==
  ASSUME TreeTypes, Tree, LeafPlaces, NEW p \in NodeIds, NEW key \in JsonKeys,
         NEW type \in Kinds, NEW q \in NodeIds, Child(q, key) = p,
         LeafOf(p, type) = None, LeafAdded(p, key, type)
  PROVE  (TreeTypes /\ Tree /\ LeafPlaces)'
<1> DEFINE new == Len(leaves) + 1
<1>1. /\ Len(leaves) \in Nat /\ LeafIds' = LeafIds \cup {new}
      /\ new \notin LeafIds /\ NodeIds' = NodeIds
      /\ None \notin LeafIds /\ new # None
      /\ \A n \in NodeIds : \A kind \in Kinds :
           LeafOf(n, kind) # None => LeafOf(n, kind) \in LeafIds
  BY AddedLeaf
<1>2. /\ \A n \in NodeIds : \A k \in JsonKeys : Child(n, k)' = Child(n, k)
      /\ \A n \in NodeIds : \A kind \in Kinds :
           LeafOf(n, kind)' = IF n = p /\ kind = type THEN new ELSE LeafOf(n, kind)
      /\ \A leaf \in LeafIds : leaves'[leaf] = leaves[leaf]
      /\ leaves'[new] = [key |-> key, kind |-> type]
      /\ Len(nodes') = Len(nodes) /\ nodes' \in Seq(NodeType)
      /\ Len(leaves') = new /\ leaves' \in Seq(LeafInfo)
  BY DEF LeafAdded
<1>3. TreeTypes'
  <2>1. ASSUME NEW n \in NodeIds, NEW kind \in Kinds
        PROVE  LeafOf(n, kind)' \in 0 .. new
    <3>1. LeafOf(n, kind) \in 0 .. Len(leaves)
      BY DEF TreeTypes
    <3>2. LeafOf(n, kind) \in 0 .. new /\ new \in 0 .. new
      BY <1>1, <3>1
    <3> QED
      BY <1>2, <3>2
  <2>2. Len(nodes) >= 1 /\ \A n \in NodeIds : \A k \in JsonKeys : Child(n, k) \in 0 .. Len(nodes)
    BY DEF TreeTypes
  <2> HIDE DEF new
  <2> QED
    BY <1>1, <1>2, <2>1, <2>2 DEF TreeTypes
<1> HIDE DEF new
<1>4. Tree'
  BY <1>1, <1>2 DEF Tree
<1>5. LeafPlaces'
  <2>1. ASSUME NEW m \in NodeIds, NEW n \in NodeIds, NEW k \in Kinds, NEW j \in Kinds,
               LeafOf(m, k)' # None, LeafOf(m, k)' = LeafOf(n, j)'
        PROVE  m = n /\ k = j
    BY <1>1, <1>2, <2>1 DEF LeafPlaces
  <2>2. ASSUME NEW leaf \in LeafIds'
        PROVE  \E n \in NodeIds : \E kind \in Kinds : LeafOf(n, kind)' = leaf
    <3>1. CASE leaf = new
      BY <1>2, <3>1
    <3>2. CASE leaf \in LeafIds
      <4>1. PICK n \in NodeIds, kind \in Kinds : LeafOf(n, kind) = leaf
        BY <3>2 DEF LeafPlaces
      <4>2. ~(n = p /\ kind = type)
        BY <1>1, <3>2, <4>1
      <4> QED
        BY <1>2, <4>1, <4>2
    <3> QED
      BY <1>1, <3>1, <3>2
  <2>3. ASSUME NEW n \in NodeIds, NEW kind \in Kinds, NEW leaf \in LeafIds',
               LeafOf(n, kind)' = leaf
        PROVE  /\ leaves'[leaf].kind = kind
               /\ \E m \in NodeIds : \E k \in JsonKeys :
                    k = leaves'[leaf].key /\ Child(m, k)' = n
    <3>1. CASE n = p /\ kind = type
      <4>1. leaf = new
        BY <1>2, <2>3, <3>1
      <4>2. leaves'[leaf].kind = type /\ leaves'[leaf].key = key /\ Child(q, key)' = p
        BY <1>2, <4>1
      <4> QED
        BY <3>1, <4>2
    <3>2. CASE ~(n = p /\ kind = type)
      <4>1. LeafOf(n, kind) = leaf
        BY <1>2, <2>3, <3>2
      <4>2. leaf # None
        BY <1>1, <2>3
      <4>3. leaf \in LeafIds
        BY <1>1, <4>1, <4>2
      <4>4. PICK m \in NodeIds, k \in JsonKeys : k = leaves[leaf].key /\ Child(m, k) = n
        BY <4>1, <4>3 DEF LeafPlaces
      <4>5. leaves[leaf].kind = kind
        BY <4>1, <4>3 DEF LeafPlaces
      <4> QED
        BY <1>2, <4>3, <4>4, <4>5
    <3> QED
      BY <3>1, <3>2
  <2> QED
    BY <1>1, <2>1, <2>2, <2>3 DEF LeafPlaces
<1> QED
  BY <1>3, <1>4, <1>5

(* A tree that stays as it is.                                             *)
LEMMA SameTree ==
  ASSUME UNCHANGED treeVars
  PROVE  /\ NodeIds' = NodeIds /\ LeafIds' = LeafIds
         /\ \A n, k : Child(n, k)' = Child(n, k)
         /\ \A n, kind : LeafOf(n, kind)' = LeafOf(n, kind)
         /\ TreeTypes /\ Tree /\ LeafPlaces => (TreeTypes /\ Tree /\ LeafPlaces)'
         /\ \A P : PathsAre(P) => PathsAre(P)'
         /\ \A P, set, ids : IsShape(P, set, ids) => IsShape(P, set, ids)'
<1>1. nodes' = nodes /\ leaves' = leaves
  BY DEF treeVars
<1> QED
  BY <1>1 DEF NodeIds, LeafIds, Child, LeafOf, TreeTypes, Tree, LeafPlaces, PathsAre, IsShape

(* The keys that lead to a new node are those that lead to its parent and  *)
(* its own: no other node has them.  Shapes of documents stay the same.    *)
LEMMA NodeAddedPaths ==
  ASSUME TreeTypes, Tree, NEW p \in NodeIds, NEW key \in JsonKeys,
         Child(p, key) = None, NodeAdded(p, key), NEW P, PathsAre(P)
  PROVE  \E Q : /\ PathsAre(Q)' /\ \A n \in NodeIds : Q[n] = P[n]
                /\ \A set : \A ids \in SUBSET LeafIds :
                     IsShape(P, set, ids) => IsShape(Q, set, ids)'
<1> DEFINE new == Len(nodes) + 1
<1>1. /\ Len(nodes) \in Nat /\ NodeIds' = NodeIds \cup {new}
      /\ new \notin NodeIds /\ LeafIds' = LeafIds
      /\ \A n \in NodeIds' : \A k \in JsonKeys :
           Child(n, k)' = IF n = p /\ k = key THEN new
                          ELSE IF n = new THEN None ELSE Child(n, k)
      /\ \A n \in NodeIds' : \A kind \in Kinds :
           LeafOf(n, kind)' = IF n = new THEN None ELSE LeafOf(n, kind)
  BY AddedNode
<1>2. /\ P \in [NodeIds -> Seq(JsonKeys)] /\ P[Root] = << >>
      /\ \A n \in NodeIds : P[n] \in Seq(JsonKeys)
      /\ \A n \in NodeIds : \A k \in JsonKeys :
           Child(n, k) # None => P[Child(n, k)] = Append(P[n], k)
      /\ \A n, m \in NodeIds : P[n] = P[m] => n = m
  BY DEF PathsAre
<1>3. /\ \A n \in NodeIds : \A k \in JsonKeys :
           Child(n, k) # None => Child(n, k) \in NodeIds
      /\ Root \in NodeIds /\ None \notin LeafIds
  <2>1. ASSUME NEW n \in NodeIds, NEW k \in JsonKeys, Child(n, k) # None
        PROVE  Child(n, k) \in NodeIds
    <3>1. Child(n, k) \in 0 .. Len(nodes)
      BY DEF TreeTypes
    <3> QED
      BY <1>1, <2>1, <3>1 DEF None, NodeIds
  <2> QED
    BY <1>1, <2>1 DEF TreeTypes, NodeIds, LeafIds, Root, None
<1> HIDE DEF new
<1>4. Append(P[p], key) \in Seq(JsonKeys)
  BY <1>2
<1>5. PICK Q : Q = [n \in NodeIds' |-> IF n = new THEN Append(P[p], key) ELSE P[n]]
  OBVIOUS
<1>6. /\ Q[new] = Append(P[p], key) /\ \A n \in NodeIds : Q[n] = P[n]
      /\ Q \in [NodeIds' -> Seq(JsonKeys)]
  BY <1>1, <1>2, <1>4, <1>5
<1>7. ASSUME NEW n \in NodeIds PROVE P[n] # Append(P[p], key)
  <2> SUFFICES ASSUME P[n] = Append(P[p], key) PROVE FALSE
    OBVIOUS
  <2>1. P[n] # << >>
    BY <1>2, AppendNotEmpty
  <2>2. n # Root
    BY <1>2, <2>1
  <2>3. PICK m \in NodeIds, k \in JsonKeys : Child(m, k) = n
    BY <2>2 DEF Tree
  <2>4. n # None
    BY DEF NodeIds, None
  <2>5. P[n] = Append(P[m], k)
    BY <1>2, <2>3, <2>4
  <2>6. P[m] \in Seq(JsonKeys) /\ P[p] \in Seq(JsonKeys) /\ Append(P[m], k) = Append(P[p], key)
    BY <1>2, <2>5
  <2>7. P[m] = P[p] /\ k = key
    <3>1. k \in JsonKeys /\ key \in JsonKeys
      BY <2>3
    <3>2. \A s, t \in Seq(JsonKeys) :
            Append(s, k) = Append(t, key) => s = t /\ k = key
      BY <3>1, PathsInjective
    <3> DEFINE a == P[m]
               b == P[p]
    <3>3. a \in Seq(JsonKeys) /\ b \in Seq(JsonKeys) /\ Append(a, k) = Append(b, key)
      BY <2>6, Zenon
    <3> HIDE DEF a, b
    <3>4. a = b /\ k = key
      BY <3>2, <3>3, Zenon
    <3> QED
      BY <3>4 DEF a, b
  <2>8. m = p
    BY <1>2, <2>7
  <2> QED
    BY <2>3, <2>4, <2>7, <2>8
<1>8. PathsAre(Q)'
  <2>1. ASSUME NEW n \in NodeIds', NEW k \in JsonKeys, NEW c, c = Child(n, k)', c # None
        PROVE  Q[c] = Append(Q[n], k)
    <3>1. CASE n = p /\ k = key
      BY <1>1, <1>6, <2>1, <3>1
    <3>2. CASE ~(n = p /\ k = key)
      <4>1. n \in NodeIds /\ c = Child(n, k)
        BY <1>1, <2>1, <3>2
      <4> QED
        BY <1>2, <1>3, <1>6, <2>1, <4>1
    <3> QED
      BY <3>1, <3>2
  <2>2. ASSUME NEW n \in NodeIds', NEW m \in NodeIds', Q[n] = Q[m]
        PROVE  n = m
    BY <1>1, <1>2, <1>6, <1>7, <2>2
  <2>3. Q[Root] = << >>
    BY <1>2, <1>3, <1>6
  <2>4. \A n \in NodeIds' : \A k \in JsonKeys :
          Child(n, k)' # None => Q[Child(n, k)'] = Append(Q[n], k)
    BY <2>1
  <2> QED
    BY <1>6, <2>2, <2>3, <2>4 DEF PathsAre
<1>9. ASSUME NEW set, NEW ids \in SUBSET LeafIds, IsShape(P, set, ids)
      PROVE  IsShape(Q, set, ids)'
  <2>1. ASSUME NEW n \in NodeIds', NEW kind \in Kinds, LeafOf(n, kind)' \in ids
        PROVE  n \in NodeIds /\ LeafOf(n, kind) \in ids /\ Q[n] = P[n]
    BY <1>1, <1>3, <1>6, <2>1
  <2>2. ASSUME NEW n \in NodeIds, NEW kind \in Kinds, LeafOf(n, kind) \in ids
        PROVE  n \in NodeIds' /\ LeafOf(n, kind)' \in ids /\ Q[n] = P[n]
    BY <1>1, <1>6, <2>2
  <2> QED
    BY <1>9, <2>1, <2>2 DEF IsShape
<1> QED
  BY <1>6, <1>8, <1>9

(* A new leaf does not change what earlier documents are, and adds one     *)
(* path and kind to what a document with its id is.                        *)
LEMMA LeafAddedPaths ==
  ASSUME TreeTypes, NEW p \in NodeIds, NEW key \in JsonKeys, NEW type \in Kinds,
         LeafOf(p, type) = None, LeafAdded(p, key, type), NEW P, PathsAre(P)
  PROVE  /\ PathsAre(P)'
         /\ \A set : \A ids \in SUBSET LeafIds : IsShape(P, set, ids) =>
              /\ IsShape(P, set, ids)'
              /\ \A new : new = Len(leaves) + 1 =>
                   IsShape(P, set \cup {<<P[p], type>>}, ids \cup {new})'
<1>1. /\ NodeIds' = NodeIds /\ Len(leaves) + 1 \notin LeafIds /\ None \notin LeafIds
      /\ \A n \in NodeIds : \A kind \in Kinds :
           LeafOf(n, kind) # None => LeafOf(n, kind) \in LeafIds
      /\ Len(leaves) + 1 # None
  BY AddedLeaf
<1>2. /\ \A n \in NodeIds : \A k \in JsonKeys : Child(n, k)' = Child(n, k)
      /\ \A n \in NodeIds : \A kind \in Kinds :
           LeafOf(n, kind)' = IF n = p /\ kind = type THEN Len(leaves) + 1
                              ELSE LeafOf(n, kind)
  BY DEF LeafAdded
<1>3. PathsAre(P)'
  BY <1>1, <1>2 DEF PathsAre
<1>4. ASSUME NEW set, NEW ids \in SUBSET LeafIds, IsShape(P, set, ids),
             NEW new, new = Len(leaves) + 1
      PROVE  IsShape(P, set, ids)' /\ IsShape(P, set \cup {<<P[p], type>>}, ids \cup {new})'
  <2>1. new \notin ids /\ None \notin ids
    BY <1>1, <1>4
  <2>2. ASSUME NEW n \in NodeIds, NEW kind \in Kinds
        PROVE  /\ LeafOf(n, kind)' \in ids <=> LeafOf(n, kind) \in ids
               /\ LeafOf(n, kind)' = new <=> n = p /\ kind = type
    BY <1>1, <1>2, <1>4, <2>1
  <2>3. IsShape(P, set, ids)'
    BY <1>1, <1>4, <2>2 DEF IsShape
  <2>4. IsShape(P, set \cup {<<P[p], type>>}, ids \cup {new})'
    <3> SUFFICES ASSUME NEW q
                 PROVE  q \in set \cup {<<P[p], type>>}
                          <=> \E n \in NodeIds' : \E kind \in Kinds :
                                q = <<P[n], kind>> /\ LeafOf(n, kind)' \in ids \cup {new}
      BY DEF IsShape
    <3>1. q \in set <=> \E n \in NodeIds : \E kind \in Kinds :
                          q = <<P[n], kind>> /\ LeafOf(n, kind) \in ids
      BY <1>4 DEF IsShape
    <3>2. q = <<P[p], type>> <=> \E n \in NodeIds : \E kind \in Kinds :
                                   q = <<P[n], kind>> /\ LeafOf(n, kind)' = new
      BY <2>2
    <3> QED
      BY <1>1, <2>2, <3>1, <3>2
  <2> QED
    BY <2>3, <2>4
<1>5. \E new : new = Len(leaves) + 1
  OBVIOUS
<1> QED
  BY <1>3, <1>4, <1>5

-----------------------------------------------------------------------------
(* The invariant, step by step.                                            *)

(* The ids noted so far, and one more.                                     *)
LEMMA IdsFacts ==
  /\ ToSet(<< >>) = {}
  /\ \A S : \A s \in Seq(S) : \A e \in S : ToSet(Append(s, e)) = ToSet(s) \cup {e}
  /\ \A S : \A s \in Seq(S) : ToSet(s) \in SUBSET S
<1>1. ToSet(<< >>) = {}
  BY DEF ToSet
<1>2. ASSUME NEW S, NEW s \in Seq(S), NEW e \in S
      PROVE  ToSet(Append(s, e)) = ToSet(s) \cup {e}
  <2>1. /\ DOMAIN s = 1 .. Len(s) /\ DOMAIN Append(s, e) = 1 .. Len(s) + 1
        /\ Len(s) \in Nat /\ Append(s, e)[Len(s) + 1] = e
        /\ \A i \in 1 .. Len(s) : Append(s, e)[i] = s[i]
    OBVIOUS
  <2>2. 1 .. Len(s) + 1 = (1 .. Len(s)) \cup {Len(s) + 1}
    BY <2>1
  <2> QED
    BY <2>1, <2>2 DEF ToSet
<1>3. ASSUME NEW S, NEW s \in Seq(S)
      PROVE  ToSet(s) \in SUBSET S
  BY DEF ToSet
<1> QED
  BY <1>1, <1>2, <1>3

(* At first there is the root, which no keys lead to, and no document.     *)
LEMMA InitInv == Init => SchemaInv
<1> SUFFICES ASSUME Init PROVE SchemaInv
  OBVIOUS
<1>1. /\ nodes = <<EmptyNode>> /\ leaves = << >> /\ open = << >> /\ out = << >>
      /\ entry = NoEntry /\ shape = {} /\ schemas = {}
  BY DEF Init
<1>2. EmptyNode \in NodeType
  BY DEF EmptyNode, NodeType, None
<1>3. /\ Len(nodes) = 1 /\ nodes \in Seq(NodeType) /\ NodeIds = {Root}
      /\ Len(leaves) = 0 /\ LeafIds = {} /\ nodes[Root] = EmptyNode
  BY <1>1, <1>2 DEF NodeIds, LeafIds, Root
<1>4. /\ \A k \in JsonKeys : Child(Root, k) = None
      /\ \A kind \in Kinds : LeafOf(Root, kind) = None
  BY <1>3 DEF Child, LeafOf, EmptyNode
<1>5. TreeTypes
  BY <1>1, <1>3, <1>4 DEF TreeTypes, None
<1>6. Tree /\ LeafPlaces
  BY <1>3, <1>4 DEF Tree, LeafPlaces
<1>7. DocTypes /\ OpenChain
  BY <1>1 DEF DocTypes, AtValue, OpenChain
<1>8. PICK P : P = [n \in NodeIds |-> << >>]
  OBVIOUS
<1>9. PathsAre(P)
  BY <1>3, <1>4, <1>8 DEF PathsAre
<1>10. IsShape(P, shape, ToSet(out))
  BY <1>1, IdsFacts DEF IsShape
<1>11. DocumentsAre(P)
  BY <1>1, <1>10 DEF DocumentsAre
<1> QED
  BY <1>5, <1>6, <1>7, <1>9, <1>11 DEF SchemaInv, TreeInv

(* Shapes of no leaves, for documents that begin.                          *)
LEMMA NoShape == \A P : IsShape(P, {}, ToSet(<< >>))
  BY IdsFacts DEF IsShape

LEMMA StartDocumentInv ==
  ASSUME SchemaInv, StartDocument
  PROVE  SchemaInv'
<1> PICK P : PathsAre(P) /\ DocumentsAre(P)
  BY DEF SchemaInv
<1>1. /\ open = << >> /\ open' = <<Root>> /\ out' = << >> /\ path' = << >> /\ shape' = {}
      /\ UNCHANGED treeVars /\ entry' = entry /\ schemas' = schemas
  BY DEF StartDocument
<1>2. TreeTypes /\ DocTypes /\ Tree /\ LeafPlaces
  BY DEF SchemaInv, TreeInv
<1>3. (TreeTypes /\ Tree /\ LeafPlaces)' /\ PathsAre(P)'
  BY <1>1, <1>2, SameTree
<1>4. NodeIds' = NodeIds /\ LeafIds' = LeafIds /\ Root \in NodeIds
  BY <1>1, <1>2, SameTree DEF TreeTypes, NodeIds, Root
<1>5. entry = NoEntry
  BY <1>1, <1>2 DEF DocTypes, AtValue
<1>6. DocTypes' /\ OpenChain'
  <2>1. open' \in Seq(NodeIds) /\ Len(open') = 1 /\ out' \in Seq(LeafIds)
    BY <1>1, <1>4
  <2> QED
    BY <1>1, <1>4, <1>5, <2>1 DEF DocTypes, OpenChain, AtValue
<1>7. IsShape(P, {}, ToSet(<< >>))' /\ \A s \in schemas : IsShape(P, s.shape, s.id)'
  <2>1. \A s \in schemas : IsShape(P, s.shape, s.id)
    BY DEF DocumentsAre
  <2> QED
    BY <1>1, <2>1, SameTree, NoShape
<1>8. DocumentsAre(P)'
  <2>1. path' = P[open'[Len(open')]]
    BY <1>1 DEF PathsAre
  <2> QED
    BY <1>1, <1>4, <1>7, <2>1 DEF DocumentsAre, Innermost
<1> QED
  BY <1>3, <1>6, <1>8 DEF SchemaInv, TreeInv

LEMMA NextKeyInv ==
  ASSUME SchemaInv, NEW key \in JsonKeys, NextKey(key)
  PROVE  SchemaInv'
<1> PICK P : PathsAre(P) /\ DocumentsAre(P)
  BY DEF SchemaInv
<1>1. /\ open # << >> /\ open' = open /\ out' = out /\ path' = path /\ shape' = shape
      /\ schemas' = schemas
  BY DEF NextKey, InObject
<1>2. TreeTypes /\ DocTypes /\ Tree /\ LeafPlaces /\ OpenChain
  BY DEF SchemaInv, TreeInv
<1>3. PICK p \in NodeIds : p = Innermost
  BY <1>1, <1>2, Cursor
<1>4. p = open'[Len(open')] /\ path = P[p]
  BY <1>1, <1>3 DEF Innermost, DocumentsAre
<1>5. /\ IsShape(P, shape, ToSet(out)) /\ ToSet(out) \in SUBSET LeafIds
      /\ \A s \in schemas : s.id \in SUBSET LeafIds /\ IsShape(P, s.shape, s.id)
  <2>1. out \in Seq(LeafIds)
    BY <1>2 DEF DocTypes
  <2> QED
    BY <2>1, IdsFacts DEF DocumentsAre
<1>6. CASE Child(p, key) # None /\ UNCHANGED treeVars /\ entry' = <<key, Child(p, key)>>
  <2>1. /\ (TreeTypes /\ Tree /\ LeafPlaces)' /\ PathsAre(P)'
        /\ NodeIds' = NodeIds /\ LeafIds' = LeafIds
        /\ \A n, k : Child(n, k)' = Child(n, k)
    BY <1>2, <1>6, SameTree
  <2>2. Child(p, key) \in NodeIds
    <3>1. Child(p, key) \in 0 .. Len(nodes)
      BY <1>2 DEF TreeTypes
    <3> QED
      BY <1>6, <3>1 DEF NodeIds, None
  <2>3. DocTypes' /\ OpenChain'
    <3>1. OpenChain'
      BY <1>1, <1>2, <2>1 DEF OpenChain
    <3>2. open' \in Seq(NodeIds) /\ out' \in Seq(LeafIds)
      BY <1>1, <1>2 DEF DocTypes
    <3> QED
      BY <1>1, <1>4, <1>6, <2>1, <2>2, <3>1, <3>2 DEF DocTypes, Innermost
  <2>4. /\ IsShape(P, shape, ToSet(out))'
        /\ \A s \in schemas : IsShape(P, s.shape, s.id)'
    BY <1>1, <1>5, <1>6, SameTree DEF IsShape
  <2>5. DocumentsAre(P)'
    BY <1>1, <1>4, <1>5, <2>1, <2>4 DEF DocumentsAre, Innermost
  <2> QED
    BY <2>1, <2>3, <2>5 DEF SchemaInv, TreeInv
<1>7. CASE Child(p, key) = None /\ NodeAdded(p, key) /\ entry' = <<key, Len(nodes) + 1>>
  <2>1. (TreeTypes /\ Tree /\ LeafPlaces)'
    BY <1>2, <1>7, NodeAddedKeeps
  <2>2. PICK Q : /\ PathsAre(Q)' /\ \A n \in NodeIds : Q[n] = P[n]
                 /\ \A set : \A ids \in SUBSET LeafIds :
                      IsShape(P, set, ids) => IsShape(Q, set, ids)'
    BY <1>2, <1>7, NodeAddedPaths
  <2>3. PICK new : new = Len(nodes) + 1
    OBVIOUS
  <2>4. /\ NodeIds' = NodeIds \cup {new} /\ new \notin NodeIds /\ LeafIds' = LeafIds
        /\ \A n \in NodeIds' : \A k \in JsonKeys :
             Child(n, k)' = IF n = p /\ k = key THEN new
                            ELSE IF n = new THEN None ELSE Child(n, k)
    BY <1>2, <1>7, <2>3, AddedNode
  <2>5. OpenChain'
    <3> SUFFICES ASSUME NEW i \in 1 .. Len(open) - 1
                 PROVE  \E q, n \in NodeIds' : \E k \in JsonKeys :
                          q = open[i] /\ n = open[i + 1] /\ Child(q, k)' = n
      BY <1>1 DEF OpenChain
    <3>1. PICK q \in NodeIds, n \in NodeIds, k \in JsonKeys :
            q = open[i] /\ n = open[i + 1] /\ Child(q, k) = n
      BY <1>2 DEF OpenChain
    <3>2. ~(q = p /\ k = key)
      BY <1>7, <3>1 DEF NodeIds, None
    <3>3. Child(q, k)' = n
      BY <2>4, <3>1, <3>2
    <3> QED
      BY <2>4, <3>1, <3>3
  <2>6. DocTypes'
    <3>1. open \in Seq(NodeIds') /\ out \in Seq(LeafIds')
      <4>1. open \in Seq(NodeIds) /\ out \in Seq(LeafIds) /\ NodeIds \subseteq NodeIds'
        BY <1>2, <2>4 DEF DocTypes
      <4> QED
        BY <2>4, <4>1, SeqWiden
    <3>2. Child(p, key)' = new /\ new \in NodeIds' /\ p \in NodeIds'
      BY <2>4
    <3>3. entry' = <<key, new>>
      BY <1>7, <2>3
    <3> QED
      BY <1>1, <1>4, <3>1, <3>2, <3>3 DEF DocTypes, Innermost
  <2>7. /\ IsShape(Q, shape, ToSet(out))'
        /\ \A s \in schemas : IsShape(Q, s.shape, s.id)'
    <3>1. \A set, ids : set = shape /\ ids = ToSet(out) => IsShape(Q, set, ids)'
      BY <1>5, <2>2
    <3>2. IsShape(Q, shape, ToSet(out))'
      BY <1>1, <3>1 DEF IsShape
    <3> QED
      BY <1>1, <1>5, <2>2, <3>2
  <2>8. DocumentsAre(Q)'
    <3>1. path' = Q[open'[Len(open')]]
      BY <1>1, <1>4, <2>2
    <3> QED
      BY <1>1, <1>5, <2>4, <2>7, <3>1 DEF DocumentsAre, Innermost
  <2> QED
    BY <2>1, <2>2, <2>5, <2>6, <2>8 DEF SchemaInv, TreeInv
<1> QED
  BY <1>2, <1>3, <1>6, <1>7, NextKeyAdds

LEMMA EmitLeafInv ==
  ASSUME SchemaInv, NEW type \in Kinds, EmitLeaf(type)
  PROVE  SchemaInv'
<1> PICK P : PathsAre(P) /\ DocumentsAre(P)
  BY DEF SchemaInv
<1>1. /\ AtValue /\ open' = open /\ path' = path /\ schemas' = schemas
      /\ shape' = shape \cup {<<Append(path, Key), type>>} /\ entry' = NoEntry
  BY DEF EmitLeaf
<1>2. TreeTypes /\ DocTypes /\ Tree /\ LeafPlaces /\ OpenChain
  BY DEF SchemaInv, TreeInv
<1>3. PICK n \in NodeIds, key \in JsonKeys, p \in NodeIds :
        /\ n = Node /\ key = Key /\ p = Innermost /\ Child(p, key) = n
        /\ open # << >>
  BY <1>1, <1>2, Cursor
<1>4. /\ p = open'[Len(open')] /\ path = P[p] /\ Append(path, key) = P[n]
  <2>1. p = open'[Len(open')] /\ path = P[p]
    BY <1>1, <1>3 DEF Innermost, DocumentsAre
  <2>2. n # None
    BY DEF NodeIds, None
  <2> QED
    BY <1>3, <2>1, <2>2 DEF PathsAre
<1>5. /\ IsShape(P, shape, ToSet(out)) /\ ToSet(out) \in SUBSET LeafIds
      /\ \A s \in schemas : s.id \in SUBSET LeafIds /\ IsShape(P, s.shape, s.id)
      /\ out \in Seq(LeafIds)
  <2>1. out \in Seq(LeafIds)
    BY <1>2 DEF DocTypes
  <2> QED
    BY <2>1, IdsFacts DEF DocumentsAre
<1>6. shape' = shape \cup {<<P[n], type>>}
  BY <1>1, <1>3, <1>4
<1>7. ~AtValue'
  BY <1>1 DEF AtValue
<1>8. CASE LeafOf(n, type) # None /\ UNCHANGED treeVars /\ out' = Append(out, LeafOf(n, type))
  <2> DEFINE leaf == LeafOf(n, type)
  <2>1. /\ (TreeTypes /\ Tree /\ LeafPlaces)' /\ PathsAre(P)'
        /\ NodeIds' = NodeIds /\ LeafIds' = LeafIds
        /\ \A q, k : Child(q, k)' = Child(q, k)
        /\ \A q, k : LeafOf(q, k)' = LeafOf(q, k)
    BY <1>2, <1>8, SameTree
  <2>2. leaf \in LeafIds
    <3>1. leaf \in 0 .. Len(leaves) /\ Len(leaves) \in Nat
      BY <1>2 DEF TreeTypes
    <3> QED
      BY <1>8, <3>1 DEF LeafIds, None
  <2>3. out' \in Seq(LeafIds) /\ ToSet(out') = ToSet(out) \cup {leaf}
    <3>1. out' = Append(out, leaf)
      BY <1>8
    <3> HIDE DEF leaf
    <3>2. out' \in Seq(LeafIds)
      BY <1>5, <2>2, <3>1
    <3> QED
      BY <1>5, <2>2, <3>1, <3>2, IdsFacts
  <2>4. DocTypes' /\ OpenChain'
    <3>1. OpenChain'
      BY <1>1, <1>2, <2>1 DEF OpenChain
    <3> QED
      BY <1>1, <1>2, <1>7, <2>1, <2>3, <3>1 DEF DocTypes
  <2>5. \A s \in schemas : IsShape(P, s.shape, s.id)'
    BY <1>5, <1>8, SameTree
  <2>6. IsShape(P, shape, ToSet(out))'
    <3>1. ASSUME NEW q
          PROVE  q \in shape' <=> \E m \in NodeIds : \E kind \in Kinds :
                                    q = <<P[m], kind>> /\ LeafOf(m, kind) \in ToSet(out')
      <4>1. q \in shape <=> \E m \in NodeIds : \E kind \in Kinds :
                              q = <<P[m], kind>> /\ LeafOf(m, kind) \in ToSet(out)
        BY <1>5 DEF IsShape
      <4>2. \A m \in NodeIds : \A kind \in Kinds :
              LeafOf(m, kind) = leaf <=> m = n /\ kind = type
        BY <1>2, <1>8 DEF LeafPlaces
      <4>3. q = <<P[n], type>> <=> \E m \in NodeIds : \E kind \in Kinds :
                                     q = <<P[m], kind>> /\ LeafOf(m, kind) = leaf
        BY <4>2
      <4> HIDE DEF leaf
      <4> QED
        BY <1>6, <2>3, <4>1, <4>3
    <3> QED
      BY <2>1, <3>1 DEF IsShape
  <2>7. DocumentsAre(P)'
    BY <1>1, <1>4, <1>5, <2>1, <2>5, <2>6 DEF DocumentsAre, Innermost
  <2> QED
    BY <2>1, <2>4, <2>7 DEF SchemaInv, TreeInv
<1>9. CASE LeafOf(n, type) = None /\ LeafAdded(n, key, type) /\ out' = Append(out, Len(leaves) + 1)
  <2>1. (TreeTypes /\ Tree /\ LeafPlaces)'
    BY <1>2, <1>3, <1>9, LeafAddedKeeps
  <2>2. PICK new : new = Len(leaves) + 1
    OBVIOUS
  <2>3. /\ LeafIds' = LeafIds \cup {new} /\ NodeIds' = NodeIds
        /\ \A q \in NodeIds : \A k \in JsonKeys : Child(q, k)' = Child(q, k)
    BY <1>2, <1>9, <2>2, AddedLeaf DEF LeafAdded
  <2>4. /\ PathsAre(P)'
        /\ \A set : \A ids \in SUBSET LeafIds : IsShape(P, set, ids) =>
             /\ IsShape(P, set, ids)'
             /\ IsShape(P, set \cup {<<P[n], type>>}, ids \cup {new})'
    BY <1>2, <1>9, <2>2, LeafAddedPaths
  <2>5. out' \in Seq(LeafIds') /\ ToSet(out') = ToSet(out) \cup {new}
    <3>1. out \in Seq(LeafIds')
      BY <1>5, <2>3, SeqWiden
    <3>2. out' = Append(out, new) /\ new \in LeafIds'
      BY <1>9, <2>2, <2>3
    <3>3. out' \in Seq(LeafIds')
      BY <3>1, <3>2
    <3> QED
      BY <3>1, <3>2, <3>3, IdsFacts
  <2>6. DocTypes' /\ OpenChain'
    <3>1. OpenChain'
      BY <1>1, <1>2, <2>3 DEF OpenChain
    <3> QED
      BY <1>1, <1>2, <1>7, <2>3, <2>5, <3>1 DEF DocTypes
  <2>7. IsShape(P, shape, ToSet(out))'
    <3>1. \A set, ids : set = shape /\ ids = ToSet(out) =>
            IsShape(P, set \cup {<<P[n], type>>}, ids \cup {new})'
      BY <1>5, <2>4
    <3> QED
      BY <1>6, <2>5, <3>1 DEF IsShape
  <2>8. \A s \in schemas : IsShape(P, s.shape, s.id)'
    BY <1>5, <2>4
  <2>9. DocumentsAre(P)'
    BY <1>1, <1>4, <1>5, <2>3, <2>7, <2>8 DEF DocumentsAre, Innermost
  <2> QED
    BY <2>1, <2>4, <2>6, <2>9 DEF SchemaInv, TreeInv
<1> QED
  BY <1>2, <1>3, <1>8, <1>9, EmitLeafAdds

LEMMA OpenObjectInv ==
  ASSUME SchemaInv, OpenObject
  PROVE  SchemaInv'
<1> PICK P : PathsAre(P) /\ DocumentsAre(P)
  BY DEF SchemaInv
<1>1. /\ AtValue /\ open' = Append(open, Node) /\ path' = Append(path, Key)
      /\ entry' = NoEntry /\ UNCHANGED treeVars /\ out' = out /\ shape' = shape
      /\ schemas' = schemas
  BY DEF OpenObject
<1>2. TreeTypes /\ DocTypes /\ Tree /\ LeafPlaces /\ OpenChain
  BY DEF SchemaInv, TreeInv
<1>3. PICK n \in NodeIds, key \in JsonKeys, p \in NodeIds :
        /\ n = Node /\ key = Key /\ p = Innermost /\ Child(p, key) = n
        /\ open # << >>
  BY <1>1, <1>2, Cursor
<1>4. /\ (TreeTypes /\ Tree /\ LeafPlaces)' /\ PathsAre(P)'
      /\ NodeIds' = NodeIds /\ LeafIds' = LeafIds
      /\ \A q, k : Child(q, k)' = Child(q, k)
  BY <1>1, <1>2, SameTree
<1>5. /\ open \in Seq(NodeIds) /\ open' \in Seq(NodeIds) /\ Len(open) \in Nat
      /\ Len(open') = Len(open) + 1 /\ open'[Len(open) + 1] = n
      /\ \A i \in 1 .. Len(open) : open'[i] = open[i]
      /\ p = open[Len(open)] /\ Len(open) >= 1
  <2>1. open \in Seq(NodeIds)
    BY <1>2 DEF DocTypes
  <2> QED
    BY <1>1, <1>3, <2>1 DEF Innermost
<1>6. OpenChain'
  <2> SUFFICES ASSUME NEW i \in 1 .. Len(open)
               PROVE  \E q, m \in NodeIds : \E k \in JsonKeys :
                        q = open'[i] /\ m = open'[i + 1] /\ Child(q, k) = m
    BY <1>4, <1>5 DEF OpenChain
  <2>1. CASE i = Len(open)
    BY <1>3, <1>5, <2>1
  <2>2. CASE i \in 1 .. Len(open) - 1
    <3>1. open'[i] = open[i] /\ open'[i + 1] = open[i + 1]
      BY <1>5, <2>2
    <3> QED
      BY <1>2, <2>2, <3>1 DEF OpenChain
  <2> QED
    BY <1>5, <2>1, <2>2
<1>7. DocTypes'
  <2>1. out \in Seq(LeafIds)
    BY <1>2 DEF DocTypes
  <2> QED
    BY <1>1, <1>4, <1>5, <2>1 DEF DocTypes, AtValue
<1>8. path' = P[n]
  <2>1. path = P[p]
    BY <1>3 DEF DocumentsAre
  <2>2. n # None
    BY DEF NodeIds, None
  <2> QED
    BY <1>1, <1>3, <2>1, <2>2 DEF PathsAre
<1>9. IsShape(P, shape, ToSet(out))' /\ \A s \in schemas : IsShape(P, s.shape, s.id)'
  <2>1. IsShape(P, shape, ToSet(out)) /\ \A s \in schemas : IsShape(P, s.shape, s.id)
    BY DEF DocumentsAre
  <2> QED
    BY <1>1, <2>1, SameTree DEF IsShape
<1>10. DocumentsAre(P)'
  <2>1. path' = P[open'[Len(open')]]
    BY <1>5, <1>8
  <2> QED
    BY <1>1, <1>4, <1>9, <2>1 DEF DocumentsAre, Innermost
<1> QED
  BY <1>4, <1>6, <1>7, <1>10 DEF SchemaInv, TreeInv

LEMMA CloseObjectInv ==
  ASSUME SchemaInv, CloseObject
  PROVE  SchemaInv'
<1> PICK P : PathsAre(P) /\ DocumentsAre(P)
  BY DEF SchemaInv
<1>1. /\ entry = NoEntry /\ entry' = entry /\ Len(open) > 1 /\ open # << >>
      /\ open' = Front(open) /\ path' = Front(path)
      /\ UNCHANGED treeVars /\ out' = out /\ shape' = shape /\ schemas' = schemas
  BY DEF CloseObject, InObject
<1>2. TreeTypes /\ DocTypes /\ Tree /\ LeafPlaces /\ OpenChain
  BY DEF SchemaInv, TreeInv
<1>3. /\ (TreeTypes /\ Tree /\ LeafPlaces)' /\ PathsAre(P)'
      /\ NodeIds' = NodeIds /\ LeafIds' = LeafIds
      /\ \A q, k : Child(q, k)' = Child(q, k)
  BY <1>1, <1>2, SameTree
<1>4. /\ open \in Seq(NodeIds) /\ Len(open) \in Nat
      /\ open' \in Seq(NodeIds) /\ Len(open') = Len(open) - 1
      /\ \A i \in 1 .. Len(open) - 1 : open'[i] = open[i]
  <2>1. open \in Seq(NodeIds)
    BY <1>2 DEF DocTypes
  <2>2. open' = SubSeq(open, 1, Len(open) - 1)
    BY <1>1 DEF Front
  <2> QED
    BY <1>1, <2>1, <2>2
<1>5. PICK q \in NodeIds, n \in NodeIds, k \in JsonKeys :
        q = open[Len(open) - 1] /\ n = open[Len(open)] /\ Child(q, k) = n
  <2>1. Len(open) - 1 \in 1 .. Len(open) - 1 /\ (Len(open) - 1) + 1 = Len(open)
    BY <1>1, <1>4
  <2> QED
    BY <1>2, <2>1 DEF OpenChain
<1>6. path' = P[q]
  <2>1. path = P[n]
    BY <1>1, <1>5 DEF DocumentsAre, Innermost
  <2>2. n # None
    BY DEF NodeIds, None
  <2>3. P[n] = Append(P[q], k) /\ P[q] \in Seq(JsonKeys)
    BY <1>5, <2>2 DEF PathsAre
  <2> QED
    BY <1>1, <2>1, <2>3, FrontOfAppend
<1>7. OpenChain'
  <2> SUFFICES ASSUME NEW i \in 1 .. Len(open) - 2
               PROVE  \E p, m \in NodeIds : \E j \in JsonKeys :
                        p = open'[i] /\ m = open'[i + 1] /\ Child(p, j) = m
    BY <1>3, <1>4 DEF OpenChain
  <2>1. i \in 1 .. Len(open) - 1 /\ open'[i] = open[i] /\ open'[i + 1] = open[i + 1]
    BY <1>1, <1>4
  <2> QED
    BY <1>2, <2>1 DEF OpenChain
<1>8. DocTypes'
  <2>1. out \in Seq(LeafIds)
    BY <1>2 DEF DocTypes
  <2> QED
    BY <1>1, <1>3, <1>4, <2>1 DEF DocTypes, AtValue
<1>9. IsShape(P, shape, ToSet(out))' /\ \A s \in schemas : IsShape(P, s.shape, s.id)'
  <2>1. IsShape(P, shape, ToSet(out)) /\ \A s \in schemas : IsShape(P, s.shape, s.id)
    BY DEF DocumentsAre
  <2> QED
    BY <1>1, <2>1, SameTree DEF IsShape
<1>10. DocumentsAre(P)'
  <2>1. path' = P[open'[Len(open')]]
    BY <1>1, <1>4, <1>5, <1>6
  <2> QED
    BY <1>1, <1>3, <1>9, <2>1 DEF DocumentsAre, Innermost
<1> QED
  BY <1>3, <1>7, <1>8, <1>10 DEF SchemaInv, TreeInv

(* A document ends or fails: the tree stays, the next one begins with      *)
(* nothing.                                                                *)
LEMMA DocumentOverInv ==
  ASSUME SchemaInv, EndDocument \/ FailDocument
  PROVE  SchemaInv'
<1> PICK P : PathsAre(P) /\ DocumentsAre(P)
  BY DEF SchemaInv
<1>1. /\ open' = << >> /\ out' = << >> /\ shape' = {} /\ entry' = NoEntry
      /\ UNCHANGED treeVars
      /\ schemas' = schemas \/ schemas' = schemas \cup {[id |-> ToSet(out), shape |-> shape]}
  BY DEF EndDocument, FailDocument, InObject, SchemaId
<1>2. TreeTypes /\ DocTypes /\ Tree /\ LeafPlaces
  BY DEF SchemaInv, TreeInv
<1>3. /\ (TreeTypes /\ Tree /\ LeafPlaces)' /\ PathsAre(P)'
      /\ NodeIds' = NodeIds /\ LeafIds' = LeafIds
  BY <1>1, <1>2, SameTree
<1>4. DocTypes' /\ OpenChain'
  BY <1>1 DEF DocTypes, OpenChain, AtValue
<1>5. IsShape(P, shape, ToSet(out))'
  BY <1>1, IdsFacts DEF IsShape
<1>6. ASSUME NEW s \in schemas'
      PROVE  s.id \in SUBSET LeafIds /\ IsShape(P, s.shape, s.id)
  <2>1. CASE s \in schemas
    BY <2>1 DEF DocumentsAre
  <2>2. CASE s = [id |-> ToSet(out), shape |-> shape]
    <3>1. ToSet(out) \in SUBSET LeafIds
      BY <1>2, IdsFacts DEF DocTypes
    <3>2. s.id = ToSet(out) /\ s.shape = shape
      BY <2>2
    <3> QED
      BY <3>1, <3>2 DEF DocumentsAre
  <2> QED
    BY <1>1, <2>1, <2>2
<1>7. \A s \in schemas' : IsShape(P, s.shape, s.id)'
  BY <1>1, <1>6, SameTree
<1>8. DocumentsAre(P)'
  BY <1>1, <1>3, <1>5, <1>6, <1>7 DEF DocumentsAre
<1> QED
  BY <1>3, <1>4, <1>8 DEF SchemaInv, TreeInv

-----------------------------------------------------------------------------
(* The theorems.                                                           *)

(* The inductive invariant: some function tells the path of every node,    *)
(* and shapes of documents are what their ids select along these paths.    *)
THEOREM SchemaInvariant == Spec => []SchemaInv
<1>1. SchemaInv /\ [Next]_vars => SchemaInv'
  <2> SUFFICES ASSUME SchemaInv, [Next]_vars PROVE SchemaInv'
    OBVIOUS
  <2>1. CASE StartDocument
    BY <2>1, StartDocumentInv
  <2>2. CASE \E key \in JsonKeys : NextKey(key)
    BY <2>2, NextKeyInv
  <2>3. CASE \E kind \in Kinds : EmitLeaf(kind)
    BY <2>3, EmitLeafInv
  <2>4. CASE OpenObject
    BY <2>4, OpenObjectInv
  <2>5. CASE CloseObject
    BY <2>5, CloseObjectInv
  <2>6. CASE EndDocument \/ FailDocument
    BY <2>6, DocumentOverInv
  <2>7. CASE UNCHANGED vars
    <3> PICK P : PathsAre(P) /\ DocumentsAre(P)
      BY DEF SchemaInv
    <3>1. /\ UNCHANGED treeVars /\ open' = open /\ entry' = entry /\ out' = out
          /\ path' = path /\ shape' = shape /\ schemas' = schemas
      BY <2>7 DEF vars, docVars
    <3>2. /\ (TreeTypes /\ Tree /\ LeafPlaces)' /\ PathsAre(P)'
          /\ NodeIds' = NodeIds /\ LeafIds' = LeafIds
          /\ \A q, k : Child(q, k)' = Child(q, k)
      BY <3>1, SameTree DEF SchemaInv, TreeInv
    <3>3. DocTypes'
      BY <3>1, <3>2 DEF SchemaInv, TreeInv, DocTypes, AtValue, Innermost
    <3>4. OpenChain'
      BY <3>1, <3>2 DEF SchemaInv, TreeInv, OpenChain
    <3>5. IsShape(P, shape, ToSet(out))' /\ \A s \in schemas : IsShape(P, s.shape, s.id)'
      <4>1. IsShape(P, shape, ToSet(out)) /\ \A s \in schemas : IsShape(P, s.shape, s.id)
        BY DEF DocumentsAre
      <4> QED
        BY <3>1, <4>1, SameTree DEF IsShape
    <3>6. DocumentsAre(P)'
      BY <3>1, <3>2, <3>5 DEF DocumentsAre, Innermost
    <3> QED
      BY <3>2, <3>3, <3>4, <3>6 DEF SchemaInv, TreeInv
  <2> QED
    BY <2>1, <2>2, <2>3, <2>4, <2>5, <2>6, <2>7 DEF Next
<1> QED
  BY <1>1, InitInv, PTL DEF Spec

(* Nodes, leaves and the place in a document keep their types, for any     *)
(* documents.                                                              *)
THEOREM SchemaTreeTypeCorrect == Spec => []SchemaTreeTypeOK
<1>1. SchemaInv => SchemaTreeTypeOK
  <2> SUFFICES ASSUME SchemaInv PROVE SchemaTreeTypeOK
    OBVIOUS
  <2>1. TreeTypes /\ DocTypes
    BY DEF SchemaInv, TreeInv
  <2>2. ASSUME NEW n \in 1 .. Len(nodes)
        PROVE  /\ nodes[n].children \in [JsonKeys -> 0 .. Len(nodes)]
               /\ nodes[n].leaves \in [Kinds -> 0 .. Len(leaves)]
    <3>1. nodes[n] \in NodeType
      BY <2>1 DEF TreeTypes
    <3>2. nodes[n].children \in [JsonKeys -> Nat] /\ nodes[n].leaves \in [Kinds -> Nat]
      BY <3>1 DEF NodeType
    <3>3. \A k \in JsonKeys : nodes[n].children[k] \in 0 .. Len(nodes)
      BY <2>1 DEF TreeTypes, Child, NodeIds
    <3>4. \A kind \in Kinds : nodes[n].leaves[kind] \in 0 .. Len(leaves)
      BY <2>1 DEF TreeTypes, LeafOf, NodeIds
    <3> QED
      BY <3>2, <3>3, <3>4
  <2>3. AtValue => entry \in JsonKeys \X (1 .. Len(nodes))
    BY <2>1 DEF DocTypes, NodeIds
  <2> QED
    BY <2>1, <2>2, <2>3 DEF SchemaTreeTypeOK, TreeTypes, DocTypes, NodeIds, LeafIds, LeafInfo
<1> QED
  BY <1>1, SchemaInvariant, PTL

(* Whichever documents fail, every node but the root is the child of       *)
(* exactly one node, under one key, and was made after it.                 *)
THEOREM NodesStayTree == Spec => []NodesFormTree
<1>1. SchemaInv => NodesFormTree
  <2> SUFFICES ASSUME SchemaInv, NEW n \in NodeIds
               PROVE  LET parents == {p \in NodeIds \X JsonKeys :
                                        nodes[p[1]].children[p[2]] = n}
                      IN  /\ Cardinality(parents) = IF n = Root THEN 0 ELSE 1
                          /\ \A p \in parents : p[1] < n
    BY DEF NodesFormTree, NodeIds
  <2> DEFINE parents == {p \in NodeIds \X JsonKeys : nodes[p[1]].children[p[2]] = n}
  <2>1. Tree
    BY DEF SchemaInv, TreeInv
  <2>2. n # None /\ n \in Nat /\ \A m \in NodeIds : m \in Nat /\ ~(m < Root)
    BY DEF NodeIds, None, Root
  <2>3. \A p \in parents : \E q \in NodeIds : \E k \in JsonKeys :
          p = <<q, k>> /\ p[1] = q /\ Child(q, k) = n
    BY DEF Child
  <2>4. \A p \in parents : p[1] < n
    <3> SUFFICES ASSUME NEW p \in parents PROVE p[1] < n
      OBVIOUS
    <3>1. PICK q \in NodeIds, k \in JsonKeys : p[1] = q /\ Child(q, k) = n
      BY <2>3
    <3> QED
      BY <2>1, <2>2, <3>1 DEF Tree
  <2>5. Cardinality(parents) = IF n = Root THEN 0 ELSE 1
    <3>1. CASE n = Root
      <4>1. parents = {}
        BY <2>2, <2>3, <2>4, <3>1
      <4> HIDE DEF parents
      <4> QED
        BY <3>1, <4>1, FS_EmptySet
    <3>2. CASE n # Root
      <4>1. PICK q \in NodeIds, k \in JsonKeys : Child(q, k) = n
        BY <2>1, <3>2 DEF Tree
      <4>2. <<q, k>> \in parents
        BY <4>1 DEF Child
      <4>3. ASSUME NEW p \in parents PROVE p = <<q, k>>
        <5>1. PICK m \in NodeIds, j \in JsonKeys : p = <<m, j>> /\ Child(m, j) = n
          BY <2>3
        <5>2. m = q /\ j = k
          BY <2>1, <2>2, <4>1, <5>1 DEF Tree
        <5> QED
          BY <5>1, <5>2
      <4> HIDE DEF parents
      <4>4. parents = {<<q, k>>}
        BY <4>2, <4>3
      <4> QED
        BY <3>2, <4>4, FS_Singleton
    <3> QED
      BY <3>1, <3>2
  <2> QED
    BY <2>4, <2>5
<1> QED
  BY <1>1, SchemaInvariant, PTL

(* Every leaf id stands at one node and kind, and leaf_info tells that     *)
(* kind and the key that leads there.                                      *)
THEOREM LeavesStayInterned == Spec => []LeavesInterned
<1>1. SchemaInv => LeavesInterned
  <2> SUFFICES ASSUME SchemaInv, NEW leaf \in LeafIds
               PROVE  LET places == {p \in NodeIds \X Kinds : nodes[p[1]].leaves[p[2]] = leaf}
                      IN  /\ Cardinality(places) = 1
                          /\ \A p \in places :
                               /\ leaves[leaf].kind = p[2]
                               /\ \E m \in NodeIds :
                                    nodes[m].children[leaves[leaf].key] = p[1]
    BY DEF LeavesInterned, NodeIds, LeafIds
  <2> DEFINE places == {p \in NodeIds \X Kinds : nodes[p[1]].leaves[p[2]] = leaf}
  <2>1. LeafPlaces
    BY DEF SchemaInv, TreeInv
  <2>2. leaf # None
    BY DEF LeafIds, None
  <2>3. \A p \in places : p[1] \in NodeIds /\ p[2] \in Kinds /\ LeafOf(p[1], p[2]) = leaf
    BY DEF LeafOf
  <2>4. \A p \in places : /\ leaves[leaf].kind = p[2]
                          /\ \E m \in NodeIds : nodes[m].children[leaves[leaf].key] = p[1]
    <3>1. ASSUME NEW p \in places
          PROVE  /\ leaves[leaf].kind = p[2]
                 /\ \E m \in NodeIds : \E k \in JsonKeys :
                      k = leaves[leaf].key /\ Child(m, k) = p[1]
      BY <2>1, <2>3 DEF LeafPlaces
    <3> QED
      BY <3>1 DEF Child
  <2>5. PICK n \in NodeIds, kind \in Kinds : LeafOf(n, kind) = leaf
    BY <2>1 DEF LeafPlaces
  <2>6. places = {<<n, kind>>}
    <3>1. <<n, kind>> \in places
      BY <2>5 DEF LeafOf
    <3>2. \A p \in places : p[1] = n /\ p[2] = kind
      BY <2>1, <2>2, <2>3, <2>5 DEF LeafPlaces
    <3>3. \A p \in places : p = <<n, kind>>
      BY <3>2
    <3> QED
      BY <3>1, <3>3
  <2> HIDE DEF places
  <2>7. Cardinality(places) = 1
    BY <2>6, FS_Singleton
  <2> QED
    BY <2>4, <2>7 DEF places
<1> QED
  BY <1>1, SchemaInvariant, PTL

(* For any stream of documents, two have one schema id exactly if their    *)
(* leaves have the same paths and kinds.                                   *)
THEOREM SchemaIdsAlwaysIdentify == Spec => []SchemaIdsIdentify
<1>1. SchemaInv => SchemaIdsIdentify
  <2> SUFFICES ASSUME SchemaInv, NEW s \in schemas, NEW t \in schemas
               PROVE  s.id = t.id <=> s.shape = t.shape
    BY DEF SchemaIdsIdentify
  <2> PICK P : PathsAre(P) /\ DocumentsAre(P)
    BY DEF SchemaInv
  <2>1. /\ s.id \in SUBSET LeafIds /\ IsShape(P, s.shape, s.id)
        /\ t.id \in SUBSET LeafIds /\ IsShape(P, t.shape, t.id)
    BY DEF DocumentsAre
  <2>2. LeafPlaces
    BY DEF SchemaInv, TreeInv
  <2>3. ASSUME NEW a, NEW b, NEW S \in SUBSET LeafIds, NEW T \in SUBSET LeafIds,
               IsShape(P, a, S), IsShape(P, b, T), a = b
        PROVE  S \subseteq T
    <3> SUFFICES ASSUME NEW leaf \in S PROVE leaf \in T
      OBVIOUS
    <3>1. PICK n \in NodeIds, kind \in Kinds : LeafOf(n, kind) = leaf
      BY <2>2 DEF LeafPlaces
    <3>2. <<P[n], kind>> \in b
      BY <2>3, <3>1 DEF IsShape
    <3>3. PICK m \in NodeIds, k \in Kinds :
            <<P[n], kind>> = <<P[m], k>> /\ LeafOf(m, k) \in T
      BY <2>3, <3>2 DEF IsShape
    <3>4. m = n /\ k = kind
      BY <3>3 DEF PathsAre
    <3> QED
      BY <3>1, <3>3, <3>4
  <2>4. s.shape = t.shape => s.id = t.id
    <3> SUFFICES ASSUME s.shape = t.shape PROVE s.id = t.id
      OBVIOUS
    <3>1. s.id \subseteq t.id
      BY <2>1, <2>3
    <3>2. t.id \subseteq s.id
      BY <2>1, <2>3
    <3> QED
      BY <3>1, <3>2
  <2>5. s.id = t.id => s.shape = t.shape
    <3> SUFFICES ASSUME s.id = t.id PROVE s.shape = t.shape
      OBVIOUS
    <3>1. \A q : q \in s.shape <=> q \in t.shape
      BY <2>1 DEF IsShape
    <3> QED
      BY <3>1
  <2> QED
    BY <2>4, <2>5
<1> QED
  BY <1>1, SchemaInvariant, PTL

(* No step takes a node or a leaf id from its place.                       *)
THEOREM TreeNeverShrinks == Spec => TreeOnlyGrows
<1> DEFINE Kept == [Grows]_vars
<1>1. SchemaInv /\ [Next]_vars => Kept
  <2> SUFFICES ASSUME SchemaInv, [Next]_vars PROVE Kept
    OBVIOUS
  <2>1. TreeTypes /\ DocTypes
    BY DEF SchemaInv, TreeInv
  <2>2. Len(nodes) \in Nat /\ Len(leaves) \in Nat
    BY <2>1 DEF TreeTypes
  <2>3. ASSUME UNCHANGED treeVars PROVE Grows
    BY <2>2, <2>3 DEF Grows, treeVars
  <2>4. ASSUME NEW p \in NodeIds, NEW key \in JsonKeys, Child(p, key) = None,
               NodeAdded(p, key)
        PROVE  Grows
    <3>1. /\ Len(nodes') = Len(nodes) + 1 /\ leaves' = leaves
          /\ \A n \in 1 .. Len(nodes) : \A k \in JsonKeys :
               nodes[n].children[k] # None => nodes'[n].children[k] = nodes[n].children[k]
          /\ \A n \in 1 .. Len(nodes) : \A kind \in Kinds :
               nodes'[n].leaves[kind] = nodes[n].leaves[kind]
      BY <2>4 DEF NodeAdded, Child, LeafOf, NodeIds
    <3> QED
      BY <2>2, <3>1 DEF Grows
  <2>5. ASSUME NEW p \in NodeIds, NEW key, NEW type \in Kinds, LeafOf(p, type) = None,
               LeafAdded(p, key, type)
        PROVE  Grows
    <3>1. /\ Len(nodes') = Len(nodes) /\ Len(leaves') = Len(leaves) + 1
          /\ \A leaf \in 1 .. Len(leaves) : leaves'[leaf] = leaves[leaf]
          /\ \A n \in 1 .. Len(nodes) : \A k \in JsonKeys :
               nodes'[n].children[k] = nodes[n].children[k]
          /\ \A n \in 1 .. Len(nodes) : \A kind \in Kinds :
               nodes[n].leaves[kind] # None => nodes'[n].leaves[kind] = nodes[n].leaves[kind]
      BY <2>5 DEF LeafAdded, Child, LeafOf, NodeIds, LeafIds
    <3> QED
      BY <2>2, <3>1 DEF Grows
  <2>6. CASE \E key \in JsonKeys : NextKey(key)
    <3>1. PICK key \in JsonKeys : NextKey(key)
      BY <2>6
    <3>2. Innermost \in NodeIds
      BY <2>1, <3>1, Cursor DEF NextKey, InObject
    <3> QED
      BY <2>1, <2>3, <2>4, <3>1, <3>2, NextKeyAdds
  <2>7. CASE \E kind \in Kinds : EmitLeaf(kind)
    <3>1. PICK type \in Kinds : EmitLeaf(type)
      BY <2>7
    <3>2. Node \in NodeIds
      BY <2>1, <3>1, Cursor DEF EmitLeaf
    <3> QED
      BY <2>1, <2>3, <2>5, <3>1, <3>2, EmitLeafAdds
  <2>8. CASE StartDocument \/ OpenObject \/ CloseObject \/ EndDocument \/ FailDocument
    BY <2>3, <2>8 DEF StartDocument, OpenObject, CloseObject, EndDocument, FailDocument
  <2> QED
    BY <2>6, <2>7, <2>8 DEF Next
<1> QED
  BY <1>1, SchemaInvariant, PTL DEF Spec, TreeOnlyGrows
-----------------------------------------------------------------------------
(* Reconstruction: what the recursion from child to parent computes.       *)

(* A set of natural numbers has a least element.                           *)
LEMMA LeastElement ==
  ASSUME NEW T \in SUBSET Nat, T # {}
  PROVE  \E x \in T : \A y \in T : x <= y
<1> DEFINE Less == {p \in Nat \X Nat : p[1] < p[2]}
<1>1. IsWellFoundedOn(OpToRel(<, Nat), Nat)
  BY NatLessThanWellFounded, Zenon
<1>2. OpToRel(<, Nat) = Less
  BY Zenon DEF OpToRel
<1>3. IsWellFoundedOn(Less, Nat)
  BY <1>1, <1>2
<1>4. PICK x \in T : \A y \in T : ~(<<y, x>> \in Less)
  <2> HIDE DEF Less
  <2> QED
    BY <1>3, WFMin
<1>5. \A y \in T : ~(y < x)
  BY <1>4
<1> QED
  BY <1>5

\* The keys that lead on from one node to another.
Onwards(P, n, m, s) == P[m] = P[n] \o s

\* The leaves with these ids below a node, by the keys that lead there.
ShapeBelow(P, n, ids) ==
  {q \in Seq(JsonKeys) \X Kinds :
     \E m \in NodeIds : Onwards(P, n, m, q[1]) /\ LeafOf(m, q[2]) \in ids}

LEMMA EmptyPath ==
  ASSUME NEW s \in Seq(JsonKeys)
  PROVE  s \o << >> = s /\ << >> \o s = s
  OBVIOUS

LEMMA KeyInFront ==
  \A s, t \in Seq(JsonKeys) : \A k \in JsonKeys :
    Append(s, k) \o t = s \o (<<k>> \o t)
  OBVIOUS

LEMMA KeyBehind ==
  \A s, t \in Seq(JsonKeys) : \A k \in JsonKeys :
    s \o Append(t, k) = Append(s \o t, k)
  OBVIOUS

LEMMA PathSplits ==
  ASSUME NEW s \in Seq(JsonKeys), s # << >>
  PROVE  /\ s[1] \in JsonKeys /\ Tail(s) \in Seq(JsonKeys) /\ s = <<s[1]>> \o Tail(s)
         /\ Front(s) \in Seq(JsonKeys) /\ s[Len(s)] \in JsonKeys
         /\ s = Append(Front(s), s[Len(s)])
         /\ Front(s) # << >> => Front(s)[1] = s[1]
         /\ Front(s) = << >> => s[1] = s[Len(s)]
<1>1. Len(s) \in Nat \ {0}
  OBVIOUS
<1>2. s[1] \in JsonKeys /\ Tail(s) \in Seq(JsonKeys) /\ s = <<s[1]>> \o Tail(s)
  BY <1>1
<1>3. Front(s) = SubSeq(s, 1, Len(s) - 1) /\ Len(s) - 1 \in Nat
  BY <1>1 DEF Front
<1>4. /\ Front(s) \in Seq(JsonKeys) /\ Len(Front(s)) = Len(s) - 1
      /\ \A i \in 1 .. Len(s) - 1 : Front(s)[i] = s[i]
  <2>1. PICK e \in Nat : e = Len(s) - 1 /\ e < Len(s)
    BY <1>1, <1>3
  <2>2. /\ SubSeq(s, 1, e) \in Seq(JsonKeys) /\ Len(SubSeq(s, 1, e)) = e
        /\ \A i \in 1 .. e : SubSeq(s, 1, e)[i] = s[i]
    BY <1>1, <2>1
  <2> QED
    BY <1>3, <2>1, <2>2
<1>5. s[Len(s)] \in JsonKeys
  BY <1>1
<1>6. s = Append(Front(s), s[Len(s)])
  <2>1. Append(Front(s), s[Len(s)]) \in Seq(JsonKeys)
        /\ Len(Append(Front(s), s[Len(s)])) = Len(s)
    BY <1>1, <1>4, <1>5
  <2>2. \A i \in 1 .. Len(s) : Append(Front(s), s[Len(s)])[i] = s[i]
    BY <1>1, <1>4, <1>5
  <2> QED
    BY <2>1, <2>2, SeqEqual
<1>7. Front(s) # << >> => Front(s)[1] = s[1]
  BY <1>1, <1>4
<1>8. Front(s) = << >> => s[1] = s[Len(s)]
  <2>1. Front(s) = << >> => Len(Front(s)) = 0
    OBVIOUS
  <2>2. Front(s) = << >> => Len(s) = 1
    BY <1>1, <1>4, <2>1
  <2> QED
    BY <2>2
<1> QED
  BY <1>2, <1>4, <1>5, <1>6, <1>7, <1>8

(* A node that a path from n leads to is n or below n's child under the    *)
(* first key of the path: no node on the way is missing.                   *)
LEMMA WayExists ==
  ASSUME TreeTypes, Tree, NEW P, PathsAre(P), NEW n \in NodeIds, NEW m \in NodeIds,
         NEW s \in Seq(JsonKeys), s # << >>, Onwards(P, n, m, s)
  PROVE  Child(n, s[1]) # None
<1> DEFINE Stray(x) == \E t \in Seq(JsonKeys) :
                         t # << >> /\ Onwards(P, n, x, t) /\ Child(n, t[1]) = None
           T == {x \in NodeIds : Stray(x)}
<1> SUFFICES ASSUME Child(n, s[1]) = None PROVE FALSE
  OBVIOUS
<1>1. T \in SUBSET Nat /\ T # {} /\ T \subseteq NodeIds
  <2>1. m \in T
    OBVIOUS
  <2> QED
    BY <2>1 DEF NodeIds
<1>2. PICK x \in T : \A y \in T : x <= y
  <2> HIDE DEF T
  <2> QED
    BY <1>1, LeastElement
<1>3. PICK t \in Seq(JsonKeys) :
        t # << >> /\ Onwards(P, n, x, t) /\ Child(n, t[1]) = None
  BY <1>2
<1>4. x \in NodeIds /\ P[n] \in Seq(JsonKeys)
  BY DEF PathsAre
<1>5. P[x] = Append(P[n] \o Front(t), t[Len(t)]) /\ P[n] \o Front(t) \in Seq(JsonKeys)
  <2>1. Front(t) \in Seq(JsonKeys) /\ t[Len(t)] \in JsonKeys /\ t = Append(Front(t), t[Len(t)])
    BY <1>3, PathSplits
  <2>2. P[n] \o Append(Front(t), t[Len(t)]) = Append(P[n] \o Front(t), t[Len(t)])
        /\ P[n] \o Front(t) \in Seq(JsonKeys)
    <3>1. P[n] \o Front(t) \in Seq(JsonKeys)
      BY <1>4, <2>1
    <3>2. P[n] \o Append(Front(t), t[Len(t)]) = Append(P[n] \o Front(t), t[Len(t)])
      BY <1>4, <2>1, KeyBehind, Zenon
    <3> QED
      BY <3>1, <3>2
  <2> QED
    BY <1>3, <2>1, <2>2 DEF Onwards
<1>6. t[Len(t)] \in JsonKeys
  BY <1>3, PathSplits
<1>7. x # Root
  BY <1>5, <1>6, AppendNotEmpty DEF PathsAre
<1>8. PICK p \in NodeIds, k \in JsonKeys : Child(p, k) = x
  BY <1>4, <1>7 DEF Tree
<1>9. x # None
  BY <1>4 DEF NodeIds, None
<1>10. p < x /\ P[x] = Append(P[p], k) /\ P[p] \in Seq(JsonKeys)
  BY <1>8, <1>9 DEF Tree, PathsAre
<1>11. P[p] = P[n] \o Front(t) /\ k = t[Len(t)]
  <2>1. PICK a \in Seq(JsonKeys), e \in JsonKeys : a = P[n] \o Front(t) /\ e = t[Len(t)]
    BY <1>5, <1>6
  <2>2. Append(a, e) = Append(P[p], k)
    BY <1>5, <1>10, <2>1
  <2> QED
    <3>1. PICK b \in Seq(JsonKeys) : b = P[p]
      BY <1>10
    <3>2. Append(a, e) = Append(b, k)
      BY <2>2, <3>1, Zenon
    <3>3. a = b /\ e = k
      BY <3>2, PathsInjective
    <3> QED
      BY <2>1, <3>1, <3>3
<1>12. CASE Front(t) = << >>
  <2>1. p = n
    BY <1>4, <1>11, <1>12, EmptyPath DEF PathsAre
  <2>2. t[1] = k
    BY <1>3, <1>11, <1>12, PathSplits
  <2> QED
    BY <1>3, <1>8, <1>9, <2>1, <2>2
<1>13. CASE Front(t) # << >>
  <2>1. Front(t) \in Seq(JsonKeys) /\ Front(t)[1] = t[1]
    BY <1>3, <1>13, PathSplits
  <2>2. p \in T
    BY <1>3, <1>11, <1>13, <2>1 DEF Onwards
  <2>3. p \in Nat /\ x \in Nat /\ x <= p
    BY <1>1, <1>2, <2>2
  <2> QED
    BY <1>10, <2>3
<1> QED
  BY <1>12, <1>13

(* The leaves below a node solve the equation of the recursion.            *)
LEMMA ShapesSolve ==
  ASSUME TreeTypes, Tree, NEW P, PathsAre(P), NEW ids, NEW n \in NodeIds,
         NEW V, \A m \in NodeIds : V[m] = ShapeBelow(P, m, ids)
  PROVE  ShapeBelow(P, n, ids) = Filled(V, n, ids)
<1>1. P[n] \in Seq(JsonKeys) /\ << >> \in Seq(JsonKeys)
  BY DEF PathsAre
<1>2. ASSUME NEW q \in ShapeBelow(P, n, ids)
      PROVE  q \in Filled(V, n, ids)
  <2>1. PICK s \in Seq(JsonKeys), kind \in Kinds, m \in NodeIds :
          q = <<s, kind>> /\ Onwards(P, n, m, s) /\ LeafOf(m, kind) \in ids
    BY <1>2 DEF ShapeBelow
  <2>2. CASE s = << >>
    <3>1. m = n
      BY <1>1, <2>1, <2>2, EmptyPath DEF Onwards, PathsAre
    <3>2. kind \in Selected(n, ids)
      BY <2>1, <3>1 DEF Selected, LeafOf
    <3> QED
      BY <2>1, <2>2, <3>2 DEF Filled
  <2>3. CASE s # << >>
    <3> DEFINE c == Child(n, s[1])
    <3>1. s[1] \in JsonKeys /\ Tail(s) \in Seq(JsonKeys) /\ s = <<s[1]>> \o Tail(s)
      BY <2>3, PathSplits
    <3>2. c # None
      BY <2>1, <2>3, WayExists
    <3>3. c \in NodeIds /\ P[c] = Append(P[n], s[1])
      <4>1. Len(nodes) \in Nat /\ c \in 0 .. Len(nodes)
        BY <3>1 DEF TreeTypes
      <4> HIDE DEF c
      <4>2. c \in NodeIds
        BY <3>2, <4>1 DEF NodeIds, None
      <4>3. P[c] = Append(P[n], s[1])
        BY <3>1, <3>2 DEF PathsAre, c
      <4> QED
        BY <4>2, <4>3
    <3>4. Onwards(P, c, m, Tail(s))
      <4>1. Append(P[n], s[1]) \o Tail(s) = P[n] \o (<<s[1]>> \o Tail(s))
        BY <1>1, <3>1, KeyInFront, Zenon
      <4>2. P[m] = P[n] \o (<<s[1]>> \o Tail(s))
        BY <2>1, <3>1, Zenon DEF Onwards
      <4> HIDE DEF c
      <4> QED
        BY <3>3, <4>1, <4>2, Zenon DEF Onwards
    <3>5. <<Tail(s), kind>> \in V[c]
      BY <2>1, <3>1, <3>3, <3>4 DEF ShapeBelow
    <3>6. q \in Below(s[1], V[c])
      <4>1. q = << <<s[1]>> \o <<Tail(s), kind>>[1], <<Tail(s), kind>>[2] >>
        BY <2>1, <3>1
      <4> QED
        BY <3>5, <4>1 DEF Below
    <3> QED
      BY <3>1, <3>2, <3>6 DEF Filled, Child
  <2> QED
    BY <2>2, <2>3
<1>3. ASSUME NEW q \in Filled(V, n, ids)
      PROVE  q \in ShapeBelow(P, n, ids)
  <2>1. CASE \E kind \in Selected(n, ids) : q = << << >>, kind >>
    <3>1. PICK kind \in Kinds : q = << << >>, kind >> /\ LeafOf(n, kind) \in ids
      BY <2>1 DEF Selected, LeafOf
    <3>2. Onwards(P, n, n, << >>)
      BY <1>1, EmptyPath DEF Onwards
    <3> QED
      BY <1>1, <3>1, <3>2 DEF ShapeBelow
  <2>2. CASE \E k \in JsonKeys : Child(n, k) # None /\ q \in Below(k, V[Child(n, k)])
    <3> PICK k \in JsonKeys : Child(n, k) # None /\ q \in Below(k, V[Child(n, k)])
      BY <2>2
    <3>1. PICK leaf \in V[Child(n, k)] : q = << <<k>> \o leaf[1], leaf[2] >>
      BY DEF Below
    <3>2. Child(n, k) \in NodeIds /\ P[Child(n, k)] = Append(P[n], k)
      BY DEF TreeTypes, NodeIds, None, PathsAre
    <3>3. PICK s \in Seq(JsonKeys), kind \in Kinds, m \in NodeIds :
            leaf = <<s, kind>> /\ Onwards(P, Child(n, k), m, s) /\ LeafOf(m, kind) \in ids
      BY <3>1, <3>2 DEF ShapeBelow
    <3>4. Onwards(P, n, m, <<k>> \o s) /\ <<k>> \o s \in Seq(JsonKeys)
      <4>1. Append(P[n], k) \o s = P[n] \o (<<k>> \o s) /\ <<k>> \o s \in Seq(JsonKeys)
        <5>1. <<k>> \o s \in Seq(JsonKeys)
          BY <3>3
        <5>2. Append(P[n], k) \o s = P[n] \o (<<k>> \o s)
          BY <1>1, <3>3, KeyInFront, Zenon
        <5> QED
          BY <5>1, <5>2
      <4> QED
        BY <3>2, <3>3, <4>1, Zenon DEF Onwards
    <3>5. q = << <<k>> \o s, kind >>
      BY <3>1, <3>3
    <3> QED
      BY <3>3, <3>4, <3>5 DEF ShapeBelow
  <2> QED
    BY <1>3, <2>1, <2>2 DEF Filled, Child
<1> QED
  BY <1>2, <1>3

(* The equation has one solution, since children come after their parent.  *)
LEMMA SolutionUnique ==
  ASSUME TreeTypes, Tree, NEW ids, NEW V, NEW W,
         \A n \in NodeIds : V[n] = Filled(V, n, ids),
         \A n \in NodeIds : W[n] = Filled(W, n, ids)
  PROVE  \A n \in NodeIds : V[n] = W[n]
<1> DEFINE T == {x \in Nat : \E n \in NodeIds : x = Len(nodes) - n /\ V[n] # W[n]}
<1> SUFFICES ASSUME NEW m \in NodeIds, V[m] # W[m] PROVE FALSE
  OBVIOUS
<1>1. Len(nodes) \in Nat
  BY DEF TreeTypes
<1>2. T \in SUBSET Nat /\ T # {}
  <2>1. Len(nodes) - m \in T
    BY <1>1 DEF NodeIds
  <2> QED
    BY <2>1
<1>3. PICK x \in T : \A y \in T : x <= y
  <2> HIDE DEF T
  <2> QED
    BY <1>2, LeastElement
<1>4. PICK n \in NodeIds : x = Len(nodes) - n /\ V[n] # W[n]
  BY <1>3
<1>5. ASSUME NEW k \in JsonKeys, Child(n, k) # None
      PROVE  V[Child(n, k)] = W[Child(n, k)]
  <2>1. PICK c \in NodeIds : c = Child(n, k) /\ n < c
    BY <1>5 DEF TreeTypes, NodeIds, None, Tree
  <2>2. Len(nodes) - c \in Nat /\ ~(Len(nodes) - n <= Len(nodes) - c)
    BY <1>1, <2>1 DEF NodeIds
  <2>3. Len(nodes) - c \notin T
    BY <1>3, <1>4, <2>2
  <2> QED
    BY <2>1, <2>2, <2>3
<1>6. {Below(k, V[nodes[n].children[k]]) : k \in {k \in JsonKeys : nodes[n].children[k] # None}}
      = {Below(k, W[nodes[n].children[k]]) : k \in {k \in JsonKeys : nodes[n].children[k] # None}}
  BY <1>5 DEF Child
<1>7. Filled(V, n, ids) = Filled(W, n, ids)
  BY <1>6 DEF Filled
<1> QED
  BY <1>4, <1>7

LEMMA ReconstructedLeaves ==
  ASSUME TreeTypes, Tree, NEW P, PathsAre(P), NEW ids
  PROVE  Reconstructed(ids) = ShapeBelow(P, Root, ids)
<1> DEFINE Solves(f) == f = [n \in 1 .. Len(nodes) |-> Filled(f, n, ids)]
           V == [n \in 1 .. Len(nodes) |-> ShapeBelow(P, n, ids)]
<1>1. Root \in NodeIds
  BY DEF TreeTypes, Root, NodeIds
<1>2. \A n \in NodeIds : V[n] = ShapeBelow(P, n, ids)
  BY DEF NodeIds
<1>3. \A n \in NodeIds : V[n] = Filled(V, n, ids)
  <2> HIDE DEF V
  <2> QED
    BY <1>2, ShapesSolve
<1>4. Solves(V)
  BY <1>3 DEF NodeIds
<1>5. NodeValues(ids) = CHOOSE f : Solves(f)
  BY Zenon DEF NodeValues
<1>6. Solves(NodeValues(ids))
  <2> HIDE DEF Solves, V
  <2> QED
    BY <1>4, <1>5
<1>7. \A n \in NodeIds : NodeValues(ids)[n] = Filled(NodeValues(ids), n, ids)
  BY <1>6 DEF NodeIds
<1>8. NodeValues(ids)[Root] = V[Root]
  <2> HIDE DEF V, Solves
  <2> QED
    BY <1>1, <1>3, <1>7, SolutionUnique
<1> QED
  BY <1>1, <1>2, <1>8 DEF Reconstructed

(* A schema id gives back the paths and kinds of its documents' leaves,    *)
(* however the tree has grown since, for any documents.                    *)
THEOREM SchemaIdsReconstruct == Spec => []ReconstructsShape
<1>1. SchemaInv => ReconstructsShape
  <2> SUFFICES ASSUME SchemaInv, NEW s \in schemas
               PROVE  Reconstructed(s.id) = s.shape
    BY DEF ReconstructsShape
  <2> PICK P : PathsAre(P) /\ DocumentsAre(P)
    BY DEF SchemaInv
  <2>1. TreeTypes /\ Tree /\ Root \in NodeIds
    BY DEF SchemaInv, TreeInv, TreeTypes, NodeIds, Root
  <2>2. Reconstructed(s.id) = ShapeBelow(P, Root, s.id)
    BY <2>1, ReconstructedLeaves
  <2>3. IsShape(P, s.shape, s.id)
    BY DEF DocumentsAre
  <2>4. \A m \in NodeIds : P[m] \in Seq(JsonKeys)
    BY DEF PathsAre
  <2>5. \A t \in Seq(JsonKeys), m \in NodeIds : Onwards(P, Root, m, t) <=> P[m] = t
    <3>1. \A t \in Seq(JsonKeys) : << >> \o t = t
      OBVIOUS
    <3> QED
      BY <3>1 DEF Onwards, PathsAre
  <2>6. ASSUME NEW q
        PROVE  q \in s.shape <=> q \in ShapeBelow(P, Root, s.id)
    <3>1. ASSUME q \in s.shape PROVE q \in ShapeBelow(P, Root, s.id)
      <4>1. PICK m \in NodeIds, kind \in Kinds : q = <<P[m], kind>> /\ LeafOf(m, kind) \in s.id
        BY <2>3, <3>1 DEF IsShape
      <4> QED
        BY <2>4, <2>5, <4>1 DEF ShapeBelow
    <3>2. ASSUME q \in ShapeBelow(P, Root, s.id) PROVE q \in s.shape
      <4>1. PICK t \in Seq(JsonKeys), kind \in Kinds, m \in NodeIds :
              q = <<t, kind>> /\ Onwards(P, Root, m, t) /\ LeafOf(m, kind) \in s.id
        BY <3>2 DEF ShapeBelow
      <4> QED
        BY <2>3, <2>5, <4>1 DEF IsShape
    <3> QED
      BY <3>1, <3>2
  <2> QED
    BY <2>2, <2>6
<1> QED
  BY <1>1, SchemaInvariant, PTL
=============================================================================
