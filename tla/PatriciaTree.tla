---------------------------- MODULE PatriciaTree ----------------------------
(***************************************************************************)
(* The Patricia trees of the reputation miner (patricia-base.js) and the   *)
(* proofs drawn from them.                                                 *)
(*                                                                         *)
(* A key or a label is a sequence of bits.  A hash is modelled by what was *)
(* hashed, so hashes collide exactly when contents are equal: a leaf is    *)
(* [leaf |-> value], a node holds the pair of its edges, an edge hash is   *)
(* the edge.  tree.nodes, a map from node hash to node, is therefore a set of  *)
(* nodes; two places of a tree with equal content share one entry of it.   *)
(* A branch mask is the set of bit positions (0 is the first bit of the    *)
(* key) at which the path to a key branches.                               *)
(***************************************************************************)
EXTENDS Integers, Sequences, FiniteSets, FiniteSetsExt

\* root is <<>> for the empty tree, else the one root edge.
EmptyTree == [root |-> <<>>, nodes |-> {}]

leafHash(value) == [leaf |-> value]
makeNode(children) == [children |-> children]
makeEdge(node, label) == [node |-> node, label |-> label]

commonPrefix(a, b) ==
    Max({n \in 0 .. Min({Len(a), Len(b)}) : SubSeq(a, 1, n) = SubSeq(b, 1, n)})

prefixOf(label, pos) == SubSeq(label, 1, pos)
suffixOf(label, pos) == SubSeq(label, pos + 1, Len(label))

\* A branch after n common bits: the old edge on one side, the new leaf on the other.
branchNodeKeepsBit(edge, label, n, leaf) ==   \* mutant: the old edge keeps the branching bit
    LET old == makeEdge(edge.node, suffixOf(edge.label, n))
        new == makeEdge(leaf, suffixOf(label, n + 1))
    IN  makeNode(IF label[n + 1] = 0 THEN <<new, old>> ELSE <<old, new>>)

branchNode(edge, label, n, leaf) ==
    LET old == makeEdge(edge.node, suffixOf(edge.label, n + 1))
        new == makeEdge(leaf, suffixOf(label, n + 1))
    IN  makeNode(IF label[n + 1] = 0 THEN <<new, old>> ELSE <<old, new>>)

\* Store a leaf below an edge; the edge that replaces it, and the node map.
RECURSIVE insertAtEdge(_, _, _, _)
insertAtEdge(nodes, edge, label, leaf) ==
    LET n      == commonPrefix(label, edge.label)
        prefix == prefixOf(label, n)
        suffix == suffixOf(label, n)
        head   == Head(suffix) + 1
        Updated == [edge |-> makeEdge(leaf, prefix), nodes |-> nodes]
        Followed ==
            LET below == insertAtEdge(nodes, edge.node.children[head], Tail(suffix), leaf)
                node  == [edge.node EXCEPT !.children[head] = below.edge]
            IN  [edge  |-> makeEdge(node, prefix),
                 nodes |-> (below.nodes \ {edge.node}) \cup {node}]
        Branched ==
            LET branch == branchNode(edge, label, n, leaf)
            IN  [edge |-> makeEdge(branch, prefix), nodes |-> nodes \cup {branch}]
    IN  IF suffix = <<>> THEN Updated
        ELSE IF n >= Len(edge.label) THEN Followed
        ELSE Branched

insert(tree, key, value) ==
    IF tree.root = <<>>
    THEN [tree EXCEPT !.root = <<makeEdge(leafHash(value), key)>>]
    ELSE LET new == insertAtEdge(tree.nodes, tree.root[1], key, leafHash(value))
         IN  [root |-> <<new.edge>>, nodes |-> new.nodes]

\* The walk of getProof from an edge whose label starts at position depth.
RECURSIVE proofBelow(_, _, _)
proofBelow(edge, label, depth) ==
    LET n      == Len(edge.label)
        suffix == suffixOf(label, n)
        head   == Head(suffix) + 1
        below  == proofBelow(edge.node.children[head], Tail(suffix), depth + n + 1)
    IN  IF suffix = <<>>
        THEN [branchMask |-> {}, siblings |-> <<>>]
        ELSE [branchMask |-> {depth + n} \cup below.branchMask,
              siblings   |-> <<edge.node.children[3 - head]>> \o below.siblings]

\* Siblings run from the root down.
getProof(tree, key) == proofBelow(tree.root[1], key, 0)

\* Fold the siblings, deepest first, into the edge above the leaf.  With
\* siblings left out at the top the mask keeps their bits, and the label is cut
\* at the deepest of them; a bit in the last position is taken for no bit at all.
RECURSIVE climb(_, _, _, _, _)
climb(node, k, branchMask, siblings, width) ==
    LET pos  == Max(branchMask)
        edge == makeEdge(node, suffixOf(k, pos + 1))
        sib  == siblings[Len(siblings)]
    IN  IF siblings = <<>>
        THEN IF branchMask = {} \/ pos = width - 1 THEN makeEdge(node, k) ELSE edge
        ELSE climb(makeNode(IF k[pos + 1] = 0 THEN <<edge, sib>> ELSE <<sib, edge>>),
                   prefixOf(k, pos), branchMask \ {pos},
                   SubSeq(siblings, 1, Len(siblings) - 1), width)

getImpliedRoot(key, value, branchMask, siblings) ==
    climb(leafHash(value), key, branchMask, siblings, Len(key))

-----------------------------------------------------------------------------
(* What a tree should be.                                                  *)

\* The one edge over a set of <<key suffix, value>> pairs, by definition of a
\* Patricia tree: the longest common prefix, then one child per next bit.
RECURSIVE canonicalEdge(_)
canonicalEdge(pairs) ==
    LET some == (CHOOSE p \in pairs : TRUE)[1]
        n    == Max({m \in 0 .. Len(some) :
                       \A p \in pairs : prefixOf(p[1], m) = prefixOf(some, m)})
        side(bit) == {<<suffixOf(p[1], n + 1), p[2]>> : p \in {q \in pairs : q[1][n + 1] = bit}}
    IN  IF Cardinality(pairs) = 1
        THEN makeEdge(leafHash((CHOOSE p \in pairs : TRUE)[2]), some)
        ELSE makeEdge(makeNode(<<canonicalEdge(side(0)), canonicalEdge(side(1))>>), prefixOf(some, n))

canonicalRoot(pairs) == IF pairs = {} THEN <<>> ELSE <<canonicalEdge(pairs)>>

\* The nodes reachable below an edge.
RECURSIVE nodesBelow(_)
nodesBelow(edge) ==
    IF "leaf" \in DOMAIN edge.node THEN {}
    ELSE {edge.node} \cup UNION {nodesBelow(edge.node.children[c]) : c \in {1, 2}}

noDanglingNode(tree) ==
    tree.root # <<>> => nodesBelow(tree.root[1]) \subseteq tree.nodes

\* The key as width bits, first bit first.
bitsOf(number, width) == [b \in 1 .. width |-> (number \div 2^(width - b)) % 2]
=============================================================================
