--------------------------- MODULE PersistentMap ---------------------------
(***************************************************************************)
(* The persistent map of map.cc: a hash trie of leaves, nodes with a bit   *)
(* map of their children and full nodes. Nodes are never written after     *)
(* their construction, so they are values here. A level is a shift of 5    *)
(* bits in the code: one digit of the hash to the base MapWidth, so that a  *)
(* hash is its digits here. The methods of the nodes call each other level *)
(* by level; here that is a function of the level.                         *)
(***************************************************************************)
EXTENDS Integers, Sequences, FiniteSets, SequencesExt

CONSTANTS
    MapWidth,    \* children of a full node (32 in the code)
    Levels,      \* digits of a hash (13 in the code: 64 bits, 5 for each)
    Keys,        \* keys
    Hash,        \* their hashes, map_key_hash: the digits from the lowest on
    Values,      \* values
    Missing      \* what get returns for a key that is not there

ASSUME MapAssumption ==
    /\ MapWidth \in Nat \ {0, 1} /\ Levels \in Nat
    /\ Hash \in [Keys -> [0 .. Levels - 1 -> 0 .. MapWidth - 1]]
    /\ Missing \notin Values

VARIABLES
    map,       \* the map: its count and its root
    content    \* the function it should be, on a subset of Keys

mapVars == <<map, content>>

\* map_mask
Mask(hash, level) == hash[level]

FaultIndex(bitmap, bit) == 1 + Cardinality({b \in bitmap : b < bit /\ b > 0})

\* map_index: where the child for a bit is among the children.
Index(bitmap, bit) == 1 + Cardinality({b \in bitmap : b < bit})

Empty == [kind |-> "empty"]

Leaf(key, val) == [kind |-> "leaf", key |-> key, val |-> val]

\* The constructors take the children, the bits they are for and the level.
\* With all bits set it is a full node, which needs no index.
Branch(bitmap, nodes, level) ==
    IF Cardinality(bitmap) = MapWidth
    THEN [kind |-> "full", nodes |-> nodes, level |-> level]
    ELSE [kind |-> "bitmap", bitmap |-> bitmap, nodes |-> nodes, level |-> level]

\* Where a hash goes in an inner node.
Slot(node, hash) ==
    LET bit == Mask(hash, node.level) IN
    IF node.kind = "full" THEN bit + 1 ELSE Index(node.bitmap, bit)

\* Is there a child for the hash?
Occupied(node, hash) ==
    node.kind = "full" \/ Mask(hash, node.level) \in node.bitmap

\* Where a call for a hash goes from a node: no further than to a leaf.
Child(node, hash) ==
    CASE node.kind = "leaf" -> node
      [] node.kind \in {"bitmap", "full"} /\ Occupied(node, hash) -> node.nodes[Slot(node, hash)]
      [] OTHER -> Empty

\* Node::find: the leaf of a key, or Empty.
Find(root, key) ==
    LET way[n \in 0 .. Levels] == IF n = 0 THEN root ELSE Child(way[n - 1], Hash[key])
        end == way[Levels]
    IN IF end.kind = "leaf" /\ Hash[end.key] = Hash[key] /\ end.key = key THEN end ELSE Empty

\* insert_leaf_node_at_idx, with the bit map and the kind of the new node.
InsertLeaf(node, key, val) ==
    LET bit == Mask(Hash[key], node.level) IN
    Branch(node.bitmap \cup {bit},
           InsertAt(node.nodes, Index(node.bitmap, bit), Leaf(key, val)), node.level)

\* BitmapIndexedNode::create: a leaf with another hash goes below a new node.
Opened(node, level, key) ==
    IF node.kind = "leaf" /\ Hash[node.key] # Hash[key]
    THEN Branch({Mask(Hash[node.key], level)}, <<node>>, level) ELSE node

\* The node in the place of one that the call came to, with the new child.
Renewed(node, key, val, child) ==
    CASE node.kind \in {"empty", "leaf"} -> Leaf(key, val)
      [] node.kind \in {"bitmap", "full"} /\ ~Occupied(node, Hash[key]) -> InsertLeaf(node, key, val)
      [] OTHER -> [node EXCEPT !.nodes[Slot(node, Hash[key])] = child]

FaultAssoc(root, key, val) ==
    LET down[n \in 0 .. Levels] ==
            IF n = 0 THEN Opened(root, 0, key) ELSE Opened(Child(down[n - 1], Hash[key]), n, key)
        up[n \in 0 .. Levels] ==
            IF n = 0 THEN Leaf(key, val) ELSE Renewed(down[Levels - n], key, val, up[n - 1])
    IN [node |-> up[Levels], added |-> down[Levels].kind = "empty", ok |-> TRUE]

\* Node::assoc: the new node, whether a leaf was added, and false for ok when
\* the leaf of another key with the same hash makes it throw. The calls go down
\* to an empty place or a leaf; the new nodes are made on the way back.
AssocNode(root, key, val) ==
    LET down[n \in 0 .. Levels] ==
            IF n = 0 THEN Opened(root, 0, key) ELSE Opened(Child(down[n - 1], Hash[key]), n, key)
        up[n \in 0 .. Levels] ==
            IF n = 0 THEN Leaf(key, val) ELSE Renewed(down[Levels - n], key, val, up[n - 1])
        end == down[Levels]
    IN [node |-> up[Levels], added |-> end.kind = "empty", ok |-> end.kind = "leaf" => end.key = key]

\* The nodes of the next level in the place of the nodes of one; leaves stay.
NextLevel(nodes) ==
    FlattenSeq([i \in DOMAIN nodes |-> IF nodes[i].kind = "leaf" THEN <<nodes[i]>> ELSE nodes[i].nodes])

\* Node::iterate, by which iterator makes a vector of the keys: in the order of
\* the leaves, which is the same level by level.
KeysOf(root) ==
    LET row[n \in 0 .. Levels] ==
            IF n = 0 THEN IF root.kind = "empty" THEN << >> ELSE <<root>> ELSE NextLevel(row[n - 1])
        leaves == row[Levels]
    IN [i \in DOMAIN leaves |-> leaves[i].key]

\* get, with Missing as the default value.
Get(m, key) ==
    LET found == Find(m.root, key) IN
    IF found = Empty THEN Missing ELSE found.val

\* contains
HasKey(m, key) == Find(m.root, key) # Empty

\* The reference: the function with one more key.
With(f, key, val) ==
    [k \in DOMAIN f \cup {key} |-> IF k = key THEN val ELSE f[k]]

-----------------------------------------------------------------------------
MapInit ==
    /\ map = [count |-> 0, root |-> Empty]
    /\ content = [k \in {} |-> Missing]

\* assoc of the map. Where it throws, no map is made and the old one stays.
Assoc(key, val) ==
    LET r == AssocNode(map.root, key, val) IN
    /\ r.ok
    /\ map' = [count |-> map.count + (IF r.added THEN 1 ELSE 0), root |-> r.node]
    /\ content' = With(content, key, val)

MapNext == \E key \in Keys, val \in Values : Assoc(key, val)

MapSpec == MapInit /\ [][MapNext]_mapVars

-----------------------------------------------------------------------------
\* The trie is the function: get, contains and length agree with it for every
\* key, those whose hashes differ in the last digit only too, and iterator
\* lists each key once (assoc, get, iterate in map.cc).
MapIsFunction ==
    /\ \A k \in Keys :
           /\ HasKey(map, k) <=> k \in DOMAIN content
           /\ Get(map, k) = IF k \in DOMAIN content THEN content[k] ELSE Missing
    /\ map.count = Cardinality(DOMAIN content)
    /\ LET keys == KeysOf(map.root) IN
           /\ ToSet(keys) = DOMAIN content
           /\ Len(keys) = map.count

\* assoc throws exactly when another key with the same hash is in the map: it
\* never overwrites or hides that key (LeafNode::assoc).
ThrowsOnCollision ==
    \A key \in Keys, val \in Values :
        AssocNode(map.root, key, val).ok
            <=> ~ \E k \in DOMAIN content \ {key} : Hash[k] = Hash[key]
=============================================================================
