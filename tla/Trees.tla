------------------------------- MODULE Trees --------------------------------
(***************************************************************************)
(* DataStructures/AVL_tree.c and DataStructures/BinaryTree/: search trees. *)
(* A tree is a nested record or Leaf; each operation is one recursive call *)
(* from the root, and a recursion is a function on the trees.              *)
(* AVL_tree.c's delete_node calls the functions of that file, and its      *)
(* parameter, by other names; it is read with theirs.                      *)
(***************************************************************************)
EXTENDS Integers, SequencesExt

CONSTANTS
    Keys, Leaf,
    SEGV,               \* the program followed a null pointer
    MaxNodes,           \* the bound on the nodes of the AVL tree, where keys may be double
    MaxLevels           \* the bound on the levels of both trees

ASSUME TreeAssumption == Keys \subseteq Int /\ MaxNodes \in Nat /\ MaxLevels \in Nat

VARIABLES avl, bst

treeVars == <<avl, bst>>

\* The trees of at most so many levels.  A node of BInaryTree.c has no height: its
\* field keeps 0.
NodesOver(trees) == [data : Keys, height : Nat, left : trees, right : trees]
TreesUpto[n \in 0 .. MaxLevels] == {Leaf} \cup IF n = 0 THEN {} ELSE NodesOver(TreesUpto[n - 1])
TreeSet == TreesUpto[MaxLevels]

ASSUME MarksAssumption == Leaf \notin NodesOver(TreeSet) /\ SEGV \notin TreeSet

max(a, b) == IF a > b THEN a ELSE b

\* create_node of both files
Node(d)    == [data |-> d, height |-> 0, left |-> Leaf, right |-> Leaf]
AvlNode(d) == [data |-> d, height |-> 1, left |-> Leaf, right |-> Leaf]

WithData(t, k)  == [t EXCEPT !.data = k]
WithLeft(t, l)  == [t EXCEPT !.left = l]
WithRight(t, r) == [t EXCEPT !.right = r]

height(t)      == IF t = Leaf THEN 0 ELSE t.height
get_balance(t) == IF t = Leaf THEN 0 ELSE height(t.left) - height(t.right)

\* Mutant: a node's height comes from its left subtree.
UpdatedLeft(t) == [t EXCEPT !.height = height(t.left) + 1]

Updated(t) == [t EXCEPT !.height = max(height(t.left), height(t.right)) + 1]

\* Mutant: the subtree between the two nodes is lost.
right_rotate_bare(y) == LET x == y.left
                        IN  Updated(WithRight(x, Updated(WithLeft(y, Leaf))))

right_rotate(y) == LET x == y.left
                   IN  Updated(WithRight(x, Updated(WithLeft(y, x.right))))
left_rotate(x)  == LET y == x.right
                   IN  Updated(WithLeft(y, Updated(WithRight(x, y.left))))

min_node[t \in TreeSet] == IF t = Leaf \/ t.left = Leaf THEN t ELSE min_node[t.left]

-----------------------------------------------------------------------------
\* What insert does on the way up, for the key d: the grandchild tells which rotation.
InsertBalanced(t, d) ==
    CASE get_balance(t) > 1 /\ d < t.left.data   -> right_rotate(t)
      [] get_balance(t) > 1 /\ d > t.left.data   -> right_rotate(WithLeft(t, left_rotate(t.left)))
      [] get_balance(t) < -1 /\ d > t.right.data -> left_rotate(t)
      [] get_balance(t) < -1 /\ d < t.right.data -> left_rotate(WithRight(t, right_rotate(t.right)))
      [] OTHER -> t

avl_insert(tree, d) ==
    LET insert[t \in TreeSet] ==
            IF t = Leaf THEN AvlNode(d)
            ELSE IF d < t.data THEN InsertBalanced(Updated(WithLeft(t, insert[t.left])), d)
            ELSE IF d > t.data THEN InsertBalanced(Updated(WithRight(t, insert[t.right])), d)
            ELSE t
    IN  insert[tree]

\* What delete_node does on the way up: the child's balance tells which rotation.
DeleteBalanced(t) ==
    CASE get_balance(t) > 1 /\ get_balance(t.left) >= 0   -> right_rotate(t)
      [] get_balance(t) > 1 /\ get_balance(t.left) < 0    -> right_rotate(WithLeft(t, left_rotate(t.left)))
      [] get_balance(t) < -1 /\ get_balance(t.right) <= 0 -> left_rotate(t)
      [] get_balance(t) < -1 /\ get_balance(t.right) > 0  -> left_rotate(WithRight(t, right_rotate(t.right)))
      [] OTHER -> t

\* Where a node has two children, its successor's key is copied, and then d, not
\* that key, is deleted on the right.
avl_delete(tree, d) ==
    LET delete[t \in TreeSet] ==
            IF t = Leaf THEN Leaf
            ELSE IF d = t.data /\ t.left = Leaf  THEN t.right
            ELSE IF d = t.data /\ t.right = Leaf THEN t.left
            ELSE DeleteBalanced(Updated(
                IF d < t.data THEN WithLeft(t, delete[t.left])
                ELSE IF d > t.data THEN WithRight(t, delete[t.right])
                ELSE WithRight(WithData(t, min_node[t.right].data), delete[t.right])))
    IN  delete[tree]

-----------------------------------------------------------------------------
\* BInaryTree.c

bst_insert(tree, d) ==
    LET insert[t \in TreeSet] ==
            IF t = Leaf THEN Node(d)
            ELSE IF d < t.data THEN WithLeft(t, insert[t.left])
            ELSE IF d > t.data THEN WithRight(t, insert[t.right])
            ELSE t
    IN  insert[tree]

bst_find(tree, k) ==
    LET find[t \in TreeSet] == IF t = Leaf \/ t.data = k THEN t
                               ELSE find[IF k < t.data THEN t.left ELSE t.right]
    IN  find[tree]

\* The test for k comes first: the right subtree gives its least key and is cut
\* off, and the branches below for the numbers of children are never reached.
bst_delete(tree, k) ==
    LET delete[t \in TreeSet] ==
            IF t = Leaf THEN Leaf
            ELSE IF t.data = k THEN WithRight(WithData(t, min_node[t.right].data), Leaf)
            ELSE IF k < t.data THEN WithLeft(t, delete[t.left])
            ELSE WithRight(t, delete[t.right])
    IN  delete[tree]

\* Main.c: lookup, MaxDepth and Size
lookup(tree, target) ==
    LET look[t \in TreeSet] ==
            IF t = Leaf THEN FALSE
            ELSE IF target = t.data THEN TRUE
            ELSE look[IF target < t.data THEN t.left ELSE t.right]
    IN  look[tree]
MaxDepth[t \in TreeSet] == IF t = Leaf THEN 0 ELSE max(MaxDepth[t.left], MaxDepth[t.right]) + 1
Size[t \in TreeSet] == IF t = Leaf THEN 0 ELSE Size[t.left] + 1 + Size[t.right]

\* inorder, as the sequence it prints; and the nodes it meets, each as the tree below it
inorder[t \in TreeSet] == IF t = Leaf THEN <<>> ELSE inorder[t.left] \o <<t.data>> \o inorder[t.right]
Below[t \in TreeSet] == IF t = Leaf THEN {} ELSE {t} \cup Below[t.left] \cup Below[t.right]

-----------------------------------------------------------------------------
TreeInit == avl = Leaf /\ bst = Leaf

AvlInsert(d) ==
    /\ Size[avl] < MaxNodes /\ height(avl) < MaxLevels
    /\ avl' = avl_insert(avl, d) /\ UNCHANGED bst

\* The result becomes the root: main drops it where it is the root it had.
AvlDelete(d) == avl' = avl_delete(avl, d) /\ UNCHANGED bst

BstInsert(d) ==
    /\ bst # SEGV /\ bst_insert(bst, d) \in TreeSet
    /\ bst' = bst_insert(bst, d) /\ UNCHANGED avl

\* The least key of an empty right subtree is read through a null pointer.
BstDelete(k) ==
    /\ bst # SEGV
    /\ LET t == bst_find(bst, k)
       IN  bst' = IF t # Leaf /\ t.right = Leaf THEN SEGV ELSE bst_delete(bst, k)
    /\ UNCHANGED avl

AvlNext == \E d \in Keys : AvlInsert(d) \/ AvlDelete(d)
BstNext == \E k \in Keys : BstInsert(k) \/ BstDelete(k)

TreeNext == AvlNext \/ BstNext
TreeSpec == TreeInit /\ [][TreeNext]_treeVars
-----------------------------------------------------------------------------
Members(t) == ToSet(inorder[t])

\* The keys ascend, except that a deletion in an AVL tree leaves one twice.
Ascending(t) == \A i, j \in DOMAIN inorder[t] : i < j => inorder[t][i] <= inorder[t][j]
Strictly(t)  == \A i, j \in DOMAIN inorder[t] : i < j => inorder[t][i] < inorder[t][j]

Balanced(t) == \A n \in Below[t] : n.height = MaxDepth[n] /\ get_balance(n) \in -1 .. 1

Searchable(t) ==
    /\ \A k \in Keys : lookup(t, k) <=> k \in Members(t)
    /\ Len(inorder[t]) = Size[t]

RightOf(t) == IF t = Leaf THEN Leaf ELSE t.right

\* After any insertions and deletions: every node of the AVL tree knows its
\* height (lines 73, 116, 147), no two siblings differ by more than one, and in
\* both trees lookup finds exactly what inorder prints.
TreeInv ==
    /\ Balanced(avl) /\ Ascending(avl) /\ Searchable(avl)
    /\ bst # SEGV => Strictly(bst) /\ Searchable(bst)

\* No rotation loses or makes a key: an insertion adds its key, a deletion takes
\* away no other; the one of BInaryTree.c may take what is right of its key.  (The
\* first condition says no more than the subscript; with it TLC computes the calls
\* only where a tree has changed.)
TreeSteps ==
    [][treeVars' # treeVars => \A d \in Keys :
        /\ AvlInsert(d) => Members(avl') = Members(avl) \cup {d}
        /\ AvlDelete(d) => Members(avl') \in {Members(avl), Members(avl) \ {d}}
        /\ BstInsert(d) => Members(bst') = Members(bst) \cup {d}
        /\ BstDelete(d) /\ bst' # SEGV =>
              /\ Members(bst') \subseteq Members(bst)
              /\ Members(bst) \ Members(bst') \subseteq {d} \cup Members(RightOf(bst_find(bst, d)))
      ]_treeVars
=============================================================================
