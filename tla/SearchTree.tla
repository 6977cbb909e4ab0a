------------------------------ MODULE SearchTree ------------------------------
(***************************************************************************)
(* The binary search trees of C++/Datastruct/Searching, on the nodes of     *)
(* BinaryTree3.c: BinarySearchTree2.c, and BinarySearchTree3.c that calls   *)
(* Rebalance of AVLRebalance.c after every change. A tree is a value: its   *)
(* root's data and its two subtrees, or Null.                               *)
(***************************************************************************)
EXTENDS Integers, Sequences, FiniteSets, SequencesExt

CONSTANT Keys

VARIABLES balancing, \* the tree of BinarySearchTree3.c, not of BinarySearchTree2.c
          tree, keys,
          cut        \* a removal has lost a subtree


Null == <<>>
MakeBTreeNode(data) == [data |-> data, left |-> Null, right |-> Null]

RECURSIVE InorderTraverse(_), PostorderTraverse(_), BSTSearch(_, _), GetHeight(_)

InorderTraverse(bt) ==
    IF bt = Null THEN <<>>
    ELSE InorderTraverse(bt.left) \o <<bt.data>> \o InorderTraverse(bt.right)
\* The right subtree, the node, the left subtree.
PostorderTraverse(bt) ==
    IF bt = Null THEN <<>>
    ELSE PostorderTraverse(bt.right) \o <<bt.data>> \o PostorderTraverse(bt.left)

BSTSearch(bst, target) ==
    /\ bst # Null
    /\ \/ bst.data = target
       \/ bst.data < target /\ BSTSearch(bst.right, target)
       \/ bst.data > target /\ BSTSearch(bst.left, target)

-----------------------------------------------------------------------------
(* AVLRebalance.c *)

GetHeight(bst) ==
    IF bst = Null THEN 0
    ELSE LET left == GetHeight(bst.left)
             right == GetHeight(bst.right)
         IN  IF left > right THEN left + 1 ELSE right + 1

GetHeightDiff(bst) == IF bst = Null THEN 0 ELSE GetHeight(bst.left) - GetHeight(bst.right)

RotateLL(bst) == [bst.left EXCEPT !.right = [bst EXCEPT !.left = bst.left.right]]
RotateRR(bst) == [bst.right EXCEPT !.left = [bst EXCEPT !.right = bst.right.left]]
RotateLR(bst) == RotateLL([bst EXCEPT !.left = RotateRR(bst.left)])
RotateRL(bst) == RotateRR([bst EXCEPT !.right = RotateLL(bst.right)])

\* Only the root is looked at.
Rebalance(root) ==
    LET hDiff == GetHeightDiff(root)
    IN  CASE hDiff > 1 /\ GetHeightDiff(root.left) > 0 -> RotateLL(root)
          [] hDiff > 1 /\ GetHeightDiff(root.left) <= 0 -> RotateLR(root)
          [] hDiff < -1 /\ GetHeightDiff(root.right) < 0 -> RotateRR(root)
          [] hDiff < -1 /\ GetHeightDiff(root.right) >= 0 -> RotateRL(root)
          [] OTHER -> root

-----------------------------------------------------------------------------
(* BinarySearchTree2.c, BinarySearchTree3.c *)

RECURSIVE Inserted(_, _), Removed(_, _), LeftMost(_), WithoutLeftMost(_), NodeOf(_, _)

\* A key that is there already is left alone.
Inserted(bst, data) ==
    IF bst = Null THEN MakeBTreeNode(data)
    ELSE IF bst.data = data THEN bst
    ELSE IF bst.data < data THEN [bst EXCEPT !.right = Inserted(@, data)]
    ELSE [bst EXCEPT !.left = Inserted(@, data)]

LeftMost(bst) == IF bst.left = Null THEN bst.data ELSE LeftMost(bst.left)
WithoutLeftMost(bst) ==
    IF bst.left = Null THEN bst.right ELSE [bst EXCEPT !.left = WithoutLeftMost(@)]

\* The successor of a node with two children takes its place. When it is the right child
\* itself, its (empty) left subtree is put there instead of its right one.
SuccessorUp(dNode) ==
    [dNode EXCEPT !.data = LeftMost(dNode.right),
                  !.right = IF @.left = Null THEN @.left ELSE WithoutLeftMost(@)]

\* The node dNode, taken out of its tree.
WithoutRoot(dNode) ==
    IF dNode.left = Null THEN dNode.right
    ELSE IF dNode.right = Null THEN dNode.left
    ELSE SuccessorUp(dNode)

Removed(bst, target) ==
    IF bst = Null THEN Null
    ELSE IF target < bst.data THEN [bst EXCEPT !.left = Removed(@, target)]
    ELSE IF target > bst.data THEN [bst EXCEPT !.right = Removed(@, target)]
    ELSE WithoutRoot(bst)

NodeOf(bst, key) ==
    IF bst = Null THEN Null
    ELSE IF key = bst.data THEN bst
    ELSE NodeOf(IF key < bst.data THEN bst.left ELSE bst.right, key)

TreeInit == balancing \in BOOLEAN /\ tree = Null /\ keys = {} /\ cut = FALSE

\* A node that is there already returns before Rebalance.
BSTInsert(data) ==
    /\ tree' = IF balancing /\ ~BSTSearch(tree, data) THEN Rebalance(Inserted(tree, data))
               ELSE Inserted(tree, data)
    /\ keys' = keys \cup {data}
    /\ UNCHANGED <<balancing, cut>>

BSTRemove(target) ==
    LET dNode == NodeOf(tree, target)
        rest == Removed(tree, target)
    IN  /\ tree' = IF balancing /\ dNode # Null /\ rest # Null THEN Rebalance(rest) ELSE rest
        /\ keys' = keys \ {target}
        /\ cut' = (cut \/ (dNode # Null /\ dNode.left # Null /\ dNode.right # Null
                             /\ dNode.right.left = Null /\ dNode.right.right # Null))
        /\ UNCHANGED balancing

TreeNext == \E key \in Keys : BSTInsert(key) \/ BSTRemove(key)

-----------------------------------------------------------------------------
Contents == {InorderTraverse(tree)[i] : i \in 1..Len(InorderTraverse(tree))}

\* Rotations and removals keep the search order, so that a search finds exactly the nodes of
\* the tree; nothing removed comes back; and the tree holds all that was inserted and not
\* removed, unless a node was removed whose right child had a right subtree and no left one.
\* What the tree calls its postorder is the same order backwards.
TreeKeeps ==
    /\ \A i, j \in 1..Len(InorderTraverse(tree)) :
         i < j => InorderTraverse(tree)[i] < InorderTraverse(tree)[j]
    /\ \A k \in Keys : BSTSearch(tree, k) <=> k \in Contents
    /\ Contents \subseteq keys
    /\ PostorderTraverse(tree) = Reverse(InorderTraverse(tree))
    /\ cut \/ Contents = keys
===============================================================================
