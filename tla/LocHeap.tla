------------------------------- MODULE LocHeap -------------------------------
(***************************************************************************)
(* The heap of rankable objects that the timers are kept in                *)
(* (gps/utils/LocHeap.cpp): a binary tree sorted from top to bottom, where *)
(* new nodes go to the smaller side and nothing is balanced on removal.    *)
(*                                                                         *)
(* A node keeps its place as long as it lives, as the code moves data      *)
(* between nodes, and adds and removes leaves only.  So the tree is a      *)
(* function from places, the turns on the way down to them.  push and pop  *)
(* call themselves once at most, for a subtree: each of the calls is a     *)
(* step here.  One thread uses a heap, and nothing else happens to it      *)
(* until the operation is over.  The sizes, which the code changes on the  *)
(* way back, are changed on the way down: none is read in between.         *)
(*                                                                         *)
(* Next to the tree, inHeap is the set it stands for.                      *)
(***************************************************************************)
EXTENDS Naturals, Sequences, FiniteSets

CONSTANTS
  Rankables, \* objects that may be put in the heap
  Rank       \* Rankables -> Nat, the higher one is popped first

ASSUME HeapAssumption == Rank \in [Rankables -> Nat]

VARIABLES
  tree,   \* by place: data and size of the node
  doing,  \* the operation in progress, and the node it has come to
  inHeap  \* the objects pushed and neither popped nor removed

heapVars == <<tree, doing, inHeap>>

Places == Seq({"left", "right"})
Top == <<>>
Left(p) == Append(p, "left")
Right(p) == Append(p, "right")

Nodes == DOMAIN tree
NewNode(x) == [data |-> x, size |-> 1]

Nothing == [op |-> "nothing"]
Pushing(p, x) == [op |-> "push", at |-> p, data |-> x]
Popping(p) == [op |-> "pop", at |-> p]

HeapInit == tree = [p \in {} |-> p] /\ doing = Nothing /\ inHeap = {}

OutRanks(x, y) == Rank[x] > Rank[y]

-----------------------------------------------------------------------------
(* LocHeapNode's operations.                                               *)

(* Where a new node goes to. *)
PushSide(p) ==
  IF Left(p) \notin Nodes
     \/ (Right(p) \in Nodes /\ tree[Left(p)].size <= tree[Right(p)].size)
  THEN Left(p) ELSE Right(p)

(* The node and the new one exchange their data if they must, and the new  *)
(* one becomes a leaf or goes on.                                          *)
NodePush ==
  LET p == doing.at
      x == doing.data
      swaps == OutRanks(x, tree[p].data)
      lower == IF swaps THEN tree[p].data ELSE x
      side == PushSide(p)
      grown == [tree EXCEPT ![p] = [data |-> IF swaps THEN x ELSE @.data,
                                    size |-> @.size + 1]]
  IN
  /\ doing.op = "push"
  /\ IF side \in Nodes
     THEN tree' = grown /\ doing' = Pushing(side, lower)
     ELSE /\ tree' = [q \in Nodes \cup {side} |->
                        IF q = side THEN NewNode(lower) ELSE grown[q]]
          /\ doing' = Nothing
  /\ UNCHANGED inHeap

(* The subtree whose top moves up. *)
HigherSide(p) ==
  IF Left(p) \notin Nodes
     \/ (Right(p) \in Nodes /\ ~OutRanks(tree[Left(p)].data, tree[Right(p)].data))
  THEN Right(p) ELSE Left(p)

(* Mutant of NodePop: the sizes of the subtrees are not kept.              *)
NodePopKeepsSize ==
  LET p == doing.at
      side == HigherSide(p)
  IN
  /\ doing.op = "pop"
  /\ IF {Left(p), Right(p)} \cap Nodes # {}
     THEN /\ tree' = [tree EXCEPT ![p].data = tree[side].data, ![side].data = tree[p].data]
          /\ doing' = Popping(side)
     ELSE /\ tree' = [q \in Nodes \ {p} |-> tree[q]]
          /\ doing' = Nothing
  /\ UNCHANGED inHeap

(* What is popped sinks down to a leaf, and goes with it.                  *)
NodePop ==
  LET p == doing.at
      side == HigherSide(p)
  IN
  /\ doing.op = "pop"
  /\ IF {Left(p), Right(p)} \cap Nodes # {}
     THEN /\ tree' = [tree EXCEPT ![p] = [data |-> tree[side].data, size |-> @.size - 1],
                                  ![side].data = tree[p].data]
          /\ doing' = Popping(side)
     ELSE /\ tree' = [q \in Nodes \ {p} |-> tree[q]]
          /\ doing' = Nothing
  /\ UNCHANGED inHeap

(* The nodes above a place. *)
Above(p) == {SubSeq(p, 1, n) : n \in 0..(Len(p) - 1)}

(* remove looks for x, by its address, in the whole tree, but for subtrees *)
(* whose top it outranks.                                                  *)
Finds(x) ==
  {p \in Nodes : tree[p].data = x /\ \A q \in Above(p) : ~OutRanks(x, tree[q].data)}

-----------------------------------------------------------------------------
(* LocHeap's operations.                                                   *)

(* A client pushes an object once until it gets it back.                   *)
HeapPush(x) ==
  /\ doing = Nothing /\ x \notin inHeap
  /\ IF Nodes = {}
     THEN tree' = [p \in {Top} |-> NewNode(x)] /\ UNCHANGED doing
     ELSE doing' = Pushing(Top, x) /\ UNCHANGED tree
  /\ inHeap' = inHeap \cup {x}

HeapPop ==
  /\ doing = Nothing /\ Nodes # {}
  /\ doing' = Popping(Top)
  /\ inHeap' = inHeap \ {tree[Top].data}
  /\ UNCHANGED tree

(* Also of an object that is not there.                                    *)
HeapRemove(x) ==
  /\ doing = Nothing
  /\ IF Finds(x) = {} THEN UNCHANGED <<tree, doing>>
     ELSE \E p \in Finds(x) :
       /\ tree' = [q \in Nodes |-> IF q \in Above(p)
                                   THEN [tree[q] EXCEPT !.size = @ - 1] ELSE tree[q]]
       /\ doing' = Popping(p)
  /\ inHeap' = inHeap \ {x}

HeapNext ==
  \/ \E x \in Rankables : HeapPush(x) \/ HeapRemove(x)
  \/ HeapPop
  \/ NodePush
  \/ NodePop

HeapSpec == HeapInit /\ [][HeapNext]_heapVars

-----------------------------------------------------------------------------
(* Properties.                                                             *)

HeapTypeOK ==
  /\ Nodes \subseteq Places
  /\ tree \in [Nodes -> [data : Rankables, size : Nat \ {0}]]
  /\ doing \in {Nothing} \cup {Pushing(p, x) : p \in Nodes, x \in Rankables}
                \cup {Popping(p) : p \in Nodes}
  /\ inHeap \subseteq Rankables /\ IsFiniteSet(inHeap)

SizeAt(p) == IF p \in Nodes THEN tree[p].size ELSE 0

(* checkNodes: sizes add up, and no child outranks its parent.             *)
CheckNodes ==
  \A p \in Nodes :
    /\ tree[p].size = 1 + SizeAt(Left(p)) + SizeAt(Right(p))
    /\ \A q \in {Left(p), Right(p)} \cap Nodes : ~OutRanks(tree[q].data, tree[p].data)

(* Whatever is pushed, popped and removed, in any order and with any ties, *)
(* the tree passes its own check, holds each object that is in the heap    *)
(* once and nothing else, and has one of the highest rank on top: what the *)
(* timers rely on.                                                         *)
HeapIsSound ==
  doing = Nothing =>
    /\ CheckNodes
    /\ inHeap = {tree[p].data : p \in Nodes}
    /\ \A p, q \in Nodes : tree[p].data = tree[q].data => p = q
    /\ SizeAt(Top) = Cardinality(inHeap)
    /\ \A x \in inHeap : ~OutRanks(x, tree[Top].data)
=============================================================================
