--------------------------- MODULE ControllerHeap ---------------------------
(***************************************************************************)
(* struct ControllerHeap of channel/map.c: the players of a map, the one   *)
(* who was given the fewest monsters at the top.  A heap is a sequence of  *)
(* nodes [who, count, slot]; node i has the children 2 i and 2 i + 1 and   *)
(* the code's indexes are one less.  node->index, which says where a node  *)
(* is, is its place in the sequence; heaps are never copied.               *)
(***************************************************************************)
EXTENDS Integers, Sequences

Slots(s) == 1..Len(s)

Swap(h, i, j) == [h EXCEPT ![i] = h[j], ![j] = h[i]]

\* The smaller child of i that is less than i; the right one of two equals.
Lighter(h, i) ==
  {c \in {2 * i, 2 * i + 1} \cap Slots(h) :
     /\ h[c].count < h[i].count
     /\ \A d \in {2 * i, 2 * i + 1} \cap Slots(h) :
          h[c].count < h[d].count \/ (h[c].count = h[d].count /\ d <= c)}

\* One turn of the loops of sift_down() and sift_up(); a turn that changes nothing
\* is a break.
SinkOnce(st) ==
  IF Lighter(st.heap, st.at) = {} THEN st
  ELSE LET c == CHOOSE d \in Lighter(st.heap, st.at) : TRUE
       IN  [heap |-> Swap(st.heap, st.at, c), at |-> c]

RiseOnce(st) ==
  IF st.at > 1 /\ st.heap[st.at \div 2].count > st.heap[st.at].count
  THEN [heap |-> Swap(st.heap, st.at \div 2, st.at), at |-> st.at \div 2]
  ELSE st

SiftDown(h, i) ==
  LET turn[n \in 0..Len(h)] == IF n = 0 THEN [heap |-> h, at |-> i] ELSE SinkOnce(turn[n - 1])
  IN  turn[Len(h)].heap

SiftUp(h, i) ==
  LET turn[n \in 0..Len(h)] == IF n = 0 THEN [heap |-> h, at |-> i] ELSE RiseOnce(turn[n - 1])
  IN  turn[Len(h)].heap

HeapPush(h, node) == SiftUp(Append(h, node), Len(h) + 1)

\* MUTANT of HeapInc: the node stays at the top.
HeapIncStays(h, n) == [h EXCEPT ![1].count = @ + n]

\* heap_inc()
HeapInc(h, n) == SiftDown([h EXCEPT ![1].count = @ + n], 1)

\* heap_remove(): the last node fills the hole.
HeapRemove(h, p) ==
  LET i == CHOOSE j \in Slots(h) : h[j].who = p
      rest == SubSeq([h EXCEPT ![i] = h[Len(h)]], 1, Len(h) - 1)
  IN  IF i = Len(h) THEN rest
      ELSE IF i = 1 \/ rest[i \div 2].count < rest[i].count THEN SiftDown(rest, i)
      ELSE SiftUp(rest, i)

=============================================================================
