------------------------------ MODULE PathCode ------------------------------
(***************************************************************************)
(* The breadth-first search for a displacement path: slot_search, its      *)
(* queue of fixed size, and the number a path is packed into.              *)
(*                                                                         *)
(* A queued item does not hold its path.  It holds a pathcode, a number in *)
(* base slot_per_bucket() whose first digit is the starting bucket, 0 or   *)
(* 1; cuckoopath_search unpacks it again.  Here each item also carries the *)
(* way to its bucket, so that the two can be compared.  Other threads      *)
(* change the buckets during the search: each one visited has its first    *)
(* empty slot anywhere or nowhere.                                         *)
(***************************************************************************)
EXTENDS Integers, Sequences, SequencesExt

CONSTANTS
  SlotPerBucket,    \* SLOT_PER_BUCKET
  MaxPathLen,       \* MAX_BFS_PATH_LEN
  CodeBits          \* the width of pathcode

VARIABLES
  pc,       \* what the thread is doing
  queue,    \* the items of q between first_ and last_
  last,     \* last_: the number of items enqueued so far
  x,        \* the item slot_search returned
  unpacked  \* the slots unpacked from its pathcode, from the end

vars == <<pc, queue, last, x, unpacked>>

\* The static_asserts of b_slot and b_queue.
ASSUME SizeAssumption ==
  /\ SlotPerBucket \in Nat \ {0} /\ MaxPathLen \in Nat \ {0} /\ CodeBits \in Nat \ {0}
  /\ SlotPerBucket ^ MaxPathLen < 2 ^ CodeBits - 1

\* The laws of exponents, of which the provers know nothing.
ASSUME ExponentAssumption ==
  /\ SlotPerBucket ^ 0 = 1
  /\ \A k \in 0 .. MaxPathLen - 1 : SlotPerBucket ^ (k + 1) = SlotPerBucket * SlotPerBucket ^ k
  /\ \A k \in 0 .. CodeBits - 1 : 2 ^ (k + 1) = 2 * 2 ^ k

Slots == 0 .. SlotPerBucket - 1
Roots == {0, 1}
Codes == 0 .. 2 ^ CodeBits - 1

\* The way to a bucket: where it starts and the slots whose elements are
\* followed to their other bucket.
Way(root, slots) == [root |-> root, slots |-> slots]
Item(code, depth, way) == [code |-> code, depth |-> depth, way |-> way]

\* Mutant: room for a search from one bucket.
QueueForOneRoot ==
  IF SlotPerBucket = 1 THEN MaxPathLen
  ELSE ((SlotPerBucket ^ MaxPathLen) - 1) \div (SlotPerBucket - 1)

\* MAX_CUCKOO_COUNT.
MaxCuckooCount ==
  2 * (IF SlotPerBucket = 1 THEN MaxPathLen
       ELSE ((SlotPerBucket ^ MaxPathLen) - 1) \div (SlotPerBucket - 1))

Init ==
  /\ pc = "search"
  /\ queue = <<Item(0, 0, Way(0, <<>>)), Item(1, 0, Way(1, <<>>))>>
  /\ last = 2
  /\ x = Item(0, 0, Way(0, <<>>))
  /\ unpacked = <<>>

\* Mutant: the rounds do not go on with slot 0.
ScannedBeyond(y, i) == (y.code % SlotPerBucket) + i

\* The slot looked at in round i, and the code of a way that goes on there.
ScannedSlot(y, i) == ((y.code % SlotPerBucket) + i) % SlotPerBucket

\* Mutant: packs the round and not the slot.
PackedRound(y, i) == (y.code * SlotPerBucket + i) % 2 ^ CodeBits

Packed(y, i) == (y.code * SlotPerBucket + ScannedSlot(y, i)) % 2 ^ CodeBits
Further(y, i) == Way(y.way.root, Append(y.way.slots, ScannedSlot(y, i)))

\* Mutant: ways of one slot less.
ExtensibleTooLittle(y) == y.depth < MaxPathLen - 2

Extensible(y) == y.depth < MaxPathLen - 1

\* The items enqueued in the first n rounds.
Children(y, n) ==
  IF Extensible(y)
  THEN [i \in 1 .. n |-> Item(Packed(y, i - 1), y.depth + 1, Further(y, i - 1))]
  ELSE <<>>

\* A bucket whose slots are all occupied.
VisitFull ==
  /\ pc = "search" /\ queue # <<>>
  /\ LET children == Children(Head(queue), SlotPerBucket)
     IN  /\ queue' = Tail(queue) \o children
         /\ last' = last + Len(children)
  /\ UNCHANGED <<pc, x, unpacked>>

\* A bucket with an empty slot, which is found in round n.
VisitFree ==
  /\ pc = "search" /\ queue # <<>>
  /\ \E n \in Slots :
       LET y == Head(queue)
       IN  /\ last' = last + Len(Children(y, n))
           /\ x' = Item(Packed(y, n), y.depth, Further(y, n))
  /\ queue' = <<>>
  /\ pc' = "unpack"
  /\ UNCHANGED unpacked

\* The queue is empty: slot_search returns depth -1.
Fail ==
  /\ pc = "search" /\ queue = <<>>
  /\ pc' = "failed"
  /\ UNCHANGED <<queue, last, x, unpacked>>

\* One round of the loop of cuckoopath_search, from the end of the path.
Unpack ==
  /\ pc = "unpack" /\ Len(unpacked) <= x.depth
  /\ unpacked' = Append(unpacked, x.code % SlotPerBucket)
  /\ x' = [x EXCEPT !.code = @ \div SlotPerBucket]
  /\ UNCHANGED <<pc, queue, last>>

UnpackRoot ==
  /\ pc = "unpack" /\ Len(unpacked) > x.depth
  /\ pc' = "unpacked"
  /\ UNCHANGED <<queue, last, x, unpacked>>

Finished == pc \in {"failed", "unpacked"} /\ UNCHANGED vars

Next == VisitFull \/ VisitFree \/ Fail \/ Unpack \/ UnpackRoot \/ Finished

Spec == Init /\ [][Next]_vars

-----------------------------------------------------------------------------
Ways  == [root : Roots, slots : Seq(Slots)]
Items == [code : Codes, depth : 0 .. MaxPathLen - 1, way : Ways]

\* Codes fit their width, no item is deeper than the asserts of b_slot allow, and
\* a way goes through slots that exist, whichever of them was looked at first.
TypeOK ==
  /\ pc \in {"search", "unpack", "failed", "unpacked"}
  /\ queue \in Seq(Items) /\ x \in Items
  /\ last \in Nat
  /\ unpacked \in Seq(Slots) /\ Len(unpacked) <= MaxPathLen

\* The assert of enqueue: the array of the queue is never overrun, although
\* nothing wraps around in it.
QueueSuffices == last <= MaxCuckooCount

\* A search that gives up has followed every way of at most MaxPathLen slots
\* from both buckets; only then may the insertion expand the table.
FailedSearchIsComplete == pc = "failed" => last = MaxCuckooCount

\* What cuckoopath_search unpacks is the way the search went: the starting
\* bucket, by the assert 0 or 1, and every slot.
PathIsUnpacked ==
  pc = "unpacked" => x.code = x.way.root /\ Reverse(unpacked) = x.way.slots
=============================================================================
