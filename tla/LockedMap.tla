----------------------------- MODULE LockedMap -----------------------------
(***************************************************************************)
(* What cuckoohash_map promises besides KeyValueMap: rehash and reserve    *)
(* leave the map as it is, and a locked_table gives one thread the map for *)
(* itself, as a list of elements with an iterator that goes over it in     *)
(* both directions, erases what it is at, and a stream to which the list   *)
(* is saved and from which it is restored.                                 *)
(*                                                                         *)
(* LockedTable.tla is shown to implement this.                             *)
(***************************************************************************)
EXTENDS KeyValueMap, Sequences, FiniteSets, SequencesExt

VARIABLES
  owner,   \* the thread that has a locked_table, if any
  order,   \* the order in which its iterators meet the keys
  pos,     \* where its iterator is in this order; 0: it has none that is valid
  file     \* the stream: what was saved and not yet loaded

session   == <<owner, order, pos, file>>
lockedMap == <<store, call, ret, owner, order, pos, file>>

Resizing == [op : {"rehash"}, hp : Nat] \cup [op : {"reserve"}, num : Nat]
Moves    == {"begin", "end", "next", "prev"}

LockedCalls ==
  Calls \cup Resizing
    \cup [op : Moves \cup {"lock", "unlock", "erase_at", "save", "load"}]

\* The sequence names every key of the map once.
Lists(seq, st) ==
  LET keys == {k \in Keys : st[k] # None}
  IN  Len(seq) = Cardinality(keys) /\ ToSet(seq) = keys

ItemAt(seq, i) == IF i = Len(seq) + 1 THEN "end" ELSE seq[i]

\* A key is in a list once.
Without(seq, k) ==
  IF \E i \in DOMAIN seq : seq[i] = k
  THEN RemoveAt(seq, CHOOSE i \in DOMAIN seq : seq[i] = k)
  ELSE seq

-----------------------------------------------------------------------------
\* A table can be constructed from a range of elements.
LockedInit ==
  /\ store \in [Keys -> Vals \cup {None}]
  /\ call = [t \in Threads |-> None] /\ ret = [t \in Threads |-> None]
  /\ owner = None /\ order = <<>> /\ pos = 0 /\ file = None

Request(t) ==
  /\ call[t] = None
  /\ call'[t] \in LockedCalls
  /\ call' = [call EXCEPT ![t] = call'[t]]
  /\ ret' = [ret EXCEPT ![t] = None]
  /\ UNCHANGED <<store, session>>

\* A resize is invisible, whether it succeeds, has nothing to do, or throws;
\* but the owner's list may be in another order afterwards.
Resize(t) ==
  /\ call[t] # None /\ call[t].op \in {"rehash", "reserve"}
  /\ \E r \in {"yes", "no", "exception"} : Return(t, r)
  /\ UNCHANGED <<store, owner, file>>
  /\ \/ UNCHANGED <<order, pos>>
     \/ owner = t /\ Lists(order', store) /\ pos' = 0

Lock(t) ==
  /\ owner = None /\ call[t] = [op |-> "lock"]
  /\ owner' = t
  /\ Lists(order', store)
  /\ Return(t, "yes")
  /\ UNCHANGED <<store, pos, file>>

\* size() reads no lock, and so needs not wait for the owner.
SizeOutside(t) ==
  /\ owner # t /\ call[t] = [op |-> "size"]
  /\ Size(t)
  /\ UNCHANGED session

\* Everybody else waits while there is an owner.
PerformOutside(t) ==
  /\ owner = None
  /\ Perform(t)
  /\ UNCHANGED session

-----------------------------------------------------------------------------
(* What the owner does.                                                    *)

Unlock(t) ==
  /\ owner' = None /\ order' = <<>> /\ pos' = 0
  /\ Return(t, "yes")
  /\ UNCHANGED <<store, file>>

MoveTo(t, p) ==
  /\ p \in 1 .. Len(order) + 1
  /\ pos' = p
  /\ Return(t, ItemAt(order, p))
  /\ UNCHANGED <<store, owner, order, file>>

FindIt(t, k) ==
  /\ pos' = CHOOSE i \in 1 .. Len(order) + 1 :
              ItemAt(order, i) = IF Present(k) THEN k ELSE "end"
  /\ Return(t, store[k])
  /\ UNCHANGED <<store, owner, order, file>>

\* The iterator stays where it is, unless its element is erased.
EraseKey(t, k) ==
  /\ Erase(t, k)
  /\ order' = Without(order, k)
  /\ pos' = IF pos = 0 \/ ~Present(k) THEN pos
            ELSE IF ItemAt(order, pos) = k THEN 0
            ELSE IF \E i \in 1 .. pos - 1 : order[i] = k THEN pos - 1 ELSE pos
  /\ UNCHANGED <<owner, file>>

\* Erases what the iterator is at, and then returns what comes next.
EraseAt(t) ==
  /\ pos \in 1 .. Len(order)
  /\ Put(order[pos], None)
  /\ order' = Without(order, order[pos])
  /\ call' = [call EXCEPT ![t] = [op |-> "settle"]]
  /\ UNCHANGED <<ret, owner, pos, file>>

Settle(t) ==
  /\ Return(t, ItemAt(order, pos))
  /\ UNCHANGED <<store, session>>

ClearAll(t) ==
  /\ Clear(t)
  /\ order' = <<>> /\ pos' = 0
  /\ UNCHANGED <<owner, file>>

Save(t) ==
  /\ file' = [store |-> store, order |-> order]
  /\ Return(t, "yes")
  /\ UNCHANGED <<store, owner, order, pos>>

Load(t) ==
  /\ file # None
  /\ store' = file.store /\ order' = file.order /\ pos' = 0 /\ file' = None
  /\ Return(t, "yes")
  /\ UNCHANGED owner

\* The owner's size() is exact.
SizeInside(t) ==
  /\ Return(t, Len(order))
  /\ UNCHANGED <<store, session>>

OwnerStep(t) ==
  /\ owner = t /\ call[t] # None
  /\ LET c == call[t] IN
     \/ c.op = "unlock"   /\ Unlock(t)
     \/ c.op = "begin"    /\ MoveTo(t, 1)
     \/ c.op = "end"      /\ MoveTo(t, Len(order) + 1)
     \/ c.op = "next"     /\ MoveTo(t, pos + 1)
     \/ c.op = "prev"     /\ MoveTo(t, pos - 1)
     \/ c.op = "find"     /\ FindIt(t, c.key)
     \/ c.op = "erase"    /\ EraseKey(t, c.key)
     \/ c.op = "erase_at" /\ EraseAt(t)
     \/ c.op = "settle"   /\ Settle(t)
     \/ c.op = "clear"    /\ ClearAll(t)
     \/ c.op = "save"     /\ Save(t)
     \/ c.op = "load"     /\ Load(t)
     \/ c.op = "size"     /\ SizeInside(t)

LockedNext ==
  \E t \in Threads :
    \/ Request(t) \/ Resize(t) \/ Lock(t)
    \/ SizeOutside(t) \/ PerformOutside(t) \/ OwnerStep(t)

LockedSpec == LockedInit /\ [][LockedNext]_lockedMap
=============================================================================
