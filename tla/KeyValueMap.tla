---------------------------- MODULE KeyValueMap ----------------------------
(***************************************************************************)
(* What cuckoohash_map promises to the threads that call it: a map whose   *)
(* operations on one key, and clear, each take effect at one moment        *)
(* between call and return.  An insertion may end in an exception, and     *)
(* then has no effect.                                                     *)
(*                                                                         *)
(* CuckooTable.tla is shown to implement this.                             *)
(***************************************************************************)
EXTENDS Integers

CONSTANTS Threads, Keys, Vals,
          None        \* no value, no call

VARIABLES
  store,   \* the value of each key
  call,    \* the call each thread is in
  ret      \* what the last call of each thread returned

map == <<store, call, ret>>

Insertions == {"insert", "insert_or_assign", "uprase"}
OnValues   == Insertions \cup {"update"}

Calls ==
  [op : OnValues, key : Keys, val : Vals]
    \cup [op : {"find", "erase"}, key : Keys] \cup [op : {"clear", "size"}]

Present(k) == store[k] # None
YesIf(b) == IF b THEN "yes" ELSE "no"

-----------------------------------------------------------------------------
Init ==
  /\ store = [k \in Keys |-> None]
  /\ call = [t \in Threads |-> None]
  /\ ret = [t \in Threads |-> None]

Call(t) ==
  /\ call[t] = None
  /\ \E c \in Calls : call' = [call EXCEPT ![t] = c]
  /\ ret' = [ret EXCEPT ![t] = None]
  /\ UNCHANGED store

Return(t, result) ==
  /\ call' = [call EXCEPT ![t] = None]
  /\ ret' = [ret EXCEPT ![t] = result]

Put(k, v) == store' = [store EXCEPT ![k] = v]

Find(t, k) ==
  /\ Return(t, store[k])
  /\ UNCHANGED store

Update(t, k, v) ==
  /\ Return(t, YesIf(Present(k)))
  /\ IF Present(k) THEN Put(k, v) ELSE UNCHANGED store

Erase(t, k) ==
  /\ Return(t, YesIf(Present(k)))
  /\ Put(k, None)

Clear(t) ==
  /\ Return(t, "yes")
  /\ store' = [k \in Keys |-> None]

\* insert leaves an existing value alone, insert_or_assign replaces it, and
\* uprase_fn with a function that returns true removes it.
Insert(t, op, k, v) ==
  /\ Return(t, YesIf(~Present(k)))
  /\ IF ~Present(k) THEN Put(k, v)
     ELSE CASE op = "insert"           -> UNCHANGED store
            [] op = "insert_or_assign" -> Put(k, v)
            [] op = "uprase"           -> Put(k, None)

\* size(), which may count an element twice that was moved meanwhile, or not at
\* all, promises nothing while others change the map.
Size(t) ==
  /\ ret'[t] \in Int /\ Return(t, ret'[t])
  /\ UNCHANGED store

\* maximum_hashpower_exceeded or load_factor_too_low.
Throw(t) ==
  /\ Return(t, "exception")
  /\ UNCHANGED store

Perform(t) ==
  /\ call[t] # None
  /\ LET c == call[t] IN
     \/ c.op = "find"         /\ Find(t, c.key)
     \/ c.op = "update"       /\ Update(t, c.key, c.val)
     \/ c.op = "erase"        /\ Erase(t, c.key)
     \/ c.op = "clear"        /\ Clear(t)
     \/ c.op = "size"         /\ Size(t)
     \/ c.op \in Insertions   /\ (Insert(t, c.op, c.key, c.val) \/ Throw(t))

Next == \E t \in Threads : Call(t) \/ Perform(t)

Spec == Init /\ [][Next]_map
=============================================================================
