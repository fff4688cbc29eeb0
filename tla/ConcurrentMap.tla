--------------------------- MODULE ConcurrentMap ---------------------------
(***************************************************************************)
(* What XIndex promises its callers: get, put and remove on a shared map   *)
(* behave as if each took effect at one instant between its call and its   *)
(* return.  A call that changes the map does so in the step that returns,  *)
(* or in an earlier one and returns the result later.  A get, and a remove *)
(* or update that finds nothing, change nothing; it is enough that what    *)
(* they return was true at some instant of the call, so the values the key *)
(* has had since the call are kept in seen.  A scan reads every key at an  *)
(* instant of its own.                                                     *)
(***************************************************************************)
EXTENDS Integers, Sequences

CONSTANTS Workers, Keys, Vals, Absent

VARIABLES
  map,    \* the value of every key, Absent if it has none
  call,   \* the call each worker is in: operation, key and value
  seen,   \* values the key of a get or a remove has had since the call
  ret     \* the worker that returned in the last step, and its result

vars == <<map, call, seen, ret>>

Quiet == [who |-> Absent, what |-> Absent]
NoCall == [op |-> "none", key |-> Absent, val |-> Absent]

Get(k) == [op |-> "get", key |-> k, val |-> Absent]
Put(k, v) == [op |-> "put", key |-> k, val |-> v]
Remove(k) == [op |-> "remove", key |-> k, val |-> Absent]
Update(k, v) == [op |-> "update", key |-> k, val |-> v]
Scan(k) == [op |-> "scan", key |-> k, val |-> Absent]

\* A call that has taken effect and will return r.
Done(r) == [op |-> "done", key |-> Absent, val |-> r]

Calls == {Get(k) : k \in Keys} \cup {Remove(k) : k \in Keys}
           \cup {Put(k, v) : k \in Keys, v \in Vals}
           \cup {Update(k, v) : k \in Keys, v \in Vals}
           \cup {Scan(k) : k \in Keys}

\* The instants of a call: from the state that follows it on.
Now(c, newmap) ==
  CASE c.op \in {"get", "remove", "update"} -> {newmap[c.key]}
    [] c.op = "scan" -> {<<k, newmap[k]>> : k \in {k \in Keys : k >= c.key}}
    [] OTHER -> {}

Observe(newmap) ==
  seen' = [w \in Workers |->
             (IF call'[w] = call[w] THEN seen[w] ELSE {}) \cup Now(call'[w], newmap)]

Return(w, r) ==
  /\ call' = [call EXCEPT ![w] = NoCall]
  /\ ret' = [who |-> w, what |-> r]

Init ==
  /\ map \in [Keys -> Vals \cup {Absent}]
  /\ call = [w \in Workers |-> NoCall]
  /\ seen = [w \in Workers |-> {}]
  /\ ret = Quiet

Invoke(w) ==
  /\ call[w] = NoCall
  /\ \E c \in Calls : call' = [call EXCEPT ![w] = c]
  /\ ret' = Quiet
  /\ UNCHANGED map

GetReturns(w) ==
  /\ call[w].op = "get"
  /\ \E r \in seen[w] : Return(w, r)
  /\ UNCHANGED map

PutReturns(w) ==
  /\ call[w].op = "put"
  /\ Return(w, "ok")
  /\ map' = [map EXCEPT ![call[w].key] = call[w].val]

\* Update and remove succeed on a key that is there.
Becomes(w) == IF call[w].op = "remove" THEN Absent ELSE call[w].val

ChangeReturns(w) ==
  /\ call[w].op \in {"update", "remove"}
  /\ \/ /\ map[call[w].key] # Absent
        /\ Return(w, "ok")
        /\ map' = [map EXCEPT ![call[w].key] = Becomes(w)]
     \/ /\ Absent \in seen[w]
        /\ Return(w, "failed")
        /\ UNCHANGED map

\* The pairs of a scan: ascending, each true at some instant, and the keys that
\* are left out were absent at some instant.
ScanReturns(w) ==
  LET r == ret'.what
  IN  /\ call[w].op = "scan"
      /\ Return(w, r)
      /\ \A i \in 1..(Len(r) - 1) : r[i][1] < r[i + 1][1]
      /\ \A i \in 1..Len(r) : r[i] \in seen[w]
      /\ \A k \in Keys : k >= call[w].key =>
            (\E i \in 1..Len(r) : r[i][1] = k) \/ <<k, Absent>> \in seen[w]
      /\ UNCHANGED map

TakesEffect(w) ==
  /\ call[w].op \in {"put", "update", "remove"}
  /\ IF call[w].op = "put" \/ map[call[w].key] # Absent
     THEN /\ call' = [call EXCEPT ![w] = Done("ok")]
          /\ map' = [map EXCEPT ![call[w].key] = Becomes(w)]
     ELSE call' = [call EXCEPT ![w] = Done("failed")] /\ UNCHANGED map
  /\ ret' = Quiet

DoneReturns(w) ==
  /\ call[w].op = "done"
  /\ Return(w, call[w].val)
  /\ UNCHANGED map

\* A step in which no call begins or ends.
Internal == ret' = Quiet /\ UNCHANGED <<map, call>>

Next ==
  /\ \/ Internal
     \/ \E w \in Workers :
          \/ Invoke(w) \/ GetReturns(w) \/ PutReturns(w) \/ ChangeReturns(w)
          \/ ScanReturns(w) \/ TakesEffect(w) \/ DoneReturns(w)
  /\ Observe(map')

Spec == Init /\ [][Next]_vars
=============================================================================
