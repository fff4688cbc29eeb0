----------------------------- MODULE AtomicCell -----------------------------
(***************************************************************************)
(* What a record of XIndex promises: "atomically read the value and the    *)
(* removed flag" (competitors/xindex/xindex_util.h:195).  A cell holds a   *)
(* value until it is removed, which is for good.  An update or a remove    *)
(* takes effect at one instant of the call; a read returns what the cell   *)
(* held at some instant of the call.                                       *)
(***************************************************************************)
CONSTANTS Workers, Vals, Absent

VARIABLES
  cell,   \* the value, Absent once removed
  call,   \* the call each worker is in and its result, once there is one
  seen    \* what the cell has held since a read began

vars == <<cell, call, seen>>

NoCall == [op |-> "none", val |-> Absent, res |-> "pending"]
Calls == {[NoCall EXCEPT !.op = "read"], [NoCall EXCEPT !.op = "remove"]}
           \cup {[NoCall EXCEPT !.op = "update", !.val = v] : v \in Vals}

Reading(c) == c.op = "read" /\ c.res = "pending"

Observe(newcell) ==
  seen' = [w \in Workers |->
             IF ~Reading(call'[w]) THEN {}
             ELSE (IF Reading(call[w]) THEN seen[w] ELSE {}) \cup {newcell}]

Result(w, r) == call' = [call EXCEPT ![w].res = r]

Init ==
  /\ cell \in Vals
  /\ call = [w \in Workers |-> NoCall]
  /\ seen = [w \in Workers |-> {}]

Invoke(w) ==
  /\ call[w] = NoCall
  /\ \E c \in Calls : call' = [call EXCEPT ![w] = c]
  /\ UNCHANGED cell

Read(w) ==
  /\ Reading(call[w])
  /\ \E r \in seen[w] : Result(w, r)
  /\ UNCHANGED cell

Change(w) ==
  /\ call[w].op \in {"update", "remove"} /\ call[w].res = "pending"
  /\ IF cell = Absent
     THEN Result(w, "failed") /\ UNCHANGED cell
     ELSE Result(w, "ok") /\ cell' = call[w].val

Return(w) ==
  /\ call[w].res # "pending"
  /\ call' = [call EXCEPT ![w] = NoCall]
  /\ UNCHANGED cell

Next ==
  /\ \E w \in Workers : Invoke(w) \/ Read(w) \/ Change(w) \/ Return(w)
  /\ Observe(cell')

Spec == Init /\ [][Next]_vars
=============================================================================
