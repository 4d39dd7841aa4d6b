------------------------------ MODULE WriteOnce ------------------------------
(* What an exclusive publication promises: a cell is empty until one value   *)
(* is put into it, the value never changes, and every reader of the cell     *)
(* sees that value.                                                          *)
CONSTANTS Cells,  \* the destinations
          Empty   \* nothing published there

VARIABLES cell,   \* the value of each cell
          seen    \* pairs <<cell, value>> handed to a reader

onceVars == <<cell, seen>>

OnceInit ==
  /\ cell = [c \in Cells |-> Empty]
  /\ seen = {}

(* The value is the publisher's own. *)
Put(c) ==
  /\ cell[c] = Empty /\ cell'[c] # Empty
  /\ cell' = [cell EXCEPT ![c] = cell'[c]]
  /\ UNCHANGED seen

Read(c) ==
  /\ cell[c] # Empty
  /\ seen' = seen \cup {<<c, cell[c]>>}
  /\ UNCHANGED cell

OnceNext == \E c \in Cells : Put(c) \/ Read(c)

OnceSpec == OnceInit /\ [][OnceNext]_onceVars

(* Readers agree with the cell for ever after. *)
ReadersAgree == \A s \in seen : cell[s[1]] = s[2] /\ s[2] # Empty
=============================================================================
