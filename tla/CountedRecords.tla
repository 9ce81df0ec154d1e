---------------------------- MODULE CountedRecords ----------------------------
(***************************************************************************)
(* What the client table promises to its callers: a record can be taken    *)
(* hold of while it is in the table, also by many at a time; once it is    *)
(* removed, those who hold it may go on using it, nobody else gets it, and *)
(* it is freed after the last of them has given it back.                   *)
(***************************************************************************)
EXTENDS Naturals

CONSTANT Records

VARIABLES
  phase,        \* record -> "free", "linked" or "removed"
  holders       \* record -> how many hold it

vars == <<phase, holders>>

\* A new record is held by the caller it is made for.
Make(r) ==
  /\ phase[r] = "free"
  /\ phase' = [phase EXCEPT ![r] = "linked"]
  /\ holders' = [holders EXCEPT ![r] = 1]

Hold(r) ==
  /\ phase[r] = "linked"
  /\ holders' = [holders EXCEPT ![r] = @ + 1]
  /\ UNCHANGED phase

GiveBack(r) ==
  /\ phase[r] # "free" /\ holders[r] > 0
  /\ holders' = [holders EXCEPT ![r] = @ - 1]
  /\ UNCHANGED phase

TakeOut(r) ==
  /\ phase[r] = "linked"
  /\ phase' = [phase EXCEPT ![r] = "removed"]
  /\ UNCHANGED holders

Free(r) ==
  /\ phase[r] = "removed" /\ holders[r] = 0
  /\ phase' = [phase EXCEPT ![r] = "free"]
  /\ UNCHANGED holders

Init ==
  /\ phase = [r \in Records |-> "free"]
  /\ holders = [r \in Records |-> 0]

Next == \E r \in Records : Make(r) \/ Hold(r) \/ GiveBack(r) \/ TakeOut(r) \/ Free(r)

Spec == Init /\ [][Next]_vars
=============================================================================
