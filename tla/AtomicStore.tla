-------------------------- MODULE AtomicStore --------------------------
(***************************************************************************)
(* What the rest of the helper takes a state file for: one value.  A read   *)
(* takes it at one instant, a section under the lock changes the value it    *)
(* took, and a power cut leaves one of the values not yet settled.           *)
(***************************************************************************)
CONSTANTS Calls, Nothing

VARIABLES value,      \* the changes in the file
          unsettled,  \* the values a power cut may leave
          took        \* what a call under way has read, or Nothing
vars == <<value, unsettled, took>>

Init == value = {} /\ unsettled = {{}} /\ took = [c \in Calls |-> Nothing]

Take(c) == took' = [took EXCEPT ![c] = value] /\ UNCHANGED <<value, unsettled>>
Leave(c) == took' = [took EXCEPT ![c] = Nothing] /\ UNCHANGED <<value, unsettled>>
Change(c) ==
  /\ took[c] = value
  /\ value' = value \cup {c}
  /\ unsettled' = unsettled \cup {value'}
  /\ UNCHANGED took
SettleFor(c) ==
  /\ unsettled' = {value} /\ took' = [took EXCEPT ![c] = Nothing] /\ UNCHANGED value
PowerCut ==
  /\ value' \in unsettled
  /\ unsettled' = {value'}
  /\ took' = [c \in Calls |-> Nothing]

Next == (\E c \in Calls : Take(c) \/ Leave(c) \/ Change(c) \/ SettleFor(c)) \/ PowerCut
Spec == Init /\ [][Next]_vars
=======================================================================
