----------------------------- MODULE LatestValue -----------------------------
(***************************************************************************)
(* What a plugin is promised by internal/hostcall.StateSaver: one register *)
(* per key whose stored value follows the saved one.  A value is named by  *)
(* its revision, so "older" and "newer" are the order of the naturals.     *)
(* The host may skip values that were overwritten before they were sent    *)
(* (coalescing), may lag behind, and may still take a request that is on   *)
(* the wire after the plugin has exited; it never holds a value that was   *)
(* not saved and never goes back to an older one.                          *)
(***************************************************************************)
EXTENDS Naturals

CONSTANT Keys       \* the state.set keys of one plugin

VARIABLES saved,    \* saved[k]: revision of the last value handed to Save
          stored,   \* stored[k]: revision the host holds, 0 for none
          closed    \* has Flush returned?

vars == <<saved, stored, closed>>

Init == /\ saved = [k \in Keys |-> 0]
        /\ stored = [k \in Keys |-> 0]
        /\ closed = FALSE

Save(k) == /\ ~closed
           /\ saved' = [saved EXCEPT ![k] = @ + 1]
           /\ UNCHANGED <<stored, closed>>

\* The host takes a value of k that is not older than the one it holds.
Store(k) == /\ \E r \in stored[k] .. saved[k] : stored' = [stored EXCEPT ![k] = r]
            /\ UNCHANGED <<saved, closed>>

Close == /\ ~closed
         /\ closed' = TRUE
         /\ UNCHANGED <<saved, stored>>

Next == \/ \E k \in Keys : Save(k) \/ Store(k)
        \/ Close

Spec == Init /\ [][Next]_vars
=============================================================================
