---------------------------- MODULE MergedStream ----------------------------
(***************************************************************************)
(* What a merge function promises the code that ranges over its result:    *)
(* each input's elements arrive in the order they were sent, each exactly  *)
(* once, and the stream ends only after the last element of every input,   *)
(* unless the context was cancelled, when it may end early.                *)
(***************************************************************************)
EXTENDS Naturals, Sequences

CONSTANTS Inputs,       \* the channels merged
          Count         \* Count[i]: how many elements the sender of i has to send

VARIABLES delivered,    \* delivered[i]: the elements of input i received, in order
          ended,        \* the receiver's range over the stream may end
          cancelled     \* the context was cancelled

msVars == <<delivered, ended, cancelled>>

MSInit == /\ delivered = [i \in Inputs |-> << >>]
          /\ ended = FALSE
          /\ cancelled = FALSE

Deliver(i) == /\ ~ended
              /\ Len(delivered[i]) < Count[i]
              /\ delivered' = [delivered EXCEPT ![i] = Append(@, Len(@) + 1)]
              /\ UNCHANGED <<ended, cancelled>>

End == /\ ~ended
       /\ cancelled \/ \A i \in Inputs : Len(delivered[i]) = Count[i]
       /\ ended' = TRUE
       /\ UNCHANGED <<delivered, cancelled>>

Cancel == /\ ~cancelled
          /\ cancelled' = TRUE
          /\ UNCHANGED <<delivered, ended>>

MSNext == (\E i \in Inputs : Deliver(i)) \/ End \/ Cancel

MSSafe == MSInit /\ [][MSNext]_msVars
=============================================================================
