----------------------------- MODULE RowOutputs -----------------------------
(***************************************************************************)
(* What a forward launch promises, however its work is shared out: every   *)
(* output row is written, once, from all the K/V blocks of its sequence.   *)
(***************************************************************************)
CONSTANT Unwritten

VARIABLES want,   \* the K/V blocks each row attends to
          out,    \* the blocks each row was computed from
          ended   \* whether the launch is over
vars == <<want, out, ended>>

Pending == {r \in DOMAIN out : out[r] = Unwritten}

Init == out = [r \in DOMAIN want |-> Unwritten] /\ ended = FALSE

(* Some rows are written, each of which was pending; the launch may end    *)
(* with the last of them.                                                  *)
Write == /\ ~ ended
         /\ want' = want
         /\ DOMAIN out' = DOMAIN out
         /\ \A r \in {x \in DOMAIN out : out'[x] # out[x]} :
              r \in Pending /\ out'[r] = want[r]
         /\ ended' => Pending' = {}

Spec == Init /\ [][Write]_vars
=============================================================================
