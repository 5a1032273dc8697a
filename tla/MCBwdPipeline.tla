---------------------------- MODULE MCBwdPipeline ----------------------------
EXTENDS BwdPipeline

Launch(dtm, n2, g, q, k, causal, left, right, run) ==
  [dtm |-> dtm, n2 |-> n2, g |-> g, q |-> q, k |-> k, causal |-> causal, left |-> left, right |-> right, run |-> run]

(* Only planned: one sequence of every pair of lengths, under every mask. *)
PlannedOne ==
  {Launch(dtm, 1, g, <<q>>, <<k>>, m[1], m[2], m[3], FALSE) :
     dtm \in BOOLEAN, g \in {1, 2}, q \in {1, 4, 5, 9}, k \in {1, 3, 8, 10},
     m \in {<<FALSE, -1, -1>>, <<TRUE, -1, -1>>, <<FALSE, 2, 1>>, <<FALSE, 0, 5>>, <<TRUE, 3, -1>>}}
(* Only planned: several sequences, some without rows or keys. *)
PlannedMany ==
  {Launch(dtm, 2, 2, q, k, m[1], m[2], m[3], FALSE) :
     dtm \in BOOLEAN, q \in {<<5, 0, 9>>, <<0, 6, 4>>, <<2, 3, 0>>}, k \in {<<6, 3, 0>>, <<0, 7, 9>>},
     m \in {<<FALSE, -1, -1>>, <<TRUE, -1, -1>>, <<FALSE, 2, 1>>}}
(* Run: no block, one, a full round, rounds with a core left over; in         *)
(* deterministic mode groups of heads, of columns, across rounds, and masks  *)
(* whose tiles begin in a later column.                                      *)
Run ==
  {Launch(FALSE, 1, 1, <<3, 0>>, <<0, 4>>, FALSE, -1, -1, TRUE),
   Launch(FALSE, 1, 1, <<3>>, <<4>>, TRUE, -1, -1, TRUE),
   Launch(FALSE, 1, 1, <<4, 3>>, <<2, 8>>, FALSE, -1, -1, TRUE),
   Launch(FALSE, 1, 2, <<5>>, <<8>>, TRUE, -1, -1, TRUE),
   Launch(TRUE, 1, 1, <<4>>, <<3>>, FALSE, -1, -1, TRUE),
   Launch(TRUE, 1, 2, <<4>>, <<8>>, FALSE, -1, -1, TRUE),
   Launch(TRUE, 1, 2, <<5>>, <<8>>, TRUE, -1, -1, TRUE),
   Launch(TRUE, 1, 1, <<9>>, <<9>>, FALSE, 2, 1, TRUE)}
Twins == {[l EXCEPT !.run = FALSE] : l \in Run}
MC_LAUNCHES == PlannedOne \cup PlannedMany \cup Run \cup Twins
=============================================================================
