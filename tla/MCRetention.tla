---------------------------- MODULE MCRetention ----------------------------
(***************************************************************************)
(* Two tenants for TLC, swept in the order first, second, with one table.  *)
(***************************************************************************)
EXTENDS Retention

CONSTANTS first, second, OfSecond

InOrder == <<first, second>>
OneTable == <<"voice_queries">>
Whose == [p \in Row |-> IF p \in OfSecond THEN second ELSE first]
Where == [p \in Row |-> "voice_queries"]
Kind == [z \in Ours |-> "leads"]
=============================================================================
