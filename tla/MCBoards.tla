------------------------------ MODULE MCBoards ------------------------------
(* Boards on small instances: what the configurations cannot say.          *)
EXTENDS BoardsProperties, TLC

\* Boards, and dashboard requests, are interchangeable.
Interchangeable == Permutations(Slugs) \cup Permutations(Requests)
=============================================================================
