----------------------------- MODULE MCSessions -------------------------------
(* Instances of Sessions for TLC.                                          *)
EXTENDS Sessions, TLC

Alike == Permutations(Handlers) \cup Permutations(Tokens)
           \cup Permutations(Clients) \cup Permutations(Users)
=============================================================================
