-------------------------- MODULE MCInMemoryCache --------------------------
(***************************************************************************)
(* The in-memory cache on small instances: two places in the dict and one  *)
(* key more than the threads can fill it with, so that every thread can    *)
(* find it full and two of them can be after the same entry.               *)
(***************************************************************************)
EXTENDS InMemoryCache, TLC

Symmetry == Permutations(Threads) \cup Permutations(Keys)
=============================================================================
