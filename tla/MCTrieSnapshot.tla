--------------------------- MODULE MCTrieSnapshot ---------------------------
(* A state of two tries: the account trie r (an internal node i1 and three *)
(* account leaves) and the storage trie s1 of contract a1 (two leaves).    *)
(* a2 is an externally owned account; a3 is a contract whose storage is   *)
(* empty. The storage trie s2 belongs to an older state and must not be   *)
(* copied.                                                                 *)
EXTENDS TrieSnapshot, TLC

MCNodes == {"r", "i1", "a1", "a2", "a3", "s1", "x1", "x2", "s2", "y1"}
MCKids == [n \in MCNodes |->
             CASE n = "r"  -> {"i1", "a3"}
               [] n = "i1" -> {"a1", "a2"}
               [] n = "s1" -> {"x1", "x2"}
               [] n = "s2" -> {"y1"}
               [] OTHER    -> {}]
MCAcct == ("a1" :> [storageRoot |-> "s1", code |-> TRUE])
          @@ ("a2" :> [storageRoot |-> "none", code |-> FALSE])
          @@ ("a3" :> [storageRoot |-> "none", code |-> TRUE])
=============================================================================
