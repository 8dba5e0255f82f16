------------------------------ MODULE MCRemote ------------------------------
(* Small projects for Remote: who works on them, where, and on what. *)
EXTENDS Remote

MCHost == [p \in Process |-> CASE p = "i" -> "m" [] p = "j" -> "n" [] p = "r" -> "m"
                               [] p = "s" -> "n" [] OTHER -> "cloud"]
MCKill == [on \in BOOLEAN |-> IF on THEN 1 ELSE 0]
Plain(trackers, commits) == [in |-> trackers, secret |-> {}, commits |-> commits]
MCEdits == [p \in Process |->
    CASE p = "i" -> {Plain({"a"}, TRUE), [in |-> {"a"}, secret |-> {"a"}, commits |-> TRUE]}
      [] p = "r" -> {Plain({"b"}, TRUE)}
      [] p = "h" -> {Plain({"root"}, TRUE)}
      [] OTHER -> {}]
=============================================================================
