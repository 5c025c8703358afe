------------------------------ MODULE MCManager ------------------------------
(* Manager for TLC: the handles that differ in what the goroutine does.     *)
EXTENDS Manager

MCHandles == {[fresher |-> "none",    preload |-> FALSE, flusher |-> "none"],
              [fresher |-> "ticking", preload |-> TRUE,  flusher |-> "ticking"],
              [fresher |-> "once",    preload |-> TRUE,  flusher |-> "ticking"],
              [fresher |-> "ticking", preload |-> FALSE, flusher |-> "once"]}
=============================================================================
