------------------------------ MODULE MCEngine ------------------------------
(***************************************************************************)
(* Engine.tla for TLC: one request whose handlers do everything, and others *)
(* that share the pool with it.                                            *)
(***************************************************************************)
EXTENDS Engine

CONSTANTS r1, r2

MCActs ==
  [r \in Req |->
     IF r = r1
     THEN {"Next", "Abort", "AbortWithStatus", "WriteHeader", "Response", "Panic"}
     ELSE {"Set", "query", "Hijack"}]
=============================================================================
