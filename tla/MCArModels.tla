----------------------------- MODULE MCArModels -----------------------------
(* Instances of ArModels for TLC: the requests of a run are named by what     *)
(* they do.                                                                   *)
EXTENDS ArModels, TLC

CONSTANTS post, post2, put, put2, patch, patch2, delete, get

MCOp ==
  [r \in Requests |->
     CASE r \in {post, post2} -> "create"
       [] r \in {put, put2} -> "update"
       [] r = patch -> "deactivate"
       [] r = patch2 -> "activate"
       [] r = delete -> "delete"
       [] OTHER -> "get"]
=============================================================================
