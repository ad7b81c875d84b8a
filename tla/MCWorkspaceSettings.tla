-------------------------- MODULE MCWorkspaceSettings --------------------------
(***************************************************************************)
(* Two UI processes over a bucket, the configuration table and a queue;    *)
(* the defaults and one other policy; one page; the first process may meet *)
(* one failed call and one restart of its own.                             *)
(***************************************************************************)
EXTENDS WorkspaceSettings, TLC

CONSTANTS p1, p2

MCFaults == p1 :> 1 @@ p2 :> 0
MCKills  == p1 :> 1 @@ p2 :> 0
==============================================================================
