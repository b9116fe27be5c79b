----------------------------- MODULE MCPortal -----------------------------
(***************************************************************************)
(* Two tabs of the portal, one of which makes two calls at a time.         *)
(***************************************************************************)
EXTENDS Portal

MCTabs == {"t1", "t2"}
MCCalls == {<<"t1", 1>>, <<"t1", 2>>, <<"t2", 1>>}
=============================================================================
