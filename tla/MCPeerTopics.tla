---------------------------- MODULE MCPeerTopics ----------------------------
(* PeerTopics with two scenarios: one page that asks for everything, and a *)
(* page that is reloaded.                                                  *)
EXTENDS PeerTopics, TLC

PageAsks == {1 :> Ops @@ 2 :> {}, 1 :> {"subscribe"} @@ 2 :> {"subscribe"}}
OnePageAsks == {1 :> Ops}
=============================================================================
