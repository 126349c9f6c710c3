------------------------------- MODULE MCChatHitl -------------------------------
(* Two tool calls with a key each and two requests, at every place that waits. *)
EXTENDS ChatHitl, TLC

CONSTANTS c1, c2, k1, k2

OwnKeys == c1 :> k1 @@ c2 :> k2
Site(path, store) == [path |-> path, store |-> store]
Everywhere == {Site("middleware", "sqlite"), Site("channel", "sqlite"), Site("channel", "mongo"),
               Site("inline", "sqlite"), Site("inline", "mongo")}
================================================================================
