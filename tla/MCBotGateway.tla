--------------------------- MODULE MCBotGateway ---------------------------
(* Two chats of one platform and one of another.                           *)
EXTENDS BotGateway, TLC

CONSTANTS k1, k2, k3, qq, tg

MCPlatformOf == k1 :> qq @@ k2 :> qq @@ k3 :> tg
=============================================================================
