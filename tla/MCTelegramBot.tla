---------------------------- MODULE MCTelegramBot ----------------------------
(* Two users send the code at the same time; one of them asks for a link.      *)
EXTENDS TelegramBot

CONSTANTS alice, bob, bindA, bindB, panel

MCMessage == [u \in Updates |->
  [from |-> IF u = bindB THEN bob ELSE alice, text |-> IF u = panel THEN "panel" ELSE "bind"]]
=============================================================================
