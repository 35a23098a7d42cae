---------------------------- MODULE MCShopifyImport ----------------------------
(* Instances of ShopifyImport for TLC. *)
EXTENDS ShopifyImport

CONSTANTS hook1, timer

OneHook == {hook1}
OneTimer == {timer}
=============================================================================
