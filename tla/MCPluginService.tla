--------------------------- MODULE MCPluginService ---------------------------
(***************************************************************************)
(* TLC instances of PluginService: two plugins and one caller (the command *)
(* line tool opens one connection and makes one call).                     *)
(***************************************************************************)
EXTENDS PluginService

CONSTANTS a, b, c1
=============================================================================
