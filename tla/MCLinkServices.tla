--------------------------- MODULE MCLinkServices ---------------------------
(* Two soft prompts and a hard one, two synchronisations at once.            *)
EXTENDS LinkServices
=============================================================================
