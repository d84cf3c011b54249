--------------------------- MODULE MCRateLimiter ---------------------------
(* The limits of three endpoints in proportion: commands may follow each   *)
(* other at once, nonces and pairings may not.                             *)
EXTENDS RateLimiter, TLC
CONSTANTS nonce, pair, cmd
MCMaxPerWindow == nonce :> 2 @@ pair :> 1 @@ cmd :> 3
MCMinInterval  == nonce :> 1 @@ pair :> 2 @@ cmd :> 0
=============================================================================
