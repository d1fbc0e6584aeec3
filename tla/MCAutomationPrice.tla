------------------------- MODULE MCAutomationPrice -------------------------
(***************************************************************************)
(* Model-checking instance of AutomationPrice: two accounts, one chain and *)
(* exchange, and the two orientations of one asset pair (USDC/ETH and     *)
(* ETH/USDC), so that a key and its swap are both in play.                *)
(***************************************************************************)
EXTENDS AutomationPrice, TLC

CONSTANTS chain, exchange, usdc, eth

MCAssetKeys == {<<chain, exchange, usdc, eth>>, <<chain, exchange, eth, usdc>>}

\* lastCall and onInitializeWeight are written and never read by any action,
\* so states that differ only in them have the same successors: the view
\* leaves them out, while the action properties still see them on every
\* step TLC generates.
View == <<storage, context>>

\* The id fields TLC enumerates for IdsIssued: more than any block number,
\* extrinsic index or event count this instance reaches.
MCIdFields == 0..9
=============================================================================
