-------------------------- MODULE MCMarketService --------------------------
(* Four coins for lists of two, and series up to four times a cut of four.   *)
EXTENDS MarketService
MCChanges == {-1, 0, 1}
=============================================================================
