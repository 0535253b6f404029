----------------------------- MODULE MCStockPage -----------------------------
(* Instances of StockPage for TLC; the constants are in the .cfg files.     *)
EXTENDS StockPage
=============================================================================
