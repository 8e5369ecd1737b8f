---------------------------- MODULE MCYahooExchange ----------------------------
(* Instance of YahooExchange for TLC.  A crumb is like a cookie page that is  *)
(* there: one page for each strategy is enough.                              *)
EXTENDS YahooExchange

MCAuxiliary == {"cookie", "consent"}
===============================================================================
