---------------------------- MODULE MCMarketPipeline ----------------------------
(***************************************************************************)
(* Instances of MarketPipeline for TLC: HPG has bars and feature vectors,  *)
(* HDB only bars, FPT only the mentions of a post.                         *)
(***************************************************************************)
EXTENDS MarketPipeline

CONSTANTS poller, backfiller, HPG, HDB, FPT, p1

NoPosts == {}
OnePost == {[id |-> p1, symbols |-> {HPG, FPT}, sentiment |-> "up"]}

NoMalformed == {}
FirstMalformed == {[symbol |-> HPG, day |-> 1, version |-> 1]}
================================================================================
