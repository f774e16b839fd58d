----------------------------- MODULE MCForecasting -----------------------------
(***************************************************************************)
(* An instance of Forecasting for TLC: two requests about one symbol, r1   *)
(* without a date and r2 for a date written in the first hour of a zone    *)
(* that is an hour behind, which means the second.                         *)
(***************************************************************************)
EXTENDS Forecasting

CONSTANTS r1, r2, FPT

AllAboutFPT == [r \in Requests |-> FPT]

NowAndZoned == [r \in Requests |-> IF r = r1 THEN None ELSE [written |-> 1, meant |-> 2]]
================================================================================
