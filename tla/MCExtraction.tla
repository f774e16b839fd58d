---------------------------- MODULE MCExtraction ----------------------------
(***************************************************************************)
(* An instance of Extraction for TLC: a news document, a blank one and a   *)
(* post; the LLM can return a banned relation, two relations with one edge *)
(* key, and one that reaches a STOCK entity (the early exit).              *)
(***************************************************************************)
EXTENDS Extraction, TLC

CONSTANTS n1, p1, b1, macro, echo, hub, stock, v1, v2

MixedFeed == {n1, p1, b1}
MCDocType == [d \in Docs |-> IF d = p1 THEN "post" ELSE "news"]
MCContent == [d \in Docs |-> IF d = b1 THEN "blank" ELSE "text"]

MCRelations == {macro, echo, hub, stock}
MCEdgeKey == (macro :> "fed->vnd") @@ (echo :> "fed->vnd")
             @@ (hub :> "market->vnd") @@ (stock :> "vnd->HPG")
MCRejected == {hub}
MCTouchesStock == {stock}
AllReplies == {<<hub, macro, echo>>, <<echo, stock>>}
MCPasses == [c \in Configs |-> IF c = v1 THEN 2 ELSE 1]
=============================================================================
