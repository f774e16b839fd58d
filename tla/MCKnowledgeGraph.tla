---------------------------- MODULE MCKnowledgeGraph ----------------------------
(***************************************************************************)
(* An instance of KnowledgeGraph for TLC: two documents whose results share*)
(* an entity; one result lists a relation twice, in two spellings that     *)
(* have one edge id, another only relations that are refused.              *)
(***************************************************************************)
EXTENDS KnowledgeGraph, TLC

CONSTANTS d1, d2, fed, VND, HPG, raises, respelt, hits, rumour, number

MCRelations == {raises, respelt, hits, rumour, number}
MCEnds == (raises :> <<fed, VND>>) @@ (respelt :> <<fed, VND>>) @@ (hits :> <<VND, HPG>>)
          @@ (rumour :> <<fed, HPG>>) @@ (number :> <<fed, HPG>>)
MCPhrase == [r \in MCRelations |-> IF r = respelt THEN raises ELSE r]
MCLists == {<<raises, rumour, respelt>>, <<hits, number>>, <<rumour>>}
================================================================================
