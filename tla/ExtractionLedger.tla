--------------------------- MODULE ExtractionLedger ---------------------------
(***************************************************************************)
(* What the knowledge-extraction service promises to the graph module,     *)
(* with every worker, retry and crash abstracted away: a ledger holding at *)
(* most one result per document, never rewritten, and a log that announces *)
(* a result at most once and only after it has been written.               *)
(* Extraction implements this specification.                               *)
(***************************************************************************)
EXTENDS Naturals, Sequences

CONSTANTS
  Docs,      \* documents a result can be about
  Results,   \* what one extraction can produce
  None       \* "no result yet"

VARIABLES
  ledger,    \* staged_graph_knowledge: document |-> result or None
  log        \* extracted-knowledge-topic: announced results, in order

ledgerVars == <<ledger, log>>

LedgerInit ==
  /\ ledger = [d \in Docs |-> None]
  /\ log = <<>>

(* The first result about a document is entered, and it is final. *)
Stage(d, r) ==
  /\ ledger[d] = None
  /\ ledger' = [ledger EXCEPT ![d] = r]
  /\ UNCHANGED log

(* The entered result is announced, unless it already was. *)
Announce(d) ==
  /\ ledger[d] # None
  /\ \A i \in 1..Len(log) : log[i].doc # d
  /\ log' = Append(log, [doc |-> d, result |-> ledger[d]])
  /\ UNCHANGED ledger

LedgerNext ==
  \E d \in Docs :
    \/ Announce(d)
    \/ \E r \in Results : Stage(d, r)

LedgerSpec == LedgerInit /\ [][LedgerNext]_ledgerVars

===============================================================================
