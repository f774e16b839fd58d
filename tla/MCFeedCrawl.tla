------------------------------ MODULE MCFeedCrawl ------------------------------
(***************************************************************************)
(* Instances of FeedCrawl for TLC: a feed of nine items, two of which      *)
(* share a date, read in pages of two; watermarks and windows that fall    *)
(* before, inside and after it.                                            *)
(***************************************************************************)
EXTENDS FeedCrawl

MCAt == [i \in Items |-> IF i <= 4 THEN i ELSE i - 1]

Since(mark) == [mark |-> mark, start |-> NoDate, end |-> NoDate]
Between(start, end) == [mark |-> NoDate, start |-> start, end |-> end]

AllRequests ==
  {Since(mark) : mark \in {0, 3, 5, 9}}
    \cup {Between(start, end) : start \in {1, 2, 4}, end \in {2, 3, 4, 7}}

OneWindow == {Between(2, 4)}
================================================================================
