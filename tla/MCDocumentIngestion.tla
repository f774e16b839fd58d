-------------------------- MODULE MCDocumentIngestion --------------------------
(***************************************************************************)
(* An instance of DocumentIngestion for TLC: a poller, and a backfiller    *)
(* that takes the older of two articles with one text; the newer one is    *)
(* edited later, and an article the validator refuses comes along.         *)
(***************************************************************************)
EXTENDS DocumentIngestion

CONSTANTS poller, backfiller, a, b, c, text, edited, junk

ThreeIds == {a, b, c}
Texts == {text, edited, junk}

Item(id, fingerprint, at, kind, valid) ==
  [id |-> id, fingerprint |-> fingerprint, at |-> at, kind |-> kind, valid |-> valid]

Twin == Item(b, text, 1, "news", TRUE)
Article == Item(a, text, 2, "news", TRUE)
EditedArticle == Item(a, edited, 2, "news", TRUE)
Junk == Item(c, junk, 2, "news", FALSE)

TwinsEditsAndJunk == {Twin, Article, EditedArticle, Junk}
FirstDate == {1}
================================================================================
