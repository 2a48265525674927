----------------------------- MODULE OcrUploads -----------------------------
(***************************************************************************)
(* What one request uploads and the pages it is expanded into, as a set.   *)
(* OcrPages has the loops of the code and is checked against this module;  *)
(* OcrService is built on it.                                              *)
(***************************************************************************)
EXTENDS Naturals, Sequences

CONSTANT MaxPages       \* pdf._MAX_PAGES

ASSUME MaxPagesAssumption == MaxPages \in Nat \ {0}

\* An upload as service._expand sees it: pages is what the document holds.
Uploads == [kind : {"image", "pdf", "broken_pdf"}, pages : Nat]

\* An unreadable or empty PDF becomes a single page that has failed before any
\* model is called; a long one is cut off at MaxPages.
LoadError(u) == u.kind = "broken_pdf" \/ (u.kind = "pdf" /\ u.pages = 0)

PageCount(u) ==
    IF u.kind # "pdf" \/ u.pages = 0 THEN 1
    ELSE IF u.pages < MaxPages THEN u.pages ELSE MaxPages

\* A page is <<file, index>>, both counted from 1.
PagesOf(uploads) ==
    {p \in (1..Len(uploads)) \X (1..MaxPages) : p[2] <= PageCount(uploads[p[1]])}

\* The order in which the pages are expanded and submitted to the pool.
Before(p, q) == p[1] < q[1] \/ (p[1] = q[1] /\ p[2] < q[2])
=============================================================================
