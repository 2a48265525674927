----------------------------- MODULE MCOcrPages -----------------------------
(***************************************************************************)
(* OcrPages on requests of up to two files: images, PDFs of no page up to  *)
(* one more than the limit of two, unreadable ones, and files whose type   *)
(* and content disagree.                                                   *)
(***************************************************************************)
EXTENDS OcrPages

MCRawUploads ==
    { [says_pdf |-> FALSE, starts_pdf |-> FALSE, document |-> Unreadable],
      [says_pdf |-> TRUE,  starts_pdf |-> FALSE, document |-> Unreadable],
      [says_pdf |-> FALSE, starts_pdf |-> TRUE,  document |-> 2] }
    \union { [says_pdf |-> TRUE, starts_pdf |-> TRUE, document |-> n] : n \in {0, 1, 3} }
=============================================================================
