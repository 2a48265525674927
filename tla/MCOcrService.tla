--------------------------- MODULE MCOcrService ---------------------------
(***************************************************************************)
(* OcrService on two requests.  The limits are scaled down to two workers, *)
(* one retry and two pages a PDF, so that a request can have more pages    *)
(* than workers, a page more failures than attempts and a PDF more pages   *)
(* than are rendered.                                                      *)
(***************************************************************************)
EXTENDS OcrService

CONSTANTS r1, r2

Two == {r1, r2}

MCModels   == {"gemini", "mock"}
MCDocTypes == {"card", "tax"}

Image  == [kind |-> "image", pages |-> 1]
Pdf(n) == [kind |-> "pdf", pages |-> n]
Broken == [kind |-> "broken_pdf", pages |-> 0]

Api(doc_type, uploads) ==
    [route |-> "api", access |-> "granted", tenant |-> "acme", grants |-> {"gemini"},
     model |-> "gemini", doc_type |-> doc_type, uploads |-> uploads]

Test(doc_type, uploads) ==
    [Api(doc_type, uploads) EXCEPT !.route = "test", !.tenant = "", !.grants = {}]

\* One request for every check that can refuse it.
Refused ==
    { [Api("card", <<Image>>) EXCEPT !.access = "anonymous"],
      [Test("card", <<Image>>) EXCEPT !.access = "denied"],
      [Api("card", <<Image>>) EXCEPT !.model = "gpt"],
      [Test("letter", <<Image>>) EXCEPT !.model = "mock"],
      [Api("card", <<Image>>) EXCEPT !.model = "mock"] }

\* Two requests at a time on either route: several files, one of them
\* unreadable, a PDF longer than the limit, one without pages, more pages than
\* workers, a classification, or a request that is refused.
MCPair ==
    { Api("card", <<Pdf(3), Broken>>),
      Test("auto", <<Image>>), Test("card", <<Pdf(0)>>) } \union Refused

\* As many pages as workers, so that each request alone keeps the limit.
MCFull == { Api("card", <<Image, Pdf(2)>>) }
=============================================================================
