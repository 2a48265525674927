------------------------------ MODULE OcrPages ------------------------------
(***************************************************************************)
(* The loops of service.process over one request: uploads are expanded     *)
(* into a list of pages, the list of page results is grouped by file for   *)
(* the payload, folded into ledger rows and folded once more into          *)
(* meta.usage, and the ledger is rolled up for the usage screen.  Three    *)
(* traversals of the same list have to agree with each other and with the  *)
(* expansion; OcrService takes that for granted and has the concurrency.   *)
(*                                                                         *)
(* A list that is filtered, counted or added up is looked at through the   *)
(* set of the places concerned, so that equal results stay apart.          *)
(*                                                                         *)
(* Indices count from 0, as in the code.  One token counter stands for the *)
(* three of _TOKEN_KEYS, and the provider for the pair of provider and     *)
(* model, which are read and written together.  A page result carries the  *)
(* provider its own call was routed to: the configuration may change       *)
(* between two calls of one request.                                       *)
(***************************************************************************)
EXTENDS OcrUploads, SequencesExt

CONSTANTS
    RawUploads,     \* files as they arrive (see RawUpload)
    MaxFiles,       \* bound: files per request
    Providers,      \* what model_gateway.call may report
    Alias,          \* the model alias of the request
    MaxTokens       \* bound: tokens and milliseconds a page reports

None == "None"

\* is_pdf looks at the declared type and at the first bytes; document is the
\* number of pages PyMuPDF finds, or Unreadable when it raises.
Unreadable == -1
RawUpload == [says_pdf : BOOLEAN, starts_pdf : BOOLEAN, document : {Unreadable} \union Nat]

ASSUME RawUploadsAssumption == RawUploads \subseteq RawUpload

\* _litellm and _mock always name a provider.
ASSUME ProvidersAssumption == None \notin Providers

ASSUME BoundsAssumption == MaxFiles \in Nat /\ MaxTokens \in Nat

VARIABLES step, uploads, pages, results, files, rows, usage, rollup

vars == <<step, uploads, pages, results, files, rows, usage, rollup>>

-----------------------------------------------------------------------------
(***************************************************************************)
(* pdf.is_pdf, pdf.render_pages and service._expand.                       *)
(***************************************************************************)
IsPdf(up) == up.says_pdf \/ up.starts_pdf

\* The rendering loop stops when MaxPages images have been made.
Rendered(up) == IF up.document > MaxPages THEN MaxPages ELSE up.document

Page(fi, pi, load_error) ==
    [file_index |-> fi, page_index |-> pi, load_error |-> load_error]

\* Mistake: every page is made but the last one.
ExpandShort(fi, up) ==
    IF ~IsPdf(up) THEN <<Page(fi, 0, None)>>
    ELSE IF up.document = Unreadable THEN <<Page(fi, 0, "PDF_INVALID")>>
    ELSE IF Rendered(up) = 0 THEN <<Page(fi, 0, "PDF_EMPTY")>>
    ELSE [i \in 1..(Rendered(up) - 1) |-> Page(fi, i - 1, None)]

Expand(fi, up) ==
    IF ~IsPdf(up) THEN <<Page(fi, 0, None)>>
    ELSE IF up.document = Unreadable THEN <<Page(fi, 0, "PDF_INVALID")>>
    ELSE IF Rendered(up) = 0 THEN <<Page(fi, 0, "PDF_EMPTY")>>
    ELSE [i \in 1..Rendered(up) |-> Page(fi, i - 1, None)]

ExpandAll(ups) == FlattenSeq([i \in DOMAIN ups |-> Expand(i - 1, ups[i])])

-----------------------------------------------------------------------------
(***************************************************************************)
(* What _run_page may return for a page.                                   *)
(***************************************************************************)
NoOut == [provider |-> None, tokens |-> 0]
Outs == [provider : Providers, tokens : 0..MaxTokens]
Errors == {"timeout", "model"}

Failed(p, error) ==
    [file_index |-> p.file_index, page_index |-> p.page_index,
     ok |-> FALSE, error |-> error, ms |-> 0, out |-> NoOut]

Done(p, out, ms) ==
    [file_index |-> p.file_index, page_index |-> p.page_index,
     ok |-> TRUE, error |-> None, ms |-> ms, out |-> out]

Outcomes(p) ==
    IF p.load_error # None THEN {Failed(p, p.load_error)}
    ELSE {Failed(p, e) : e \in Errors}
         \union {Done(p, out, out.tokens) : out \in Outs}

-----------------------------------------------------------------------------
(***************************************************************************)
(* service._group_by_file, _record and _aggregate_usage.                   *)
(***************************************************************************)
Mine(fi, rs)  == {i \in DOMAIN rs : rs[i].file_index = fi}
OkIn(S, rs)   == {i \in S : rs[i].ok}
AllOk(S, rs)  == S # {} /\ OkIn(S, rs) = S
Tokens(S, rs) == SumFunction([i \in S |-> rs[i].out.tokens])

\* Later results overwrite earlier ones; a failed page has no out.
LastProvider(S, rs, default) ==
    LET served == {i \in S : rs[i].out.provider # None} IN
    IF served = {} THEN default ELSE rs[Max(served)].out.provider

\* sorted() by page_index is stable: the k-th is the one that k - 1 come before.
Sorted(S, rs) ==
    LET Precedes(i, j) == \/ rs[i].page_index < rs[j].page_index
                          \/ rs[i].page_index = rs[j].page_index /\ i < j
    IN  [k \in 1..Cardinality(S) |->
            CHOOSE j \in S : Cardinality({i \in S : Precedes(i, j)}) = k - 1]

PagePayload(r) == [page_index |-> r.page_index, ok |-> r.ok, error |-> r.error]

EntryOf(S, rs) ==
    [ ok         |-> AllOk(S, rs),
      page_count |-> Cardinality(S),
      pages      |-> [k \in 1..Cardinality(S) |-> PagePayload(rs[Sorted(S, rs)[k]])] ]

\* Mistake: the pages of a file are looked up by their place in the list.
FileEntryByPlace(fi, rs) == EntryOf({fi + 1} \intersect DOMAIN rs, rs)

FileEntry(fi, rs) == EntryOf(Mine(fi, rs), rs)

RowOf(S, rs) ==
    [ quantity |-> Cardinality(OkIn(S, rs)),
      provider |-> LastProvider(S, rs, Alias),
      ok       |-> AllOk(S, rs),
      pages    |-> Cardinality(S),
      tokens   |-> Tokens(S, rs) ]

\* Mistakes: the row's provider and tokens are kept from the file before it,
\* or the row does not look at the failed pages.
RowCarriedOver(fi, rs) ==
    LET upto == {i \in DOMAIN rs : rs[i].file_index <= fi} IN
    [RowOf(Mine(fi, rs), rs) EXCEPT !.provider = LastProvider(upto, rs, Alias),
                                    !.tokens   = Tokens(upto, rs)]

RowOfOkPages(fi, rs) == RowOf(OkIn(Mine(fi, rs), rs), rs)

Row(fi, rs) == RowOf(Mine(fi, rs), rs)

\* Mistake: the reason is recorded once, however many pages it befell.
CountErrorsOnce(rs) ==
    [e \in {rs[i].error : i \in DOMAIN rs \ OkIn(DOMAIN rs, rs)} |-> 1]

\* errors is a dict from reason to count.
CountErrors(rs) ==
    LET failed == DOMAIN rs \ OkIn(DOMAIN rs, rs) IN
    [e \in {rs[i].error : i \in failed} |-> Cardinality({i \in failed : rs[i].error = e})]

AggregateUsage(rs) ==
    LET all == DOMAIN rs IN
    [ pages      |-> Len(rs),
      ok_count   |-> Cardinality(OkIn(all, rs)),
      fail_count |-> Len(rs) - Cardinality(OkIn(all, rs)),
      provider   |-> LastProvider(all, rs, None),
      tokens     |-> Tokens(all, rs),
      work_ms    |-> SumFunction([i \in OkIn(all, rs) |-> rs[i].ms]),
      errors     |-> CountErrors(rs) ]

(***************************************************************************)
(* ledger.rollup: GROUP BY provider (tenant and feature are the same in    *)
(* all rows here), SUM(quantity), COUNT( * ) AS requests, SUM(ok).         *)
(***************************************************************************)
Rollup(rs) ==
    [p \in {rs[i].provider : i \in DOMAIN rs} |->
        LET group == {i \in DOMAIN rs : rs[i].provider = p} IN
        [ quantity |-> SumFunction([i \in group |-> rs[i].quantity]),
          requests |-> Cardinality(group),
          ok_count |-> Cardinality(OkIn(group, rs)) ]]

-----------------------------------------------------------------------------
Init ==
    /\ uploads \in UNION {[1..n -> RawUploads] : n \in 1..MaxFiles}
    /\ step = "expand"
    /\ pages = <<>> /\ results = <<>> /\ files = <<>> /\ rows = <<>>
    /\ usage = None /\ rollup = None

ExpandUploads ==
    /\ step = "expand"
    /\ pages' = ExpandAll(uploads)
    /\ step' = "run"
    /\ UNCHANGED <<uploads, results, files, rows, usage, rollup>>

\* pool.map yields the results in the order of the pages.
RunPage ==
    /\ step = "run"
    /\ Len(results) < Len(pages)
    /\ \E r \in Outcomes(pages[Len(results) + 1]) : results' = Append(results, r)
    /\ UNCHANGED <<step, uploads, pages, files, rows, usage, rollup>>

GroupByFile ==
    /\ step = "run"
    /\ Len(results) = Len(pages)
    /\ files' = [i \in DOMAIN uploads |-> FileEntry(i - 1, results)]
    /\ step' = "record"
    /\ UNCHANGED <<uploads, pages, results, rows, usage, rollup>>

\* One turn of _record's loop.
RecordFile ==
    /\ step = "record"
    /\ Len(rows) < Len(uploads)
    /\ rows' = Append(rows, Row(Len(rows), results))
    /\ UNCHANGED <<step, uploads, pages, results, files, usage, rollup>>

Finish ==
    /\ step = "record"
    /\ Len(rows) = Len(uploads)
    /\ usage' = AggregateUsage(results)
    /\ rollup' = Rollup(rows)
    /\ step' = "done"
    /\ UNCHANGED <<uploads, pages, results, files, rows>>

Next == ExpandUploads \/ RunPage \/ GroupByFile \/ RecordFile \/ Finish

Spec == Init /\ [][Next]_vars

-----------------------------------------------------------------------------
(***************************************************************************)
(* Properties.                                                             *)
(***************************************************************************)
AsUpload(up) ==
    IF ~IsPdf(up) THEN [kind |-> "image", pages |-> 1]
    ELSE IF up.document = Unreadable THEN [kind |-> "broken_pdf", pages |-> 0]
    ELSE [kind |-> "pdf", pages |-> up.document]

\* The list _expand builds is the set of pages OcrService works with, in the
\* order it assumes, with an error exactly on the pages it never runs.
ExpandMatchesService ==
    step # "expand" =>
        LET abstract == [i \in DOMAIN uploads |-> AsUpload(uploads[i])]
            at(i)    == <<pages[i].file_index + 1, pages[i].page_index + 1>> IN
        /\ {at(i) : i \in DOMAIN pages} = PagesOf(abstract)
        /\ \A i, j \in DOMAIN pages : i < j => Before(at(i), at(j))
        /\ \A i \in DOMAIN pages :
              pages[i].load_error # None <=> LoadError(abstract[at(i)[1]])

\* Grouping by file neither loses, repeats nor reorders a page: the payload's
\* files laid end to end are the page results.
GroupingLosesNothing ==
    step \in {"record", "done"} =>
        FlattenSeq([i \in DOMAIN files |-> files[i].pages])
            = [i \in DOMAIN results |-> PagePayload(results[i])]

\* What a client is told about a file is what it is billed for.
RowsMatchPayload ==
    \A i \in DOMAIN rows :
        /\ rows[i].ok = files[i].ok
        /\ rows[i].pages = files[i].page_count
        /\ rows[i].quantity = Cardinality({k \in DOMAIN files[i].pages : files[i].pages[k].ok})

\* The rows add up to meta.usage, and so does the rollup; a row's tokens are
\* booked on a provider that really served a page of that file, or on the alias
\* when none did.
RowsAddUp ==
    step = "done" =>
        /\ usage.tokens = SumFunction([i \in DOMAIN rows |-> rows[i].tokens])
        /\ usage.ok_count = SumFunction([i \in DOMAIN rows |-> rows[i].quantity])
        /\ usage.ok_count = SumFunction([p \in DOMAIN rollup |-> rollup[p].quantity])
        /\ \A i \in DOMAIN rows :
              LET served == {k \in DOMAIN results : results[k].file_index = i - 1 /\ results[k].ok} IN
              IF served = {} THEN rows[i].provider = Alias /\ rows[i].tokens = 0
              ELSE rows[i].provider \in {results[k].out.provider : k \in served}

\* Every failed page is counted under its reason, and no reason is made up.
ErrorsAddUp ==
    step = "done" =>
        /\ usage.fail_count = SumFunction(usage.errors)
        /\ \A e \in DOMAIN usage.errors : \E i \in DOMAIN results : results[i].error = e

\* The usage screen shows the sum of the requests column as the number of
\* requests (README: a call to /ocr leaves one row in the ledger).
RollupCountsRequests ==
    step = "done" => SumFunction([p \in DOMAIN rollup |-> rollup[p].requests]) = 1
=============================================================================
