--------------------------- MODULE PureFunctions ---------------------------
(***************************************************************************)
(* The fetch planner and the attachment extractors against reference       *)
(* definitions of what they promise, over every bounded input: each input  *)
(* is an initial state.                                                    *)
(***************************************************************************)
EXTENDS FetchPlanner, AttachmentExtraction

CONSTANTS
  MaxUid,    \* UIDs of the advance and of the batches: 1..MaxUid
  MaxBytes,  \* batch_bytes: 1..MaxBytes
  MaxSize,   \* message sizes: 0..MaxSize, or unknown
  WideUids,  \* UIDs of the sequence sets (one and two digits)
  TopUid,    \* none of them is above it
  MaxChars   \* max_chars: 1..MaxChars

ASSUME PureAssumption ==
  /\ {MaxUid, MaxBytes, MaxSize, MaxChars, TopUid} \subseteq Nat
  /\ WideUids \subseteq 1..TopUid

VARIABLES input, output   \* of one call; only an extraction has its output recorded

pure_vars == <<input, output>>

Uid == 1..MaxUid

\* The members of S up to n, in order: how a server lists UIDs.
Ascending(S, n) ==
  LET pick[i \in 0..n] ==
        IF i = 0 THEN <<>> ELSE IF i \in S THEN Append(pick[i - 1], i) ELSE pick[i - 1]
  IN pick[n]

AdvanceInput == [kind : {"advance"}, cand : SUBSET Uid, acc : SUBSET Uid,
                 floor : 0..MaxUid]

PackInput == UNION {[kind : {"pack"}, uids : SUBSET Uid, sizes : [K -> 0..MaxSize],
                     bytes : 1..MaxBytes] : K \in SUBSET Uid}

ChunkInput == [kind : {"chunk"}, uids : SUBSET WideUids, chars : 1..MaxChars]

\* Texts an engine may read: nothing, content, a credential, an unstorable
\* character, and more than the cap.
Texts == {<< >>, <<"c">>, <<"c", "k">>, <<"x">>, <<"c", "c", "x", "c", "k", "c", "k">>}

Bytes == [text : Texts \union {<<"m", "c">>, <<"m", "j">>, <<"j", "c">>}, accepts : SUBSET {"utf-8", "cp1252", "windows-1251"},
          non_ascii : {DETECTION_MIN_NON_ASCII - 1, DETECTION_MIN_NON_ASCII},
          coherent : {None, "cp1252", "windows-1251"}, flattens : BOOLEAN, mends : BOOLEAN]

\* The detector only offers a codec that accepts the bytes.
TextData == {b \in Bytes : b.coherent \in b.accepts \union {None}}

Page(plumber, pypdf, look, vectors) ==
  [plumber |-> plumber, pypdf |-> pypdf, image |-> look # "none",
   covering |-> look = "covering", vectors |-> vectors]
Pages == {Page(a, b, look, v) : a \in Texts, b \in {<< >>, <<"c", "k">>, <<"x">>},
          look \in {"none", "inset", "covering"}, v \in {0, VECTOR_CONTENT_MIN_OBJECTS}}
FewPages == {Page(t, t, look, 0) : t \in {<< >>, <<"c", "c">>}, look \in {"none", "covering"}}

Documents == UNION {[1..n -> Pages] : n \in 0..2} \union [1..(MAX_PDF_PAGES + 1) -> FewPages]
PdfData == [pages : Documents, locked : {FALSE}, plumber_fails : BOOLEAN, pypdf_fails : BOOLEAN]
           \union [pages : [1..1 -> FewPages], locked : {TRUE}, plumber_fails : BOOLEAN,
                   pypdf_fails : {FALSE}]

Members == [size : {1, 2}, xml_name : BOOLEAN, xml_type : BOOLEAN]
Zips == [declared : {1, MAX_ZIP_MEMBERS + 1}, directory : {1, MAX_CENTRAL_DIR_BYTES + 1},
         opens : BOOLEAN, manifest : {1, MAX_CONTENT_TYPES_BYTES + 1},
         members : UNION {[1..n -> Members] : n \in 1..2}]
GoodZip == [declared |-> 1, directory |-> 1, opens |-> TRUE, manifest |-> 1,
            members |-> <<[size |-> 1, xml_name |-> TRUE, xml_type |-> TRUE]>>]
DocxData == [ole : BOOLEAN, zip : Zips, body : {<<"c">>, None}, harvest : {<<"c">>}]
            \union [ole : {FALSE}, zip : {GoodZip}, body : Texts \union {None},
                    harvest : Texts \union {None}]

Sheets == UNION {[1..rows -> [1..cols -> {0, 1, 3}]] : rows \in 1..2, cols \in 1..2}
          \union {<<(<<0, 0, 1>>)>>, <<(<<1>>), (<<0>>), (<<1>>)>>}
XlsxData == [ole : BOOLEAN, zip : {GoodZip, [GoodZip EXCEPT !.opens = FALSE]},
             sheets : {None, <<(<<(<<1>>)>>)>>}]
            \union [ole : {FALSE}, zip : {GoodZip}, sheets : UNION {[1..n -> Sheets] : n \in 0..2}]
            \union [ole : {FALSE}, zip : {GoodZip},
                    sheets : [1..(MAX_SHEETS + 1) -> {<<(<<0>>)>>, <<(<<1>>)>>}]]

OnePage(text) == [pages |-> <<Page(text, text, "none", 0)>>, locked |-> FALSE,
                  plumber_fails |-> FALSE, pypdf_fails |-> FALSE]
File(magic, head, printable, text) ==
  [magic |-> magic, text_head |-> head, printable |-> printable, flattens |-> TRUE,
   mends |-> TRUE, text |-> text, accepts |-> {"utf-8"}, non_ascii |-> 0, coherent |-> None,
   pdf |-> OnePage(text), docx |-> [ole |-> FALSE, zip |-> GoodZip, body |-> text, harvest |-> text]]
Files == {File(magic, head, printable, text) :
            magic \in {None, "pdf", "zip", "ole"}, head \in BOOLEAN, printable \in BOOLEAN,
            text \in {<< >>, <<"x">>, <<"c", "k">>}}
         \union {File(None, TRUE, TRUE, <<"m", "j">>)}
TnefData == [parses : BOOLEAN, rtf : {<< >>, <<"x">>, <<"c">>}, html : {<< >>, <<"c", "k">>},
             plain : {<< >>, <<"c", "c", "c", "c", "c", "c">>},
             files : UNION {[1..n -> Files] : n \in 0..1}]
            \union [parses : {TRUE}, rtf : {<< >>, <<"c">>}, html : {<< >>}, plain : {<< >>},
                    files : [1..2 -> Files] \union
                            [1..(MAX_EMBEDDED_FILES + 1) -> {f \in Files : f.magic = None /\ f.printable}]]

Typed(types, data) == [kind : {"attachment"}, type : types, size : {"ok"}, data : data]
AttachmentInput ==
  Typed({"text", "html"}, TextData) \union Typed({"pdf"}, PdfData) \union Typed({"docx"}, DocxData)
  \union Typed({"xlsx"}, XlsxData) \union Typed({"tnef"}, TnefData)
  \union Typed({"nondocument", "other"}, {None})
  \union [kind : {"attachment"}, type : {"text", "other"}, size : {"none", "over"}, data : {None}]

PureInit ==
  \/ input \in AdvanceInput \cup PackInput \cup ChunkInput /\ output = None
  \/ input \in AttachmentInput /\ output = extract_text(input)

\* A call is made once.
PureSpec == PureInit /\ [][FALSE]_pure_vars

-----------------------------------------------------------------------------

\* highest_contiguous_uid (fetch_planner.py:9) returns the one UID that the
\* reference allows: never below the floor, never over a candidate that is
\* not accounted, and never short of the first such candidate.
AdvanceIsHighestContiguous ==
  input.kind = "advance" =>
    LET adv == highest_contiguous_uid(Ascending(input.cand, MaxUid), input.acc, input.floor)
    IN {a \in 0..MaxUid :
          IsHighestContiguous(input.cand, input.acc, input.floor, a)} = {adv}

Charge(batch) ==
  LET size[i \in 0..Len(batch)] ==
        IF i = 0 THEN 0
        ELSE size[i - 1] + SizeOf(batch[i], input.sizes, input.bytes)
  IN size[Len(batch)]

\* batch_by_bytes (fetch_planner.py:15, 26) cuts the list into consecutive
\* nonempty batches, loses and repeats no UID, keeps every batch of several
\* UIDs within the byte target, and never ends a batch while the next UID
\* would still have fitted.
BatchesPackTheUids ==
  input.kind = "pack" =>
    LET uids    == Ascending(input.uids, MaxUid)
        batches == batch_by_bytes(uids, input.sizes, input.bytes)
    IN /\ FlattenSeq(batches) = uids
       /\ \A i \in DOMAIN batches :
            /\ batches[i] # <<>>
            /\ Len(batches[i]) > 1 => Charge(batches[i]) <= input.bytes
            /\ i < Len(batches) =>
                 Charge(Append(batches[i], batches[i + 1][1])) > input.bytes

\* Length of a chunk on the wire: its atoms and the commas between them.
WireLength(chunk) ==
  LET len[i \in 0..Len(chunk)] ==
        IF i = 0 THEN 0 ELSE len[i - 1] + AtomLength(chunk[i]) + (IF i = 1 THEN 0 ELSE 1)
  IN len[Len(chunk)]

\* The sequence sets sent to the server (fetch_session.py:109) name exactly
\* the requested UIDs, each once, and a set of several atoms keeps within the
\* length limit, past which a server refuses the whole command.
ChunksNameExactlyTheUids ==
  input.kind = "chunk" =>
    LET chunks == ChunkUidSet(Ascending(input.uids, TopUid), input.chars)
        atoms  == FlattenSeq(chunks)
    IN /\ UNION {atoms[i][1]..atoms[i][2] : i \in DOMAIN atoms} = input.uids
       /\ \A i, j \in DOMAIN atoms : i < j => atoms[i][2] + 1 < atoms[j][1]
       /\ \A i \in DOMAIN chunks :
            chunks[i] # <<>> /\ (Len(chunks[i]) > 1 => WireLength(chunks[i]) <= input.chars)

-----------------------------------------------------------------------------

Has(text, tokens) == \E i \in DOMAIN text : text[i] \in tokens
Storable == {"c", "k"}

\* What the reader of a PDF could find: the pages it may look at.
Looked(pdf) == SubSeq(pdf.pages, 1, IF Len(pdf.pages) < MAX_PDF_PAGES THEN Len(pdf.pages)
                                    ELSE MAX_PDF_PAGES)

\* Some engine of the type finds storable text in the payload.  A PDF that
\* pdfplumber reads must reach the scan floor with it, unless no image covers a
\* page; pypdf needs no floor.
Readable(a) ==
  CASE a.type = "text" -> Has(a.data.text, {"c", "k", "m", "j"})
    [] a.type = "html" -> a.data.flattens /\ Has(a.data.text, Storable \union {"j"})
    [] a.type = "pdf"  ->
         LET pages == Looked(a.data)
         IN /\ ~a.data.locked
            /\ \/ /\ ~a.data.plumber_fails
                  /\ \E i \in DOMAIN pages : Has(pages[i].plumber, Storable)
                  /\ \/ SumOver(pages, LAMBDA page : Len(page.plumber)) >= SCAN_MIN_CHARS
                     \/ \A i \in DOMAIN pages : ~pages[i].covering
               \/ ~a.data.pypdf_fails /\ \E i \in DOMAIN pages : Has(pages[i].pypdf, Storable)
    [] a.type = "docx" ->
         /\ ~a.data.ole /\ validate_ooxml_package(a.data.zip)
         /\ IF a.data.body # None THEN Has(a.data.body, Storable)
            ELSE a.data.harvest # None /\ Has(a.data.harvest, Storable)
    [] a.type = "tnef" ->
         /\ a.data.parses
         /\ \/ \E t \in {a.data.rtf, a.data.html, a.data.plain} : Has(t, Storable)
            \/ \E n \in DOMAIN a.data.files \cap 1..MAX_EMBEDDED_FILES :
                 _dispatch_embedded(a.data.files[n]) # << >>
    [] OTHER -> FALSE

\* The payload shows something on a page that pdfplumber looked at.
Visible(a) ==
  a.type = "pdf" /\ ~a.data.plumber_fails /\ _has_undrawn_content(Looked(a.data))

\* NULL text is honest (attachment_extractor.py, "HONEST NULL"; pdf.py, EQ-1): a
\* result has text exactly when its status says so, no text is dropped that an
\* engine of the type could read, whichever engine fails or reads a blank, and
\* a PDF with something drawn on it is never called empty.
HonestNull ==
  input.kind = "attachment" /\ input.size = "ok" =>
    /\ (output.text # None) = (output.status \in TEXT_BEARING_STATUSES)
    /\ output.text # << >>
    /\ output.text = None => ~Readable(input)
    /\ output.status = "empty" => ~Visible(input)

\* The text a complete extraction stores, before masking.
WholeText(a) ==
  CASE a.type = "text" -> {Sanitized(Decoded(a.data))}
    [] a.type = "docx" -> {Sanitized(t) : t \in {a.data.body, a.data.harvest} \ {None}}
    [] a.type = "pdf"  ->
         {Sanitized(FlattenSeq([i \in DOMAIN a.data.pages |->
                                  <<"m">> \o a.data.pages[i][engine]])) :
            engine \in {"plumber", "pypdf"}}
    [] OTHER -> {}

\* Nothing is cut off in silence: `extracted` text is the whole text with its
\* credentials masked, a grid that is not marked truncated has every cell of
\* every sheet, no bound on the cells is passed, and text decoded with
\* replacement characters is text that no codec of the chain accepts.
BoundsAreTold ==
  input.kind = "attachment" /\ input.size = "ok" =>
    /\ output.status \in {"extracted", "extracted_partial_scanned"} /\ input.type \in {"text", "docx", "pdf"} =>
         output.text \in {redact_secrets(t) : t \in WholeText(input)}
    /\ output.grid # None =>
         LET grid == FlattenSeq(output.grid.sheets)
             all  == FlattenSeq([i \in DOMAIN input.data.sheets |-> Cells(input.data.sheets[i])])
         IN /\ Len(grid) <= MAX_CELLS
            /\ FoldLeft(LAMBDA b, c : b + c.size, 0, grid) <= MAX_STRUCTURED_BYTES
            /\ ~output.grid.truncated => grid = SelectSeq(all, LAMBDA c : c.size > 0)
    /\ input.type = "text" /\ output.text # None /\ Has(output.text, {"u"}) => input.data.accepts = {}
=============================================================================
