------------------------ MODULE AttachmentExtraction ------------------------
(***************************************************************************)
(* What text an attachment yields (connectors/extraction/* and the seam in *)
(* imap/parsing/attachment_extractor.py), as pure functions of a payload.  *)
(*                                                                         *)
(* A text is a short sequence of tokens: "c" content, "k" a credential,    *)
(* "x" a character that cannot be stored, "u" the replacement character,   *)
(* "m" a page, sheet or section marker the extractor adds itself, "r" the  *)
(* placeholder of a masked credential, "j" a letter the markup escapes     *)
(* under a single-byte code page it wrongly declares.  What an engine      *)
(* (pdfplumber, pypdf, python-docx, openpyxl, tnefparse) reads from the    *)
(* bytes is a field of the payload, None when the engine raises.           *)
(***************************************************************************)
EXTENDS Integers, Sequences, FiniteSets, SequencesExt

CONSTANTS
  None,
  MAX_EXTRACTED_CHARS,
  MAX_PDF_PAGES, SCAN_MIN_CHARS, VECTOR_CONTENT_MIN_OBJECTS, PYPDF_IMAGE_PROBE_PAGES,
  MAX_XML_PARTS_BYTES, MAX_CONTENT_TYPES_BYTES, MAX_ZIP_MEMBERS,
  MAX_CENTRAL_DIR_BYTES, MAX_DECOMPRESSED_BYTES,
  MAX_CELLS, MAX_SCANNED_CELLS, MAX_STRUCTURED_BYTES, MAX_SHEETS,
  RENDER_MAX_ROWS, RENDER_MAX_COLS,
  MAX_EMBEDDED_FILES,
  DETECTION_MIN_NON_ASCII,
  MAX_REDACT_SCAN_CHARS

TEXT_BEARING_STATUSES == {"extracted", "truncated", "extracted_partial_scanned"}

ExtractionResult(text, status) == [text |-> text, status |-> status, grid |-> None]

\* sanitize_body_text
Sanitized(text) == SelectSeq(text, LAMBDA ch : ch # "x")
Capped(text)    == SubSeq(text, 1, IF Len(text) < MAX_EXTRACTED_CHARS THEN Len(text)
                                   ELSE MAX_EXTRACTED_CHARS)

\* Sanitized text as a result: cut at the cap, and `truncated` when the reader
\* had stopped early or the cap cut something off.
_text_result(text, bailed) ==
  IF ~bailed /\ Len(text) <= MAX_EXTRACTED_CHARS THEN ExtractionResult(text, "extracted")
  ELSE ExtractionResult(Capped(text), "truncated")

TextOrEmpty(text) == IF text = << >> THEN ExtractionResult(None, "empty")
                     ELSE _text_result(text, FALSE)

-----------------------------------------------------------------------------
\* Text, HTML and RTF: decoded by the charset chain, markup flattened.

\* Bytes: the codecs that accept them, how many are not ASCII, and the codec the
\* detector finds most coherent (None: it finds none).
decode_charset_chain(b) ==
  IF "utf-8" \in b.accepts THEN "utf-8"
  ELSE IF b.non_ascii >= DETECTION_MIN_NON_ASCII /\ b.coherent # None THEN b.coherent
  ELSE IF "cp1252" \in b.accepts THEN "cp1252"
  ELSE IF "windows-1251" \in b.accepts THEN "windows-1251"
  ELSE "utf-8-replace"

Decoded(b) == IF decode_charset_chain(b) = "utf-8-replace"
              THEN [i \in DOMAIN b.text |-> IF b.text[i] = "c" THEN "u" ELSE b.text[i]]
              ELSE b.text

\* _decoded_result: this path has no cap.
decoded_result(text) == IF text = << >> THEN ExtractionResult(None, "empty")
                        ELSE ExtractionResult(text, "extracted")

_decode_text(b)   == decoded_result(Sanitized(Decoded(b)))
\* b.mends: put back to single bytes, the flattened text is read by the chain in
\* the codec it was written in.  A text (one line) with a replacement character
\* does not go back to single bytes, and a text read right comes back as it was.
redecode_single_byte_text(b, text) ==
  IF b.mends /\ "u" \notin Range(text)
  THEN [i \in DOMAIN text |-> IF text[i] = "j" THEN "c" ELSE text[i]]
  ELSE text

\* html_to_text, rtf_to_text and then the second decoding.
Flattened(b) == redecode_single_byte_text(b, SelectSeq(Decoded(b), LAMBDA ch : ch # "m"))

\* _decode_html, _decode_rtf: the flattener drops the markup, or raises.
_decode_markup(b) ==
  IF b.flattens THEN decoded_result(Sanitized(Flattened(b)))
  ELSE ExtractionResult(None, "corrupt")

-----------------------------------------------------------------------------
\* PDF

\* A page: what pdfplumber (text and tables) and pypdf read on it, whether it
\* has an image and one that covers it, and its vector objects.
is_image_only(page) == Len(page.plumber) < SCAN_MIN_CHARS /\ page.covering

SumOver(pages, Count(_)) == FoldLeft(LAMBDA total, page : total + Count(page), 0, pages)

\* The page loop both engines share: a marker and the page's text per page, until
\* the text passes the cap or the page bound is met.  No text at all when no page
\* has any.
ReadPages(pages, engine) ==
  LET PageText(page) == page[engine]
      text[n \in 0..Len(pages)] ==
        IF n = 0 THEN << >> ELSE text[n - 1] \o <<"m">> \o PageText(pages[n])
      OverCap(n) == Len(text[n]) > MAX_EXTRACTED_CHARS
      last == CHOOSE n \in 0..Len(pages) :
                /\ n = Len(pages) \/ n = MAX_PDF_PAGES \/ OverCap(n)
                /\ \A k \in 1..(n - 1) : k # MAX_PDF_PAGES /\ ~OverCap(k)
      seen == SubSeq(pages, 1, last)
  IN [text   |-> IF \E i \in DOMAIN seen : PageText(seen[i]) # << >> THEN text[last] ELSE << >>,
      pages  |-> seen,
      bailed |-> OverCap(last) \/ last < Len(pages)]

_looks_scanned(pages) ==
  /\ SumOver(pages, LAMBDA page : Len(page.plumber)) < SCAN_MIN_CHARS
  /\ \E i \in DOMAIN pages : pages[i].covering

_has_undrawn_content(pages) ==
  \/ \E i \in DOMAIN pages : pages[i].image
  \/ SumOver(pages, LAMBDA page : page.vectors) >= VECTOR_CONTENT_MIN_OBJECTS

_plumber_text_verdict(text, document) ==
  LET result == _text_result(text, document.bailed)
  IN IF result.status = "extracted" /\ \E i \in DOMAIN document.pages : is_image_only(document.pages[i])
     THEN ExtractionResult(result.text, "extracted_partial_scanned")
     ELSE result

\* None when pypdf raises or reads nothing.
_pypdf_text_rescue(pdf) ==
  LET document == ReadPages(pdf.pages, "pypdf")
      text     == Sanitized(document.text)
  IN IF pdf.pypdf_fails \/ text = << >> THEN None ELSE _text_result(text, document.bailed)

_pypdf_full_fallback(pdf) ==
  LET document == ReadPages(pdf.pages, "pypdf")
      text     == Sanitized(document.text)
      probe    == DOMAIN pdf.pages \cap 1..PYPDF_IMAGE_PROBE_PAGES
  IN IF pdf.pypdf_fails THEN ExtractionResult(None, "corrupt")
     ELSE IF text # << >> THEN _text_result(text, document.bailed)
     ELSE ExtractionResult(None, IF \E i \in probe : pdf.pages[i].image
                                 THEN "scanned_pending_ocr" ELSE "empty")

extract_pdf_text_OneEngine(pdf) ==
  LET document == ReadPages(pdf.pages, "plumber")
      text     == Sanitized(document.text)
      rescued  == _pypdf_text_rescue(pdf)
  IN IF pdf.locked THEN ExtractionResult(None, "encrypted")
     ELSE IF pdf.plumber_fails THEN _pypdf_full_fallback(pdf)
     ELSE IF _looks_scanned(document.pages) THEN ExtractionResult(None, "scanned_pending_ocr")
     ELSE IF text # << >> THEN _plumber_text_verdict(text, document)
     ELSE IF rescued # None THEN rescued
     ELSE ExtractionResult(None, IF _has_undrawn_content(document.pages)
                                 THEN "scanned_pending_ocr" ELSE "empty")
\* `locked` only when pypdf opens the file and the empty password does not.
extract_pdf_text(pdf) ==
  LET document == ReadPages(pdf.pages, "plumber")
      text     == Sanitized(document.text)
      rescued  == _pypdf_text_rescue(pdf)
  IN IF pdf.locked THEN ExtractionResult(None, "encrypted")
     ELSE IF pdf.plumber_fails THEN _pypdf_full_fallback(pdf)
     ELSE IF _looks_scanned(document.pages)
          THEN IF rescued = None THEN ExtractionResult(None, "scanned_pending_ocr")
               ELSE IF rescued.status = "truncated" THEN rescued
               ELSE ExtractionResult(rescued.text, "extracted_partial_scanned")
     ELSE IF text # << >> THEN _plumber_text_verdict(text, document)
     ELSE IF rescued # None THEN rescued
     ELSE ExtractionResult(None, IF _has_undrawn_content(document.pages)
                                 THEN "scanned_pending_ocr" ELSE "empty")

-----------------------------------------------------------------------------
\* OOXML packages: docx and xlsx

PartBytes(parts) == FoldLeft(LAMBDA total, part : total + part.size, 0, parts)

DomParsed(part) == part.xml_name \/ part.xml_type

\* The parts that will be parsed, by suffix and then by the type the manifest
\* gives a part with another suffix; an unreadable manifest gives none.
_xml_parts_over_bound(zip) ==
  \/ PartBytes(SelectSeq(zip.members, LAMBDA part : part.xml_name)) > MAX_XML_PARTS_BYTES
  \/ zip.manifest > MAX_CONTENT_TYPES_BYTES
  \/ PartBytes(SelectSeq(zip.members, DomParsed)) > MAX_XML_PARTS_BYTES

\* zip.declared members in a directory of zip.directory bytes is what the end
\* record claims, the members are what is there.
validate_ooxml_package(zip) ==
  /\ zip.declared <= MAX_ZIP_MEMBERS /\ zip.directory <= MAX_CENTRAL_DIR_BYTES
  /\ zip.opens
  /\ PartBytes(zip.members) <= MAX_DECOMPRESSED_BYTES
  /\ Len(zip.members) <= MAX_ZIP_MEMBERS
  /\ ~_xml_parts_over_bound(zip)

\* python-docx reads the body, else the XML harvest does; None: it raises.
extract_docx_text(docx) ==
  IF docx.ole THEN ExtractionResult(None, "encrypted")
  ELSE IF ~validate_ooxml_package(docx.zip) THEN ExtractionResult(None, "corrupt")
  ELSE IF docx.body # None THEN TextOrEmpty(Sanitized(docx.body))
  ELSE IF docx.harvest # None THEN TextOrEmpty(Sanitized(docx.harvest))
  ELSE ExtractionResult(None, "corrupt")

\* A sheet is its rows, a row its cells, a cell the size of its value (0: empty).
Cells(sheet) ==
  FlattenSeq([r \in DOMAIN sheet |-> [c \in DOMAIN sheet[r] |->
                [row |-> r, col |-> c, size |-> sheet[r][c]]]])

_Capture == [sheets |-> << >>, blocks |-> << >>, cell_count |-> 0, scanned |-> 0,
             structured_bytes |-> 0, truncated |-> FALSE, any_cell |-> FALSE]

Rendered(cell) == cell.row <= RENDER_MAX_ROWS /\ cell.col <= RENDER_MAX_COLS

ScanCell_LateCheck(scan, cell) ==
  LET scanned == scan.scanned + 1
  IN IF scan.stopped THEN scan
     ELSE IF scanned > MAX_SCANNED_CELLS
          THEN [scan EXCEPT !.scanned = scanned, !.truncated = TRUE, !.stopped = TRUE]
     ELSE IF cell.size = 0 THEN [scan EXCEPT !.scanned = scanned]
     ELSE IF scan.cell_count >= MAX_CELLS \/ scan.structured_bytes > MAX_STRUCTURED_BYTES
          THEN [scan EXCEPT !.scanned = scanned, !.any_cell = TRUE, !.truncated = TRUE,
                            !.stopped = TRUE]
     ELSE [scan EXCEPT !.scanned = scanned, !.any_cell = TRUE,
                       !.cells = Append(scan.cells, cell),
                       !.cell_count = scan.cell_count + 1,
                       !.structured_bytes = scan.structured_bytes + cell.size]
\* One cell of the scan; `stopped` is the break out of the sheet's two loops.
ScanCell(scan, cell) ==
  LET scanned == scan.scanned + 1
  IN IF scan.stopped THEN scan
     ELSE IF scanned > MAX_SCANNED_CELLS
          THEN [scan EXCEPT !.scanned = scanned, !.truncated = TRUE, !.stopped = TRUE]
     ELSE IF cell.size = 0 THEN [scan EXCEPT !.scanned = scanned]
     ELSE IF \/ scan.cell_count >= MAX_CELLS
             \/ scan.structured_bytes + cell.size > MAX_STRUCTURED_BYTES
          THEN [scan EXCEPT !.scanned = scanned, !.any_cell = TRUE, !.truncated = TRUE,
                            !.stopped = TRUE]
     ELSE [scan EXCEPT !.scanned = scanned, !.any_cell = TRUE,
                       !.cells = Append(scan.cells, cell),
                       !.cell_count = scan.cell_count + 1,
                       !.structured_bytes = scan.structured_bytes + cell.size]

\* _render_block: the marker, the cells inside the window, a note on rows left out.
RenderBlock(cells) ==
  LET inside == SelectSeq(cells, Rendered)
      capped == \E i \in DOMAIN cells :
                  cells[i].row > RENDER_MAX_ROWS /\ cells[i].col <= RENDER_MAX_COLS
  IN <<"m">> \o [i \in DOMAIN inside |-> "c"]
            \o (IF capped /\ inside # << >> THEN <<"m">> ELSE << >>)

_capture_sheet(capture, sheet) ==
  LET start == [stopped |-> FALSE, cells |-> << >>, cell_count |-> capture.cell_count,
                scanned |-> capture.scanned, structured_bytes |-> capture.structured_bytes,
                truncated |-> capture.truncated, any_cell |-> capture.any_cell]
      scan  == FoldLeft(ScanCell, start, Cells(sheet))
  IN [sheets |-> Append(capture.sheets, scan.cells),
      blocks |-> Append(capture.blocks, RenderBlock(scan.cells)),
      cell_count |-> scan.cell_count, scanned |-> scan.scanned,
      structured_bytes |-> scan.structured_bytes, truncated |-> scan.truncated,
      any_cell |-> scan.any_cell]

\* A full cell budget ends the workbook; a full byte or scan budget only the sheet.
_capture_workbook(sheets) ==
  LET dropped == Len(sheets) > MAX_SHEETS
      kept    == IF dropped THEN SubSeq(sheets, 1, MAX_SHEETS) ELSE sheets
      Step(capture, sheet) == IF capture.truncated /\ capture.cell_count >= MAX_CELLS
                              THEN capture ELSE _capture_sheet(capture, sheet)
  IN FoldLeft(Step, [_Capture EXCEPT !.truncated = dropped], kept)

_result_from_capture(capture) ==
  LET text   == FlattenSeq(capture.blocks)
      result == IF capture.any_cell THEN TextOrEmpty(text) ELSE ExtractionResult(None, "empty")
  IN [result EXCEPT !.grid = [sheets |-> capture.sheets, truncated |-> capture.truncated]]

extract_xlsx_text(xlsx) ==
  IF xlsx.ole THEN ExtractionResult(None, "encrypted")
  ELSE IF ~validate_ooxml_package(xlsx.zip) \/ xlsx.sheets = None THEN ExtractionResult(None, "corrupt")
  ELSE _result_from_capture(_capture_workbook(xlsx.sheets))

-----------------------------------------------------------------------------
\* TNEF

\* The layers of the body: << >> when absent, over its bound or unreadable.
_container_body_text(tnef) ==
  LET layers == <<tnef.rtf, tnef.html, tnef.plain>>
      found  == {i \in 1..3 : Sanitized(layers[i]) # << >>}
  IN IF found = {} THEN << >>
     ELSE Sanitized(layers[CHOOSE i \in found : \A j \in found : i <= j])

\* Magic first, then whether the head of the file decodes as text.
detect_payload_kind(file) ==
  IF file.magic # None THEN file.magic ELSE IF file.text_head THEN "text" ELSE "unknown"

\* The whole text must be printable, not only the head that was sniffed.
_embedded_text_payload(file) ==
  IF file.printable /\ file.flattens THEN Sanitized(Flattened(file)) ELSE << >>

\* The text of an embedded file; << >> when only its marker is rendered.
_dispatch_embedded(file) ==
  LET kind     == detect_payload_kind(file)
      TextOf(r) == IF r.text = None THEN << >> ELSE r.text
  IN IF kind = "pdf" THEN TextOf(extract_pdf_text(file.pdf))
     ELSE IF kind = "zip" THEN TextOf(extract_docx_text(file.docx))
     ELSE IF kind = "text" THEN _embedded_text_payload(file)
     ELSE << >>

extract_tnef_text(tnef) ==
  LET body == _container_body_text(tnef)
      text[n \in 0..Len(tnef.files)] ==
        IF n = 0 THEN body ELSE text[n - 1] \o <<"m">> \o _dispatch_embedded(tnef.files[n])
      OverCap(n) == n > 0 /\ Len(text[n]) > MAX_EXTRACTED_CHARS
      last == CHOOSE n \in 0..Len(tnef.files) :
                /\ n = Len(tnef.files) \/ n = MAX_EMBEDDED_FILES \/ OverCap(n)
                /\ \A k \in 0..(n - 1) : k # MAX_EMBEDDED_FILES /\ ~OverCap(k)
      skipped == ~OverCap(last) /\ last < Len(tnef.files)
      whole   == text[last] \o (IF skipped THEN <<"m">> ELSE << >>)
      content == body # << >> \/ \E n \in 1..last : _dispatch_embedded(tnef.files[n]) # << >>
  IN IF ~tnef.parses THEN ExtractionResult(None, "corrupt")
     ELSE IF ~content THEN ExtractionResult(None, "empty")
     ELSE _text_result(Sanitized(whole), OverCap(last))

-----------------------------------------------------------------------------
\* The seam

\* Every credential detected in the part that is scanned becomes a placeholder.
redact_secrets(text) ==
  [i \in DOMAIN text |-> IF text[i] = "k" /\ i <= MAX_REDACT_SCAN_CHARS THEN "r" ELSE text[i]]

_mask_secrets(result) ==
  IF result.text = None THEN result ELSE [result EXCEPT !.text = redact_secrets(result.text)]

\* By the declared type; attachment.data is the payload that type's reader sees.
_dispatch_extract(attachment) ==
  CASE attachment.size = "none"             -> ExtractionResult(None, "empty")
    [] attachment.size = "over"             -> ExtractionResult(None, "skipped_oversize")
    [] OTHER ->
       CASE attachment.type \in {"html", "rtf"} -> _decode_markup(attachment.data)
         [] attachment.type = "text"        -> _decode_text(attachment.data)
         [] attachment.type = "pdf"         -> extract_pdf_text(attachment.data)
         [] attachment.type = "docx"        -> extract_docx_text(attachment.data)
         [] attachment.type = "xlsx"        -> extract_xlsx_text(attachment.data)
         [] attachment.type = "tnef"        -> extract_tnef_text(attachment.data)
         [] attachment.type = "nondocument" -> ExtractionResult(None, "skipped_nondocument")
         [] OTHER                           -> ExtractionResult(None, "unsupported_format")

extract_text(attachment) == _mask_secrets(_dispatch_extract(attachment))
=============================================================================
