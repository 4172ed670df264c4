SPECIFICATION Spec
CONSTANTS
  MaxUid = 4
  MaxBytes = 3
  MaxSize = 2
  WideUids = {1, 2, 3, 5, 8, 9, 10, 11, 13}
  TopUid = 13
  MaxChars = 9
  None = None
  MAX_EXTRACTED_CHARS = 5
  MAX_REDACT_SCAN_CHARS = 5
  MAX_PDF_PAGES = 2
  SCAN_MIN_CHARS = 2
  VECTOR_CONTENT_MIN_OBJECTS = 2
  PYPDF_IMAGE_PROBE_PAGES = 1
  MAX_XML_PARTS_BYTES = 2
  MAX_CONTENT_TYPES_BYTES = 1
  MAX_ZIP_MEMBERS = 1
  MAX_CENTRAL_DIR_BYTES = 1
  MAX_DECOMPRESSED_BYTES = 3
  MAX_CELLS = 3
  MAX_SCANNED_CELLS = 6
  MAX_STRUCTURED_BYTES = 4
  MAX_SHEETS = 2
  RENDER_MAX_ROWS = 2
  RENDER_MAX_COLS = 2
  MAX_EMBEDDED_FILES = 2
  DETECTION_MIN_NON_ASCII = 2
  Ips = {i1, i2}
  Accounts = {a1, a2}
  Attempts = {q1, q2}
  MaxAttempts <- LoginAttempts
  Window = 2
  BaseLockout = 2
  MaxLockout = 4
  MaxTime = 5
  Rows = {1, 2, 3}
  Hashes = {h1, h2}
  OnDisk = {h1}
  Types = {text, pdf}
  OwnTypes = {text}
  Ingests = {w1}
  Runs = {r1, r2}
  Null = Null
  CommitBatch = 2
  MaxVersion = 2
CONSTRAINT FewAtOnce
SYMMETRY Symmetry
INVARIANTS AdvanceIsHighestContiguous BatchesPackTheUids ChunksNameExactlyTheUids
  HonestNull BoundsAreTold BudgetIsKept OutcomeIsOwn RequeueReachesStale
PROPERTY FilledIsKept
