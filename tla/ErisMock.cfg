SPECIFICATION Spec
CONSTANTS
  None = None
  NoExtension = NoExtension
  Requests = {r1, r2, r3}
  Names = {contract}
  Extensions = {pdf}
  MaxTime = 1
SYMMETRY Symmetric
INVARIANTS TypeOK AttachmentIntact SerialRequestsKept SearchWorks
CHECK_DEADLOCK FALSE
