SPECIFICATION Spec
CONSTANTS
  NoByte = NoByte
  Headers <- MCHeaders
  Keytables <- MCKeytables
  Digests <- MCDigests
INVARIANTS TypeOK Derives IVTellsFilesApart
\* A call returns.
CHECK_DEADLOCK FALSE
