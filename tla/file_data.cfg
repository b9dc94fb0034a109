CONSTANTS
  AES_BLOCK_SIZE = 3
  SLN_FLASH_FILE_HEADER_MAX_SIZE = 5
  Bytes = {1, 2, 3}
  MaxLength = 7
  MaxBuffer = 8
  Aligned = FALSE
  Garbage = Garbage
SPECIFICATION Spec
INVARIANTS RoundTrip SizeAnswered
