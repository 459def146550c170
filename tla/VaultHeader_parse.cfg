SPECIFICATION Spec
CONSTANTS
  File <- SomeFiles
  Header <- SomeHeaders
  Magic = 4
  Iterations = {1, 2}
  Argon2 <- SomeArgon2
  SaltLength = {1, 2}
  KeyLength = {1, 2}
INVARIANTS TypeOK OnlyFormatErrors SerialisesAsRead RoundTrip TruncatedIsRejected
CHECK_DEADLOCK FALSE
