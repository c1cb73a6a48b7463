SPECIFICATION SameModeSpec
CONSTANTS
  r1 = r1
  r2 = r2
  r3 = r3
  k1 = k1
  en = en
  fr = fr
  Requests = {r1, r2}
  NoRequest = NoRequest
  Keys = {k1}
  KeyOf <- OneKey
  Variants = {en, fr, none}
  NoVariant = none
  VariantOf <- SameVariant
  NoBuffer = NoBuffer
  Buffers = {b1, b2}
  Modes = {"miss", "fresh", "stale", "staleIfError", "swr"}
  Clients <- TwoClients
  Answers <- Revalidated
  DisableCoalescing = FALSE
  CtxEnds = {"deadline"}
  MaxCalls = 2
INVARIANTS
  TypeOK
  BufferExclusive
  StoredHeadersIntact
  StaleHidesErrors
CHECK_DEADLOCK FALSE
PROPERTY RequestReturns
