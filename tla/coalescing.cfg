SPECIFICATION Spec
CONSTANTS
  r1 = r1
  r2 = r2
  r3 = r3
  k1 = k1
  en = en
  fr = fr
  Requests = {r1, r2, r3}
  NoRequest = NoRequest
  Keys = {k1}
  KeyOf <- OneKey
  Variants = {en, fr, none}
  NoVariant = none
  VariantOf <- TwoVariants
  NoBuffer = NoBuffer
  Buffers = {b1, b2, b3}
  Modes = {"miss"}
  Clients <- PlainClients
  Answers <- Coalesced
  DisableCoalescing = FALSE
  CtxEnds = {}
  MaxCalls = 4
INVARIANTS
  WholeResponse
  PrivateToItsClient
  VariantMatches
  BoundedRetries
SYMMETRY Symmetric
CHECK_DEADLOCK FALSE
