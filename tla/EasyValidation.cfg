\* One handle, every option set, reset and failed; performs up to the bound
\* on header nodes; two bodies that overflow the response buffer together.
\* The JSON builders' properties are checked over all strings of up to two
\* explored characters.
CONSTANTS
  Values <- OptionValues
  Bodies = {"b1", "b2"}
  BodySize <- BodySizes
  ResponseLimit = 3000
  MaxHeaderNodes = 10
  Chars <- CharsExplored
  MaxLen = 2
  EscapeLimit = 1024
  PayloadLimit = 2048
  PayrollLimit = 4096
SPECIFICATION Spec
INVARIANT TypeOK
INVARIANT StringsOwned
INVARIANT EscapeRoundTrip
INVARIANT PayloadCarriesFields
