\* One handle: a second perform, or a failed header append, with the same
\* options and bounds as EasyValidation.cfg.
CONSTANTS
  Values <- OptionValues
  Bodies = {"b1", "b2"}
  BodySize <- BodySizes
  ResponseLimit = 3000
  MaxHeaderNodes = 10
  Chars <- CharsExplored
  MaxLen = 2
  EscapeLimit = 1024
  PayloadLimit = 2048
  PayrollLimit = 4096
SPECIFICATION Spec
INVARIANT HeadersOwned
