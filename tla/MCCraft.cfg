SPECIFICATION RewriteSpec
CONSTANTS
  Builders <- MCBuilders
  MaxLayers = 4
  MaxLength = 120
  Captures <- MCCaptures
  Rewriters <- MCRewriters
INVARIANTS BytesDescribeLayers ChecksumsVerify ChecksumsSurviveRewriting RewriteIsLocal
CHECK_DEADLOCK FALSE
