SPECIFICATION Spec
CONSTANTS
  Width = 8
  Cap = 2
  Beta = 1
  Buckets = 3
  Fraction = 8
  RatioScale = 10
  PopkeyBits = 2
  ScaleBits = 4
  CoverMin = 0
  CoverMax = 2
  KThreshold = 2
  Margin = 1
  P = 5
  Policy = "RENORMALISE"
  Canonical <- MCCanonical
  Attribute <- MCAttribute
  Ranges <- MCRanges
  Bounds <- MCBounds
  Spans <- MCSpans
  Weight <- MCWeight
  Rho <- MCRho
  Eta <- MCEta
  Xi <- MCXi
  HistNoise = {0, 1}
  Confs <- MCConfs
  Pending = Pending
  Nobody = Nobody
INVARIANTS TypeOK EveryEntityOnce WireIsPlain ForgeriesCaught ShuffleSound AuditTrail
PROPERTIES Implements
