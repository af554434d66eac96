CONSTANTS
  NoSn = NoSn
  None = None
  Conns = {k1, k2}
  gateway = gateway
  meter = meter
  Sns = {gateway, meter}
  Packets <- Announcements
  Discovered = {meter}
  Handles = {h1, h2}
SPECIFICATION Spec
SYMMETRY KeySymmetry
VIEW Seen
INVARIANTS RoutesAreClaims GoneIsUnreachable
PROPERTIES OthersKeepEntries ImplementsDirectory
CHECK_DEADLOCK FALSE
