CONSTANTS
  Policies <- EveryPolicy
  Baseline <- BaselineProfile
  Exchanges <- TwoExchanges
  WidthOf <- Widths
  EscapeOf <- Escapes
SPECIFICATION Spec
CHECK_DEADLOCK FALSE
INVARIANTS TypeOK VerifierAccepts SecretsGone DiscoveredGone EndpointReadsAsUri BodiesRestorable ShortIdsStay
