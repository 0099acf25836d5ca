CONSTANTS
  Unpacked <- UnpackedBodies
  MaxNesting = 3
  Corpora <- Directories
  CredentialHeaders = {"x_api_key"}
  TraceHeaders = {"b3"}
  TraceMarkers = {"**TRACE_ID**", "**TRACE_ID_1**"}
  Redacted = "**REDACTED**"
  SecretShaped = {"key", "https://key"}
  Hosted = {"https://host", "http://host", "https://key"}
  Https = {"https://host", "https://key"}
  Placeholder = {"sample id"}
  EpochPlaceholder = {"1234567890"}
  Usage <- Json
  DataLines <- Streams
  DaysFromNow <- Times
  Year2020 <- Start2020
SPECIFICATION Spec
CHECK_DEADLOCK FALSE
INVARIANTS TraceHeadersFail
