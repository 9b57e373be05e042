SPECIFICATION EndpointSpec
CONSTANTS
  FlagUrls <- MCFlagUrls
  EnvUrls <- MCEnvUrls
INVARIANTS
  PrecedenceHolds
  TransportAsAsked
  DescriptionIsTrue
