SPECIFICATION EndpointSpec
CONSTANTS
  FlagUrls <- MCFlagUrls
  EnvUrls <- MCEnvUrls
INVARIANT
  DefaultIsLocalhost
