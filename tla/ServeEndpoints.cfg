CONSTANTS
  p1 = p1
  p2 = p2
  lan = lan
  httpWan = httpWan
  httpsWan = httpsWan
  relayed = relayed
  mine = mine
  other = other
  home = home
  NoConnection = NoConnection
  Nobody = Nobody
  NoURI = NoURI
  NoMachine = NoMachine
  Users <- MCUsers
  Connections <- MCConnections
  MaxCandidates = 3
  URIs <- MCURIs
  Machines = {mine, other}
  Https <- MCHttps
  Profiles <- MCProfiles
  Snapshots <- MCSnapshots
  MaxServeCandidates = 3
SYMMETRY Symmetry
SPECIFICATION Spec
INVARIANT NoEndpointTwice
