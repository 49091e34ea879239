\* Gateway, owner, admission, peer RPC and API, each in behaviours of its own.
CONSTANTS
  Nobody = Nobody  None = None  NoIdentity = NoIdentity  NoServer = NoServer  NoKey = NoKey
  Skew = 0
  Sockets = {"s1", "s2"}
  Profile <- Workers
  Clients = {"u"}
  Session <- Sessions
  Requests = {"q1", "q2"}
  Calls <- Pairs
  MaxWorkers = 1
  MaxConnections = 3
  MaxPending = 1
  MaxSlots = 2
  MaxBytes = 1
  Buffer = 1
  AnswerSize <- OfSizeOne
  Servers = {1, 2, 3}
  Hosts = {"h"}
  Adapters <- Deployments
  Attempts <- Arrivals
  Credentials <- Issued
  MaxCapabilities = 2
  MaxBody = 1
  MaxTimeout = 1
  CredentialTtl = 2
  StoreTtl = 2
  MaxAdmissionTime = 3
  MaxTries = 2
  PeerCalls = {"x", "y"}
  Kinds <- PairsOfCalls
  Here <- ThisPeer
  Stores = {"memory", "file", "bounded"}
  MaxPeerTries = 2
  EnvelopeTtl = 2
  NonceWindow = 2
  NonceStoreTtl = 2
  CleanupInterval = 2
  MaxNonces = 2
  MaxClock = 3
  KeyIds = {"k1", "k2", "k3"}
  Material <- Keys
  MinSecretBytes = 1
  MaxTime = 2
  ApiRequests = {"r1", "r2"}
  Asks <- PairsOfRoutes
  Grants <- Granted
  HostKinds <- GuardedAndOpen
  QueryRoutes = {}
  MaxPayload = 1
SPECIFICATION MCSpec
INVARIANTS
  AnswersComeFromTheWorkerAsked 
    SupersededNeverSigns 
 
CHECK_DEADLOCK FALSE
