\* Four contracts with owners and admins, two changes of ownership, three of
\* roles; five contracts with versions; two deployment scripts, time up to 6.
CONSTANTS
  factory = factory
  hook = hook
  lens = lens
  tower = tower
  irm = irm
  oracle = oracle
  impl = impl
  dao = dao
  daoOld = daoOld
  dev = dev
  core = core
  update = update
  silo = silo
  a1 = a1
  a2 = a2
  a3 = a3
  Deployments <- MCDeployments
  Abi <- MCAbi
  Excluded <- MCExcluded
  SiloHooks <- MCSiloHooks
  OwnerAccounts <- MCOwnerAccounts
  OwnerAddresses <- MCOwnerAddresses
  MaxTransfers = 2
  AdminAccounts <- MCAdminAccounts
  AdminAddresses <- MCAdminAddresses
  MaxRoleChanges = 3
  DeployedList <- MCDeployedList
  GetterList <- MCGetterList
  VersionAddresses <- MCVersionAddresses
  Versions <- MCVersions
  Expected <- MCExpected
  Scripts <- MCScripts
  ContractsOf <- MCContractsOf
  BroadcastAddresses <- MCBroadcastAddresses
  NoBlock = 0
  MaxAge = 2
  MaxTime = 6
  Zero = Zero
  NoAdmin = NoAdmin
  NotRead = NotRead
  NoAddress = NoAddress
  NoVersion = NoVersion
  Idle = Idle
SPECIFICATION Spec
CHECK_DEADLOCK FALSE
INVARIANTS
  TypeOK
  PassedHadDao
  ExactWhenQuiet
  CleanMeansCurrent
  AgesAreTrue
