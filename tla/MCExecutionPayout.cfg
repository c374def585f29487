SPECIFICATION Spec
CONSTANTS
  Absent = Absent
  NoLimit = NoLimit
  alice = alice
  bob = bob
  carol = carol
  dave = dave
  treasury = treasury
  miner = miner
  oracle = oracle
  xusd = xusd
  shop = shop
  ka = ka
  kb = kb
  kc = kc
  kd = kd
  kt = kt
  ko = ko
  Account <- MCAccount
  Key <- MCKey
  Code = {1}
  Hybrid <- MCHybrid
  ImplicitOf <- MCImplicitOf
  Names <- MCNames
  Genesis <- MCGenesis
  Action <- MCAction
  Menus <- MCPayoutMenus
  ActiveFrom <- MCActiveFrom
  XusdIssuer = xusd
  OracleAccount = oracle
  Miner = miner
  RingLen = 2
  BaseReward = 4
  HalvingInterval = 2
  MiningBudget = 9
  MaxSupply = 124
  GasPrice = 1
  NameFee = 1
  MaxToken = 5
  MaxCode = 2
  MaxSigners = 2
  MaxPolicyEntries = 2
  PriceScale = 1
  SeedPrice = 1
  MinRatioPct = 150
  MaxOracleMove = 10
  DrainBlocks = 2
  DrainLimit = 4
  MaxV2Notes = 3
  PqRotation = 2
  PqSunset = 3
  PqThreshold = 30
  MaxAge = 1
  Tolerance = 0
  MaxHeight = 3
  MaxBlockTxs = 2
  MaxNonce = 3
  MaxNesting = 3
PROPERTIES
  ProposalsConserve
