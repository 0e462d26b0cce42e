SPECIFICATION Spec
CONSTANTS
  w1 = w1
  w2 = w2
  a1 = a1
  v1 = v1
  r1 = r1
  r2 = r2
  c1 = c1
  g1 = g1
  g2 = g2
  Wallets = {w1, w2}
  Payers = {w1}
  AssetKeys = {a1}
  CollectionKeys = {c1}
  GroupKeys = {g1, g2}
  Vault <- MCVault
  Recipients <- MCRecipients
  RentOverhead = 1
  CreateFee = 1
  ExecuteFee = 2
  CoreBytes = 2
  MaxBytes = 3
  MaxMembers = 1
  MaxCollected = 2
  Funds = 11
VIEW accounts
SYMMETRY GroupSymmetry
INVARIANTS
  RentAndFeesAreThere
  LamportsAreConserved
PROPERTIES
  CallsAreReadBack
  PrivilegesSuffice
  OnlyPayersPay
CHECK_DEADLOCK FALSE
