SPECIFICATION Spec
CONSTANTS
  r1 = r1 r2 = r2 r3 = r3 r4 = r4 ann = ann bob = bob oda = oda desk = desk
  Request = {r1, r2, r3, r4}
  User = {ann, bob, oda}
  Oidc = {oda}
  Bootstrap = ann
  Handoff = {desk}
  Scenarios <- MCScenarios
  LoginLimit = 1
  AddressLimit = 2
  MaxPauses = 1
  MaxRestarts = 1
INVARIANTS AnAdministratorRemains RevocationHolds OneSessionPerApproval 
SYMMETRY MCSymmetry
CHECK_DEADLOCK FALSE
