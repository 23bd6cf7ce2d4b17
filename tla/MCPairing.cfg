CONSTANTS
  ada = ada
  Identity = {ada}
  Code = {c1, c2}
  IdentityOf <- OneMember
  Request = {desktop, agent}
  Agent = {agent}
  Ttl = 2
  GrantTtl = 1
  MaxTime = 3
  MaxDraws = 2
  MaxChanges = 2
  MaxFaults = 2
SYMMETRY Interchangeable
SPECIFICATION Spec
INVARIANTS
  TypeOK
  OneStoredToken
  CodeIsNotBurnt
CHECK_DEADLOCK FALSE
