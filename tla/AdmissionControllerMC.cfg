SPECIFICATION FairSpec
CONSTANTS
  a1 = a1  a2 = a2  a3 = a3  a4 = a4  b1 = b1  b2 = b2  A = A  B = B
  Calls = {a1, a2, a3, a4, b1, b2}
  Tenants = {A, B}
  TenantOf <- MCTenantOf
  Abortable = {a3, a4}
  Timed = {a4}
  MaxInflight = 2
INVARIANTS Budget
PROPERTIES Refinement
