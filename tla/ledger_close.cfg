CONSTANTS
  u1 = u1
  u2 = u2
  w1 = w1
  w2 = w2
  None = None
  Users = {u1}
  Wallets = {w1, w2}
  SyncIds = {s1}
  Requests = {r1, r2}
  Owner <- OneOwner
  Opening <- OpeningBalances
  Amounts = {1}
  Grain = 1
  Rates = {2}
  Balances = {5}
  Offered = {"income", "close"}
SPECIFICATION Spec
INVARIANT ClosedWalletIsEmpty
