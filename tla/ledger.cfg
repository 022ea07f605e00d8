CONSTANTS
  u1 = u1
  u2 = u2
  w1 = w1
  w2 = w2
  None = None
  Users = {u1, u2}
  Wallets = {w1, w2}
  SyncIds = {s1}
  Requests = {r1, r2, r3}
  Owner <- OneOwner
  Opening <- OpeningBalances
  Amounts <- SentAmounts
  Grain = 4
  Rates = {2}
  Balances = {5}
  Offered = {"income", "transfer", "overwrite", "close", "strike"}
SPECIFICATION Spec
SYMMETRY RequestSymmetry
INVARIANTS TypeOK SyncIdUnique BalancesExplained AnswersAreTruthful LedgerInv
PROPERTY RefinesAtomicLedger
