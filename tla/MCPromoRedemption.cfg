\* Failing calls and dying workers.
CONSTANTS
    a1 = a1
    a2 = a2
    b = b
    c = c
    wa = wa
    wb = wb
    wc = wc
    Request <- MCRequest
    Wallet <- MCWallet
    WalletOf <- MCWalletOf
    StartingCount = 2
    PerWallet = 1
SPECIFICATION Spec
INVARIANTS
    NoOverRedemption
    WalletCap
    RedeemedIsLogged
    NoSlotLost
\* Every attempt ends.
CHECK_DEADLOCK FALSE
