\* Two requests beside each other, two periods; a limit below the renewal.
SPECIFICATION Spec
CONSTANTS
    q1 = q1
    q2 = q2
    Slot <- TwoSlots
    Limit = 2
    Renewal = 3
    EstMin = 1
    HopMin = 1
    MaxHops = 2
    Cap = 4
    Cost <- Two
    MaxPeriod = 2
    MaxSpent = 4
SYMMETRY Symmetric
INVARIANTS TypeOK BalanceConsistent NeverOvercharged CapNeverPremature
