SPECIFICATION Spec
CONSTANTS
    a = a
    b = b
    c = c
    i1 = i1
    i2 = i2
    i3 = i3
    i4 = i4
    Players = {a, b, c}
    Items = {i1, i2}
    Owner <- Owner2
    Coins <- Coins3
    MaxMoney = 1
    Outside = 0
    Capacity = 1
    Traded = 1
    MaxChanges = 2
    Late = 2
    Nobody = Nobody
    NoItem = NoItem
INVARIANTS
    Paired
    AcceptedSeen
    MoneyKept
PROPERTY TradesAsAgreed
