SPECIFICATION Spec
CONSTANTS
    a = a
    b = b
    c = c
    i1 = i1
    i2 = i2
    i3 = i3
    i4 = i4
    Players = {a, b}
    Items = {i1, i2, i3, i4}
    Owner <- Owner4
    Coins <- Coins2
    MaxMoney = 0
    Outside = 0
    Capacity = 2
    Traded = 2
    MaxChanges = 3
    Late = 2
    Nobody = Nobody
    NoItem = NoItem
INVARIANTS
    ItemsKept
