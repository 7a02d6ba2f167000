CONSTANTS
    c1 = c1  c2 = c2  j1 = j1  j2 = j2
    Jobs = {j1, j2}
    Bids = {b1, b2}
    Customers = {c1, c2}
    Providers = {p1, p2}
    Amounts = {1, 2}
    Owner <- OwnersApart
    None = None
SYMMETRY Perms
SPECIFICATION RSpec
PROPERTY AcceptedPriceWasShown
CHECK_DEADLOCK FALSE
