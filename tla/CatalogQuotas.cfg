SPECIFICATION Spec
CONSTANTS
    home = home
    Products = {home, p2}
    Devices = {d1, d2}
    ProductOf <- MCProductOf
    Requests = {r1, r2, r3}
    NoItem = NoItem
    MaxProducts = 1
    MaxDevices = 1
SYMMETRY MCSymmetry
INVARIANTS TypeOK DeletedProductsAreEmpty ShadowComesWithDevice
PROPERTIES ImplementsQuotas
