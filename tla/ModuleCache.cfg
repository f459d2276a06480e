SPECIFICATION Spec
CONSTANTS
    None = None
    t1 = t1
    t2 = t2
    service = service
    inner = inner
    adapter = adapter
    other = other
    moduleUrl = moduleUrl
    k1 = k1
    k2 = k2
    r1 = r1
    r2 = r2
    Tenants = {t1, t2}
    Items = {service, inner, adapter, other}
    Adapters = {adapter, other}
    Owner <- MCOwner
    Key <- MCKey
    Relative = {moduleUrl}
    Private <- MCPrivate
    Config <- MCConfig
    Stores <- MCStores
    Tasks = {k1, k2}
    Readers = {r1, r2}
    MaxEdits = 1
    MaxCalls = 4
    Casts <- MCCasts
CHECK_DEADLOCK FALSE
INVARIANTS  ReloadedUnlessShared CatalogueIsComplete
