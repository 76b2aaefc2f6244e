CONSTANTS
    ann = ann  bob = bob
    Versions = {v1, v2}
    Dated = {v1}
    Accepts = {v1}
    Requests = {c1}
    Ids = {ann, bob}
    IdOf <- AllAnn
    Refreshers = {ann}
    Ttl = 1
    MinInterval = 1
    Window = 2
    Limit = 1
    MaxIds = 1
    Modes = {TRUE, FALSE}
    MaxEvents = 1
    None = None
SPECIFICATION FairSpec
INVARIANTS TypeOK RateCap
PROPERTIES  IntervalKept StaleRefreshedUnlessMisread
