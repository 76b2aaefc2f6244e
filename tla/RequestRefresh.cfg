CONSTANTS
    ann = ann  bob = bob
    Versions = {v1, v2}
    Dated = {}
    Accepts = {v1}
    Requests = {c1}
    Ids = {ann}
    IdOf <- AllAnn
    Refreshers = {ann}
    Ttl = 1
    MinInterval = 1
    Window = 1
    Limit = 0
    MaxIds = 1
    Modes = {FALSE}
    MaxEvents = 2
    None = None
SPECIFICATION FairSpec
PROPERTIES StaleRefreshedUnlessMisread ContentHeals
