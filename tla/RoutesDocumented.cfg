\* Every request of a client.
SPECIFICATION RequestsSpec
CONSTANTS
    Segments <- MCSegments
    Glued <- MCGlued
    Requests <- MCRequestsOfClients
    Texts = {"userNotFound"}
    MaxHops = 1
    None = None
    Retries = 1
    Delay = 1
    Timeout = 2
    Traced = {r1, r2}
PROPERTIES
    DocumentedRoutesServe
