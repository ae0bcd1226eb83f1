\* Every request of a client, an error that crosses three applications, a call with all
\* three retries whose pauses and timeout are in scale, and two requests that are traced.
SPECIFICATION RequestsSpec
CONSTANTS
    Segments <- MCSegments
    Glued <- MCGlued
    Requests <- MCRequestsOfClients
    Texts = {"userNotFound", "userExists", "invalidToken"}
    MaxHops = 3
    None = None
    Retries = 3
    Delay = 1
    Timeout = 7
    Traced = {r1, r2}
INVARIANTS
    WritesNeedToken
    ErrorsSurvive
    RepeatedAndLateEffectsAreGivenUp
PROPERTIES
    LookupsGetThrough
    TracesAreTheirOwn
    CallsEnd
