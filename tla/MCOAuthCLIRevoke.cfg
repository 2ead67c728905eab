SPECIFICATION Spec

CONSTANTS
    api = api
    localhost = localhost
    ClientID = {c1}
    CertID = {"cert-001", "cert-002"}
    RawToken = {k1}
    Origin = {api, localhost}
    Segment <- MCSegment
    None = None
    ResourceBase <- MCResourceBase
    ServerURL <- MCServerURL
    BaseURL <- MCBaseURL
    ResourceArg <- MCResourceArg
    ResourcesArg <- MCResourcesArg
    PathArg <- MCPathArg

INVARIANT
    RevokeAuthenticated
