SPECIFICATION Spec
CONSTANTS
    auth = auth
    ctype = ctype
    form = form
    token = token
    invalid = invalid
    None = None
    Nil = Nil
    v = v
    r = r
    Names = {auth, ctype}
    Authorization = auth
    ContentType = ctype
    Values = {form, token, invalid}
    BadValues = {invalid}
    FormType = form
    Instances = {v}
    Requests = {r}
    defaultHeaders <- MCDefaultHeaders
    Addresses <- MCAddresses
    HeaderChoices <- MCHeaderChoices
    ProvidedSizes <- MCProvidedSizes
    MaxAllowedSize = 2
    DefaultMaxSize = 1
    OptionChoices <- MCOptionChoices
    Followed <- MCFollowed
    Keys <- MCKeys
    KeyValues = {"1", "2"}
    PathMaps <- MCPathMaps
    OwnQuery <- MCOwnQuery
    MaxBody = 2
    MaxSends = 2
    MaxOps = 2
\* A request that was invalid or recorded stays so.
CHECK_DEADLOCK FALSE
INVARIANTS
    TypeOK
    NeverShared
    PathAsTemplated
    UrlFromParams
    SizeRecorded
    WholeBodyOrError
PROPERTIES
    ImplementsValues
    BuiltAsOptioned
