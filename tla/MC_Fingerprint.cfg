\* A session that writes "accept" in lower case, either profile applied,
\* and a request: ApplyHeaders adds the profile's "Accept" beside it.
CONSTANTS
    NilMap = NilMap
    NoRequest = NoRequest
SPECIFICATION FingerprintSpec
INVARIANT SessionHeadersSent
\* Deadlock is checked: a request can always be built.
