SPECIFICATION LiveSpec
CONSTANTS
    Callers = {c1, c2, c3}
    Instances = {blob_cache}
    Digests = {d1}
    Entries = {e1, e2, e3}
    NoEntry = NoEntry
PROPERTIES
    CallsEnd
