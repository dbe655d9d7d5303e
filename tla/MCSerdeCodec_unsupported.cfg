CONSTANTS
    Values <- UnsupportedValues
    MaxExtra = 0
    MaxCut = 0
SPECIFICATION Spec
INVARIANT RoundTrip
