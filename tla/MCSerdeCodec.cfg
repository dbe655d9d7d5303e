CONSTANTS
    Values <- ScalarValues
    MaxExtra = 2
    MaxCut = 8
SPECIFICATION Spec
INVARIANTS RoundTrip ShortInputReportsShortfall GenericConversionExact
