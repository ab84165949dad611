CONSTANTS
    NaN = NaN
    Raises = Raises
    None = None
SPECIFICATION Spec
INVARIANT DeepUpdateMatchesReference
INVARIANT CheckPerformanceMatchesReference
