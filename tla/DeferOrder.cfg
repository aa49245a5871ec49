SPECIFICATION MCSpec
CONSTANT NoValue = NoValue
INVARIANT LastDeferredFirst
