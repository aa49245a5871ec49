SPECIFICATION MCSpec
CONSTANT NoValue = NoValue
PROPERTY OnlyReachedDefersRun
