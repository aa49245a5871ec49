SPECIFICATION MCSpec
CONSTANT NoValue = NoValue
PROPERTY ImplementsBody
