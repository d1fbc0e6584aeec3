CONSTANT MaxField = 12
INIT Init
NEXT Next
INVARIANT IdParsesBack
