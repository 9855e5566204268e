SPECIFICATION CalculationSpec
CONSTANTS
    Hues <- MCHues
    Saturations <- MCUnit
    Lightnesses <- MCUnit
    Operands <- MCOperands
INVARIANTS
    ConversionSucceeds
    ColoursAreAccurate
    ProductsAreNear
