\* Two instruments, fills of 1, 2 or 3 contracts at two prices.
CONSTANTS
    Instruments = {xbt, eth}
    Quantities = {1, 2, 3}
    Prices = {1, 3}
    MaxFills = 4
SPECIFICATION Spec
SYMMETRY InstrumentSymmetry
INVARIANTS TypeOK OneOpenRow BookMatchesFills RealisedBias
CHECK_DEADLOCK FALSE
