SPECIFICATION Spec
CONSTANTS
    LIMIT = 2
    SUPPORT = TRUE
    None = None
    Bad = Bad
    OFFERS <- MCOffers
INVARIANTS
    
    HomeTruthful
    OffersCallable
