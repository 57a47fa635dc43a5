\* Up to three rows, the first days of the calendar
SPECIFICATION Spec
CONSTANTS
    Null = Null
    Rows <- AllRows
    Midnight = 2
    LastDate = 4
    MaxRows = 3
INVARIANTS TypeOK SearchAgreesWithPage
PROPERTIES OvernightGoesOn DatedRowsStayInBounds
