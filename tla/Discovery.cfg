SPECIFICATION Spec
CONSTANTS
    Resources = {a, b}
    Checked <- MCChecked
    MaxChanges = 2
PROPERTIES
    RowsAreKept
    DeletionsStand
    RowsSettle
