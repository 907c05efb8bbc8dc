\* isDeltaTable as shipped: a name is no path of a Delta table. Two files that no filter
\* touches, a batch each.
SPECIFICATION BronzeSpec
CONSTANTS
    None = None
    x1 = x1
    x2 = x2
    Ids = {x1, x2}
    Contents <- CleanContents
    MaxFiles = 2
    FilesPerBatch = 1
    Recognised = {FALSE}
PROPERTIES
    RowsRemain
