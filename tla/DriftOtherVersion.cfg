CONSTANTS
    i1 = i1
    i2 = i2
    v1 = v1
    v2 = v2
    Instances = {i1, i2}
    ServedVersions = {v1, v2}
    SustainDays = 2
    MaxReruns = 1
    TimestampClass = "integer"
SPECIFICATION AlertSpec
PROPERTIES
    PageIsAboutChampion
