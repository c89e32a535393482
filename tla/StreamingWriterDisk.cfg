CONSTANTS
  data = data
  other = other
  t = t
  u = u
  site = site
  place = place
  t1 = t1
  t2 = t2
  x = x
  y = y
  red = red
  bold = bold
  italic = italic
  Formula = Formula
  Other = Other
  Nothing = Nothing
  Torn = Torn
  Plain = Plain
  None = None
  Names <- MCNames
  CaseKey <- MCCaseKey
  Texts <- MCTexts
  Rows <- MCRows
  SharedStrings = TRUE
  Faults = {"body", "flush", "package"}
  MaxRows = 2
  MaxSheets = 2
  Urls = {site}
  Locations = {place}
  Tables <- MCTables
  ReferenceLike = {}
  TableKey <- MCTableKey
  Images <- MCImages
  ScaleRules <- MCScales
  BarRules <- MCBars
  IconRules <- MCIcons
  Validations <- MCValidations
  CellStyles <- MCStyles
  Mixes <- MCMixes
SPECIFICATION SpecWithParts
CHECK_DEADLOCK FALSE
INVARIANTS RowsReadAsHanded DimensionCoversRows ClosedHoldsAppendedRows StringTableSound
INVARIANTS PartsAreLinked StylesReadBack RulesKeepTheirOrder
