SPECIFICATION Spec
CONSTANTS
  Plain = {"a", "city"}
  Special = {"+", "=", "&", "%"}
  High = {"h"}
  Texts <- MCTexts
  MaxParams = 4
INVARIANTS
  TypeOK
  FieldsFound
  QueryReadsBack
  PlainArrives
CHECK_DEADLOCK FALSE
