SPECIFICATION Spec
CONSTANTS
  Plain = {"a", "city"}
  Special = {"+", "=", "&", "%"}
  High = {"h"}
  Texts <- MCTexts
  MaxParams = 3
INVARIANTS
  FieldsArrive
CHECK_DEADLOCK FALSE
