\* Load balancers with long names in one project.
SPECIFICATION Spec
CONSTANTS
  None = None
  NameLenLimit = 7
  Kinds <- MCKinds
  KindPrefix <- MCPrefix
  TypeOf <- MCTypes
  LBNames <- FourNames
INVARIANTS
  NamesAccepted
  ReferencesAcross
PROPERTIES
  ShortNamesApart
