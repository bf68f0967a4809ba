SPECIFICATION Spec
CONSTANTS
  capacity = 4
  Elem <- MCElem
PROPERTY ImplementsBoundedFifo
