\* Templates, instances, slots and connects; no annotation is ever added
SPECIFICATION Spec
CONSTANTS
  Inst <- MCInst
  Tmpl <- MCTmpl
  Port <- MCPort
  Slot <- MCSlot
  SlotIndex <- MCSlotIndex
  Decl <- MCDecl
  InstDecl <- MCInstDecl
  Libraries <- MCLibraries
  Wires <- MCWires
  Props = {"p"}
  Links = {}
  Groups = {}
  Signal = {}
  Stream = {}
  Flag = {}
  Ring = {}
  Channel = {}
  Programs <- MCPrograms
  Preloaded <- MCPreloaded
  MaxClock = 4
  MaxRun = 2
INVARIANTS
  NothingDangles
  CounterCoversConnects
  IdsAddressOne
  HeldIdsStayOnPair
PROPERTIES
  FreshId
