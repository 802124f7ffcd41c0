\* Every kind of statement that names an instance, and the cascade over them
SPECIFICATION Spec
CONSTANTS
  Inst <- MCInst
  Tmpl = {"Mic"}
  Port = {"rf"}
  Slot = {}
  SlotIndex = {0}
  Decl <- MCDecl
  InstDecl <- MCInstDecl
  Libraries = {{}}
  Wires <- MCWires
  Props = {"p", "q"}
  Links <- MCLinks
  Groups <- MCGroups
  Signal = {"s"}
  Stream = {"t"}
  Flag = {"f"}
  Ring = {"r"}
  Channel = {1, 2}
  Programs <- MCPrograms
  Preloaded <- MCPreloaded
  MaxClock = 3
  MaxRun = 1
INVARIANTS
  NothingDangles
PROPERTIES
  CascadeExact
