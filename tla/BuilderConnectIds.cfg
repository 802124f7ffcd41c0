\* docs/compiler.md:683 against an edit: a removal renumbers the connects after it
SPECIFICATION Spec
CONSTANTS
  Inst <- MCInst
  Tmpl <- MCTmpl
  Port <- MCPort
  Slot <- MCSlot
  SlotIndex <- MCSlotIndex
  Decl <- MCDecl
  InstDecl <- MCInstDecl
  Libraries <- MCLibraries
  Wires <- MCWires
  Props = {"p"}
  Links = {}
  Groups = {}
  Signal = {}
  Stream = {}
  Flag = {}
  Ring = {}
  Channel = {}
  Programs <- MCPrograms
  Preloaded <- MCPreloaded
  MaxClock = 4
  MaxRun = 2
INVARIANT IdsStable
