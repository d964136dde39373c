SPECIFICATION PartsSpec
CONSTANTS
  None = None  AllAgents = AllAgents  NoAmount = NoAmount  gate_a1 = gate_a1  gate_r1 = gate_r1  gate_r2 = gate_r2  gate_r3 = gate_r3
  gate_t1 = gate_t1  gate_t2 = gate_t2  rows_a1 = rows_a1  rows_a2 = rows_a2  rows_o1 = rows_o1
  rows_o2 = rows_o2  rows_w1 = rows_w1  rows_w2 = rows_w2  convert_a1 = convert_a1  convert_a2 = convert_a2  convert_o1 = convert_o1
  Agents = {gate_a1}
  Turns = {gate_t1, gate_t2}
  Requests = {gate_r1, gate_r2, gate_r3}
  Gates <- GateThree
  Kinds <- GateKinds
  FirstRows <- GatePolicies
  MaxVersion = 3
  Edits = {1, 3}
  Database = TRUE
  Budget <- GateSome
CHECK_DEADLOCK FALSE
INVARIANTS LetOutWithin AsksStands  UnderExact ConversationSound
PROPERTIES NeverWidened
SYMMETRY Symmetric
