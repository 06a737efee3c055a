SPECIFICATION GoldenSpec
CONSTANTS
  Pcs = {1, 2}
  Writes <- KernelWrites
  Irqs = {11}
INVARIANTS TrapInv GoldenAgrees
PROPERTIES PrivilegeMoves MachineStateIsPrivate
