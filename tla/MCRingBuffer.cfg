\* Two byte values, writes of up to two bytes, kernels that store one cell past
\* their request, and a growth limit that stops the doubling.
CONSTANTS
  a = a
  b = b
  Byte = {a, b}
  Junk = Junk
  MaxWrite = 2
  Overshoot = 1
  Limits = {5}
  MaxShift = 4
  MaxCap = 6
  MaxUsize = 99
SYMMETRY Bytes
CONSTRAINT RollbackInSmallRings
SPECIFICATION Spec
PROPERTY ImplementsByteQueue
