CONSTANTS
  Mac = {m1, m2}
  NoMac = NoMac
  MaxClients = 2
  KickBits = 2
  MaxCalls = 5
SYMMETRY MacSymmetry
SPECIFICATION Spec
INVARIANTS TypeOK CountExact AidMaskExact OneSlotPerMac TimeForReplies AllowApplied
PROPERTIES KeepsSlot
