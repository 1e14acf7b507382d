SPECIFICATION Spec
CONSTANTS
  Users = {u1}
  Clients = {c1, c2}
  TokenLimit = 2
  MaxIssued = 3
  MaxRestores = 2
  NoSnapshot = NoSnapshot
SYMMETRY Symmetry
INVARIANTS ExchangedOncePerRestore ReplayEndsFamily EndedStaysEnded DisabledHasNoSession RevokedDeviceIsGone
