\* Three daemons of two configurations, of which the service knows one, and a
\* configuration that is broken, in a table of two slots, where one slot may
\* still be that of a third configuration, killed earlier.
SPECIFICATION Spec
CONSTANTS
  home = home  lab = lab  office = office  attic = attic
  Configs = {home, lab, office, attic}
  Broken = {attic}
  ConfigOf <- MCConfigOf
  Known = {home}
  Private = {a2}
  Writable = {home}
  Stale = {lab}
  MaxInstance = 2
  Addresses = {a1, a2}
  None = None
  Forced = Forced
  MaxEvents = 1
INVARIANTS TypeOK SharedSlotOnlyAfterRace KnowsService
PROPERTIES DetectsRunning StopsOnTerm Converges
