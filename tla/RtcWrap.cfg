SPECIFICATION ClockSpec
CONSTANTS
  Reload = 171
  Hz = 2
  MaxElapsed = 400
INVARIANT CountsSinceBoot
