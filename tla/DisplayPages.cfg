SPECIFICATION PagesSpec
CONSTANT GaugeValues = {0}
INVARIANT OldScreenIsNotKept
