SPECIFICATION StartSpec
CONSTANTS
  Me = me
  Launchers = {me, other}
INVARIANTS StartTypeOK ReportIsTrue ConversionDeathIsReported StartDeathIsPreserved FalseStartNeedsRace ModelIsWhole
PROPERTIES ModelIsReplacedByWhole
CONSTRAINT BeforeItIsLoaded
