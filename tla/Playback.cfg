SPECIFICATION Spec
CONSTANTS
  Plans <- MCPlans
  Audit = 2
INVARIANTS EndsStopped QueueBounded SkipHonest
PROPERTIES EnvelopeShape RetainedKept PlaybackEnds SkipsFinish
