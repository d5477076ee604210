SPECIFICATION Spec
CONSTANTS
  Timeout = 3
  Gap = 1
  SeqMod = 5
  Identifier = 258
  Forms <- MCForms
  Life = 4
  Cap = 4
INVARIANTS
  NotMistaken
PROPERTIES
  NoLessThanGapApart
  TimedOutRightly
  KeepsPinging
