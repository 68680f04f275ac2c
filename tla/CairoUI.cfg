\* One exploder, tweens of three ticks, frames of one or two; texts of up to three characters
\* and up to three keys in a frame.
CONSTANTS
  Exploder = {" Cameras"}
  TweenTime = 3
  FlashTime = 2
  MaxTick = 2
  MaxKeys = 3
  MaxLen = 3
SPECIFICATION UISpec
INVARIANTS TypeOK Settled CursorInText
PROPERTIES Answered CursorFlashes
