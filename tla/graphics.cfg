\* One of the programs that draw on the display.
SPECIFICATION Spec
CONSTANTS
  Shapes = {0, 1, 2}
  GRID_WIDTH = 4
  GRID_HEIGHT = 4
  SCREEN_WIDTH = 20
  SCREEN_HEIGHT = 12
  BLOCK_SIZE = 1
  GRID_OFFSET_X = 1
  GRID_OFFSET_Y = 1
  PREVIEW_X = 7
  PREVIEW_Y = 0
  MaxPieces = 5
  PressedKeys = {"left", "right", "home", "down", "D", "w", "p", "Q", "x"}
  Capacity = 5
  TRexWords = 64
  CACTUS_START = 64
  NyanFrames = 3
  NyanWords = 2
  PIXELS_PER_WORD = 2
  Colors = {0, 1}
  Params = {1, 2}
  LONG = 3
  VERY_LONG = 4
INVARIANTS
  TypeOK
  BlockIsFree
  RecordsAgree
  BagIsFair
  DisplayShowsGame
  DinoInBand
  PictureShowsGame
  FramesHoldPictures
PROPERTIES
  LocksWhole
  RowsFallInOrder
  InputsFollowKeys
  PieceLands
