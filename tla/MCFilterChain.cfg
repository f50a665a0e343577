CONSTANTS
  input = input
  crop = crop
  cache0 = cache0
  resample = resample
  cache1 = cache1
  effects = effects
  scale = scale
  navigator = navigator
  None = None
  Sources = {input}
  Shapes = {crop}
  Pixels = {effects}
  Resamples = {resample, scale}
  Caches = {cache0, cache1, navigator}
  IgnoreRoi = {navigator}
  Renderers = {navigator}
  Ends = {cache1, effects, navigator}
  Switchable = {resample}
  Previous <- MCPrevious
  NextFilters <- MCNextFilters
  Above <- MCAbove
  Settings = {0, 1}
  Tiles = {1, 2}
SPECIFICATION Spec
INVARIANTS
  TypeOK
  CachesCoherent
  SizesAgree
  DeliveredCurrent
  DeliveredFits
