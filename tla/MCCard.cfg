\* USB: two readers of one endpoint, a writer, the root hub; two slots.
\* Graphics: four of the statically cached registers, lines up to eight pixels,
\* two modes, two surfaces.
\* ZZTop: two keys, one of them edited; at most three requests about a picture;
\* crops up to three, a two-bit request sequence; hand-written
\* texts of three lines.
\* SD disk: a partition of three blocks after block 0, two requests of up to three
\* blocks, two-block chunks, two tries, words of 6 values; boot: two partitions,
\* two file systems of up to two chunks.
SPECIFICATION PartsSpec
CONSTANTS
  r1 = r1
  r2 = r2
  w = w
  h = h
  e1 = e1
  e2 = e2
  Ints = {r1, r2, w}
  Roots = {h}
  EpOf <- MCEpOf
  InDir = {r1, r2}
  NumSlots = 2
  Grace = 1
  RtModes = {FALSE}
  StaticRegs = {"DST", "MODE", "X1", "Y3"}
  MaxMajor = 8
  ScreenModes = {"s1", "s2"}
  Clocks = {3, 7}
  PllClocks = {2, 4, 6}
  Tolerance = 1
  MinClock = 2
  MaxClock = 6
  PresetClock <- MCPresets
  Surfaces = {"f1", "f2"}
  Wrappers = {"w1", "w2", "w3"}
  Keys = {"k1", "k2"}
  Edited = {"k1"}
  MaxEdits = 3
  MaxCrop = 3
  Coarse = 2
  EffectiveAuto = 1
  SeqMod = 4
  MaxLines = 3
  WordMod = 6
  Base = 1
  PartBlocks = 3
  AtOnce = 2
  Retry = 2
  MaxLen = 3
  MaxIo = 2
  MaxFw = 2
  DosTypes = {"PFS3", "FFS"}
  MaxParts = 2
  MaxFs = 2
  MaxChunks = 2
INVARIANTS RetiredOnce NoOrphanQueue GraphicsSafe SettingsSafe CaptureSafe ConfigSafe SdSafe
PROPERTY AbortWaitsForStop
