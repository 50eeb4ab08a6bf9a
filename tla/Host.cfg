CONSTANTS
  Byte = {0, 1}
  MaxBytes = 3
  PipeSize = 1
  BufSize = 2
  LogSize = 3
  CommandLines <- Few
  Files <- TheFiles
  Directories <- TheDirectories
  Readable <- TheReadable
  Megabytes <- UpTo64
  Numbers <- TheNumbers
  HexAddress <- Hexadecimal
  SymbolFile <- TheSymbols
  BadAddress = 0
  Modulus = 1024
  MemStart = 32
  Codes <- TheCodes
  StartWdesc = 101
  StartFlags <- TheFlags
  Breakpoints <- TheBreakpoints
  Looks <- TheLooks
  Workspaces <- TheWorkspaces
  MaxCommands = 2
  LastFetch = 52
SPECIFICATION HostSpec
INVARIANTS NothingLost Connected LinksAsAsked
PROPERTIES ImplementsChannel CallsMeet KnockHeard LogWriteEnds ListedAsExecuted LooksJoin
CHECK_DEADLOCK FALSE
