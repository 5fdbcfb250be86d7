SPECIFICATION Spec
CONSTANTS
  door = door
  lamp = lamp
  ann = ann
  bob = bob
  object = object
  chat = chat
  control = control
  hello = hello
  bye = bye
  Nobody = Nobody
  Blank = Blank
  NoScript = NoScript
  Scripts <- MCScripts
  Avatars <- MCAvatars
  Names <- MCNames
  Texts <- MCTexts
  Channels <- MCChannels
  Link <- MCLink
  NameOf <- MCNameOf
  Heard <- MCHeard
  Asked <- MCAsked
  MaxHandle = 2
  MaxQueue = 1
  MaxDialogs = 2
INVARIANTS TypeOK HandlesUnique
PROPERTIES HearingSpec
SYMMETRY AnyAvatar
CHECK_DEADLOCK FALSE
