----------------------------- MODULE MCWebPages -----------------------------
(***************************************************************************)
(* The pages of the web program and the parts they are made of, one at a    *)
(* time: a behaviour is one part's, chosen at the start, with the others at *)
(* rest.  The state space is the sum of the parts', and a property of this  *)
(* module is one of a part, or of all.                                      *)
(***************************************************************************)
EXTENDS RegionCanvas, PageParts

CONSTANTS
    Octets, OctetBits   \* NetworkPage

\* An address has more than one octet
ASSUME NetworkAssumption == Octets \in Nat \ {0, 1} /\ OctetBits \in Nat \ {0}

VARIABLES
    open,   \* the part this behaviour is of
    netForm, config, load, save, confirming, netTab

networkPart == <<netForm, config, load, save, confirming, netTab>>

Network == INSTANCE NetworkPage WITH form <- netForm, tab <- netTab

vars == <<open, canvasVars, gridPart, shotPart, alarmPart, facePart, eventsPart,
          storagePart, settingsPart, networkPart, sessionPart>>

\* Presses outside the picture, on its edges and between its pixels
CanvasPoints == {<<-3, 1>>, <<1, 2>>, <<3, 4>>, <<7, 1>>}

-----------------------------------------------------------------------------
PartNames == {"canvas", "grid", "shot", "alarm", "face", "events", "storage", "settings",
              "network", "session"}

\* A part that is not open has one of its initial states
OneOf(name, here) == open = name \/ here

MCInit ==
    /\ open \in PartNames
    /\ Init
    /\ Grid!Init /\ OneOf("grid", modelValue = Grid!Full("0") /\ ~disabled /\ captures)
    /\ Shot!Init
    /\ Alarm!Init /\ OneOf("alarm", stored = "low")
    /\ Face!Init /\ OneOf("face", faceDevice = "a")
    /\ Events!Init
    /\ Storage!Init
    /\ Settings!Init /\ OneOf("settings", settingsPage = "video")
    /\ Network!Init /\ OneOf("network", config = Network!Hardcoded)
    /\ Session!Init /\ OneOf("session", pass = "own")

\* The open part takes a step and the others do not
MCNext ==
    /\ UNCHANGED open
    /\ IF open = "canvas" THEN Next ELSE UNCHANGED canvasVars
    /\ IF open = "grid" THEN Grid!Next ELSE UNCHANGED gridPart
    /\ IF open = "shot" THEN Shot!Next ELSE UNCHANGED shotPart
    /\ IF open = "alarm" THEN Alarm!Next ELSE UNCHANGED alarmPart
    /\ IF open = "face" THEN Face!Next ELSE UNCHANGED facePart
    /\ IF open = "events" THEN Events!Next ELSE UNCHANGED eventsPart
    /\ IF open = "storage" THEN Storage!Next ELSE UNCHANGED storagePart
    /\ IF open = "settings" THEN Settings!Next ELSE UNCHANGED settingsPart
    /\ IF open = "network" THEN Network!Next ELSE UNCHANGED networkPart
    /\ IF open = "session" THEN Session!Next ELSE UNCHANGED sessionPart

MCSpec == MCInit /\ [][MCNext]_vars

-----------------------------------------------------------------------------
PagesTypeOK ==
    CASE open = "canvas" -> TypeOK
      [] open = "grid" -> Grid!TypeOK
      [] open = "shot" -> Shot!TypeOK
      [] open = "alarm" -> Alarm!TypeOK
      [] open = "face" -> Face!TypeOK
      [] open = "events" -> Events!TypeOK
      [] open = "storage" -> Storage!TypeOK
      [] open = "settings" -> Settings!TypeOK
      [] open = "network" -> Network!TypeOK
      [] open = "session" -> Session!TypeOK

\* NetworkPage: a static address is stored only with a sound netmask.
StaticIsSound == Network!StaticIsSound
=============================================================================
