------------------------------- MODULE OwnerApp -------------------------------
(***************************************************************************)
(* The owner's app: the onboarding tab, the form for campaign material with    *)
(* its uploads, the activity trail, the linking of an Instagram account, the    *)
(* posting screen, and the script that imports its old database.  They share    *)
(* nothing here, so a behaviour is one of them: `part` says which, and the      *)
(* others stay as they start.                                               *)
(***************************************************************************)
EXTENDS OwnerOnboarding

CONSTANTS
  Texts, Nothing, Photos, Refused, MaxPhotos, Selections, MaxSubmissions,
  Limits,                                             \* CampaignIntake
  MaxPending, FlushMax, MaxEvents, MaxMounts,         \* ActivityTrail
  Tabs, Stores, Names, Typed, MaxStarts, MaxSwitches,
  MaxCallbacks,                                       \* InstagramLink
  MaxPicks, MaxCalls,                                 \* PostingWorkspace
  Commands, StoreIds, Drafts, Contents, Worlds, MaxWrites,
  MaxSessions                                         \* SqliteImport

VARIABLES
  part,
  brief, selected, intake, sub, created, assets, blobs, aged, sweep, told, left, limit,
  recorded, mounted, shown, pending, flight, stored, dropped, parted, unsure,
  signedIn, switches, cookie, window, call, links, started, spent,
  photos, picks, reading, marketing, chat, decision, talk, view, calls, late,
  source, file, target, production, sessionRows, signIns, import, writes

intakeForm ==
  <<brief, selected, intake, sub, created, assets, blobs, aged, sweep, told, left, limit>>
trail ==
  <<recorded, mounted, shown, pending, flight, stored, dropped, parted, unsure>>
linking == <<signedIn, switches, cookie, window, call, links, started, spent>>
posting == <<photos, picks, reading, marketing, chat, decision, talk, view, calls, late>>
importing == <<source, file, target, production, sessionRows, signIns, import, writes>>

Intake == INSTANCE CampaignIntake
Trail == INSTANCE ActivityTrail WITH left <- parted
Link == INSTANCE InstagramLink WITH session <- signedIn, tab <- window
Posting == INSTANCE PostingWorkspace WITH session <- talk, draft <- marketing
Import == INSTANCE SqliteImport WITH
  Runs <- Commands, Stores <- StoreIds, sessions <- sessionRows, begun <- signIns

ASSUME PartsAssumption ==
  Intake!IntakeAssumption /\ Trail!TrailAssumption /\ Link!LinkAssumption
  /\ Posting!WorkspaceAssumption /\ Import!ImportAssumption

InitParts ==
  /\ part \in {"onboarding", "intake", "trail", "link", "posting", "import"}
  /\ Init /\ Intake!Init /\ Trail!Init /\ Link!Init /\ Posting!Init
  /\ Import!Init

OnboardingMoves ==
  /\ part = "onboarding" /\ Next
  /\ UNCHANGED <<intakeForm, trail, linking, posting, importing>>
IntakeMoves ==
  /\ part = "intake" /\ Intake!Next
  /\ UNCHANGED <<vars, trail, linking, posting, importing>>
TrailMoves ==
  /\ part = "trail" /\ Trail!Next
  /\ UNCHANGED <<vars, intakeForm, linking, posting, importing>>
LinkMoves ==
  /\ part = "link" /\ Link!Next
  /\ UNCHANGED <<vars, intakeForm, trail, posting, importing>>
PostingMoves ==
  /\ part = "posting" /\ Posting!Next
  /\ UNCHANGED <<vars, intakeForm, trail, linking, importing>>
ImportMoves ==
  /\ part = "import" /\ Import!Next
  /\ UNCHANGED <<vars, intakeForm, trail, linking, posting>>
NextPart ==
  /\ \/ OnboardingMoves \/ IntakeMoves \/ TrailMoves
     \/ LinkMoves \/ PostingMoves \/ ImportMoves
  /\ UNCHANGED part

appVars == <<part, vars, intakeForm, trail, linking, posting, importing>>
AllParts == InitParts /\ [][NextPart]_appVars
-------------------------------------------------------------------------------
(* Properties.                                                             *)

(* The type invariants of the parts.                                       *)
TypesOK ==
  /\ part = "onboarding" => TypeOK
  /\ part = "intake" => Intake!TypeOK
  /\ part = "trail" => Trail!TypeOK
  /\ part = "link" => Link!TypeOK
  /\ part = "posting" => Posting!TypeOK
  /\ part = "import" => Import!TypeOK

(* OwnerOnboarding's, CampaignIntake's and PostingWorkspace's properties: what  *)
(* the screens show.                                                       *)
ScreensTellTheTruth ==
  /\ part = "onboarding" => ScreenTellsTheTruth
  /\ part = "intake" => Intake!IntakeIsSound
  /\ part = "posting" => Posting!WorkspaceIsSound

(* ActivityTrail's, InstagramLink's and SqliteImport's: what the tables hold.  *)
RecordsAreSound ==
  /\ part = "trail" => Trail!TrailIsSound
  /\ part = "link" => Link!LinkIsSound
  /\ part = "import" => Import!ImportIsSound
===============================================================================
