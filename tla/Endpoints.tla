----------------------------- MODULE Endpoints ------------------------------
(***************************************************************************)
(* The components at the two ends: what the client keeps, says and does on *)
(* its own machine, the candidates it makes, and the desktop and phones it *)
(* asks.  Each has its variables to itself; Components composes them with  *)
(* the others.                                                             *)
(***************************************************************************)
EXTENDS Naturals, FiniteSets

CONSTANTS
  Process, Nobody,  \* processes of the store lock, the factories, the headset, the phones
  MaxGeneration     \* acquisitions of a claim, configurations, resident processes

(* The client: the lock of its claims, its journals, its agent, its texts. *)
VARIABLES guard, place, read, late
Lock == INSTANCE StoreLock WITH ShortOperations <- FALSE, lock <- guard, at <- place, seen <- read

CONSTANTS JournalCommand, CleanupCommand, EventsKept, RunLimit, Page
VARIABLES history, journal, writer, reader
Journals == INSTANCE ClientJournals WITH Command <- JournalCommand, Cleanup <- CleanupCommand, Keep <- EventsKept, run <- journal, process <- writer

VARIABLES server, worker, link
Agent == INSTANCE AgentSession

CONSTANTS Client, MachineKind, MaxClaims, Uses
VARIABLES target, claimed, clients
Commands == INSTANCE ClientCommands WITH
  Kind <- MachineKind, machine <- target, claim <- claimed, command <- clients

CONSTANTS Element, Value, MaxNumber
VARIABLES app, belief, numbered
Numbers == INSTANCE ElementNumbers WITH given <- numbered

(* The machines that are made: the stages of a candidate, and its image. *)
CONSTANTS Route, MaxVersion, MaxAge
VARIABLES candidate, media, files, jobs
Stages == INSTANCE FactoryStages WITH job <- jobs

CONSTANT MaxBoots
VARIABLES vm, image, command
Image == INSTANCE VirtualBoxImage WITH machine <- vm

(* A desktop and the phones. *)
CONSTANTS MaxNode, MaxSnapshot, SnapshotsKept
VARIABLES desktop, resident, shown, asked, reply
Control == INSTANCE LinuxControl WITH Keep <- SnapshotsKept, screen <- desktop, call <- asked

CONSTANT Takeover   \* processes that use an iPhone
VARIABLES handset, process, capture, taken
Device == INSTANCE IosDevice WITH Process <- Takeover, OneTakeover <- TRUE, lease <- handset

VARIABLES iphone, output, request, answer
Phone == INSTANCE IosControl WITH ListingFails <- FALSE, phone <- iphone

CONSTANT MaxBoot
VARIABLES android, mutation, invocation
Android == INSTANCE AndroidUnlock WITH OneTaker <- TRUE, BootIdReads <- TRUE, phone <- android, lock <- mutation
=============================================================================
