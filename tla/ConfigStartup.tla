--------------------------- MODULE ConfigStartup ----------------------------
(***************************************************************************)
(* How eClip gets its configuration at every start: main calls IsFirstRun  *)
(* and Setup of internal/core/first_run/first_run.go and Init and GetConfig*)
(* of internal/config/manager.go.  The configuration file and the flag     *)
(* file survive a crash, cfg and once do not.  os.WriteFile truncates the  *)
(* file before it writes it, and may write a part of it only: a crash or   *)
(* an error can leave it empty or cut short.                               *)
(*                                                                         *)
(* Of a configuration only the credentials are kept.  The file system and  *)
(* the user are external.  FlagFirst, FlagIgnored, ForgetsAnswers,         *)
(* SetupOnFailure and EmptyIsError are variants with a bug a change could  *)
(* bring in.                                                               *)
(***************************************************************************)
EXTENDS Naturals

CONSTANTS
  Name,      \* what a user may type, the blank line among it
  Blank,     \* the blank line
  Cut,       \* what is left of a name that was cut short
  NoFile,    \* the configuration file does not exist
  EmptyFile, \* it has been truncated
  Garbled,   \* it does not parse
  NoConfig,  \* cfg is nil
  MaxFaults  \* bound: crashes, failed system calls and edits of the file

ASSUME NameAssumption == Blank \in Name /\ Cut \in Name
ASSUME BoundAssumption == MaxFaults \in Nat

Config == [username : Name, password : Name]

ASSUME FileAssumption ==
  /\ {NoConfig, NoFile, EmptyFile, Garbled} \cap Config = {}
  /\ Garbled \notin {NoConfig, NoFile, EmptyFile} /\ EmptyFile # NoFile

Default == [username |-> Blank, password |-> Blank]

VARIABLES
  file,      \* external: config.yaml
  flag,      \* external: .first_run_complete exists
  cfg,       \* config.cfg
  once,      \* config.once has run
  initFails, \* the last call of Init returned an error
  pc,        \* how far main has come
  answered,  \* history: what the user last entered, in Setup or in the file
  unsure,    \* history: this start could not find out whether the flag file exists
  faults     \* history: crashes, failures and edits so far

memory == <<cfg, once, initFails>>
vars == <<file, flag, memory, pc, answered, unsure, faults>>

TypeOK ==
  /\ file \in Config \cup {NoFile, EmptyFile, Garbled}
  /\ flag \in BOOLEAN /\ once \in BOOLEAN /\ initFails \in BOOLEAN /\ unsure \in BOOLEAN
  /\ cfg \in Config \cup {NoConfig}
  /\ pc \in {"down", "check", "create", "stat", "setup", "save", "write", "flag",
             "init", "use", "running", "panicked"}
  /\ pc \in {"stat", "setup", "save", "write", "flag", "running"} => cfg \in Config
  /\ answered \in Config \cup {NoConfig, Garbled}
  /\ faults \in 0 .. MaxFaults

Init ==
  /\ file = NoFile /\ flag = FALSE
  /\ cfg = NoConfig /\ once = FALSE /\ initFails = FALSE
  /\ pc = "down"
  /\ answered = NoConfig /\ unsure = FALSE
  /\ faults = 0

Fault == faults < MaxFaults /\ faults' = faults + 1
NoFault == UNCHANGED faults

-----------------------------------------------------------------------------
(* Processes start and crash, and users edit the file in between.          *)

\* What the user leaves in the file may not parse.
Edit(c) ==
  /\ pc = "down"
  /\ file # NoFile
  /\ file' = c
  /\ answered' = c
  /\ Fault
  /\ UNCHANGED <<flag, memory, pc, unsure>>

Start ==
  /\ pc = "down"
  /\ cfg' = NoConfig /\ once' = FALSE /\ initFails' = FALSE
  /\ pc' = "check"
  /\ unsure' = FALSE
  /\ NoFault
  /\ UNCHANGED <<file, flag, answered>>

\* The process is killed, or a panic ends it.
Dies ==
  /\ \/ pc \notin {"down", "panicked"} /\ Fault
     \/ pc = "panicked" /\ NoFault
  /\ pc' = "down"
  /\ UNCHANGED <<file, flag, memory, answered, unsure>>

\* A write of c cut short: the file does not parse, or it has lost its end, from
\* somewhere in a credential on.
Cuts(name) == IF name = Blank THEN {Blank} ELSE {Blank, Cut, name}
Part(c) ==
  {Garbled} \cup {[username |-> u, password |-> Blank] : u \in Cuts(c.username)}
            \cup {[username |-> c.username, password |-> p] : p \in Cuts(c.password)}

\* os.WriteFile has truncated the file and written part of it.
WritesPart ==
  /\ file = EmptyFile
  /\ \/ pc = "create" /\ file' \in Part(Default)
     \/ pc = "write" /\ file' \in Part(cfg)
  /\ NoFault
  /\ UNCHANGED <<flag, memory, pc, answered, unsure>>

-----------------------------------------------------------------------------
(* IsFirstRun: its call of Init is the first, so it runs the once.         *)

SetupOnFailure == "setup"
AfterFailure == "init"

\* Init records its error in a variable of this call and leaves cfg nil;
\* IsFirstRun then says that this is not the first run.
InitFailed ==
  /\ once' = TRUE
  /\ initFails' = TRUE
  /\ pc' = AfterFailure
  /\ UNCHANGED <<cfg, flag, answered, unsure>>

\* The directory, the Stat or the ReadFile fails.
CheckFails ==
  /\ pc = "check"
  /\ InitFailed
  /\ Fault
  /\ UNCHANGED file

\* Unmarshal starts from the defaults: an empty file leaves them in place.
EmptyIsError == file \notin {EmptyFile, Garbled}
Readable == file # Garbled

ForgetsAnswers == Default
Loaded == IF file = EmptyFile THEN Default ELSE file

CheckLoads ==
  /\ pc = "check"
  /\ file # NoFile
  /\ Readable
  /\ cfg' = Loaded
  /\ once' = TRUE /\ initFails' = FALSE
  /\ pc' = "stat"
  /\ NoFault
  /\ UNCHANGED <<file, flag, answered, unsure>>

\* Unmarshal fails.
CheckRejects ==
  /\ pc = "check"
  /\ file # NoFile
  /\ ~Readable
  /\ InitFailed
  /\ NoFault
  /\ UNCHANGED file

\* saveConfigToFile of the defaults opens the new file ...
CheckCreates ==
  /\ pc = "check"
  /\ file = NoFile
  /\ file' = EmptyFile
  /\ pc' = "create"
  /\ NoFault
  /\ UNCHANGED <<flag, memory, answered, unsure>>

\* ... and writes all of it.
CreateWrites ==
  /\ pc = "create"
  /\ file' = Default
  /\ cfg' = Default
  /\ once' = TRUE /\ initFails' = FALSE
  /\ pc' = "stat"
  /\ NoFault
  /\ UNCHANGED <<flag, answered, unsure>>

CreateFails ==
  /\ pc = "create"
  /\ InitFailed
  /\ Fault
  /\ UNCHANGED file

FlagIgnored == "setup"
AfterCheck == IF flag THEN "init" ELSE "setup"

StatFlag ==
  /\ pc = "stat"
  /\ pc' = AfterCheck
  /\ NoFault
  /\ UNCHANGED <<file, flag, memory, answered, unsure>>

\* The Stat of the flag file fails, and not because there is none: this is not
\* taken for the first run.
StatFails ==
  /\ pc = "stat"
  /\ pc' = "init"
  /\ unsure' = TRUE
  /\ Fault
  /\ UNCHANGED <<file, flag, memory, answered>>

-----------------------------------------------------------------------------
(* Setup.                                                                  *)

Answer(username, password) ==
  /\ pc = "setup"
  /\ cfg' = [username |-> username, password |-> password]
  /\ answered' = cfg'
  /\ pc' = "save"
  /\ NoFault
  /\ UNCHANGED <<file, flag, once, initFails, unsure>>

FlagFirst == flag' = TRUE
FlagLater == UNCHANGED flag

\* SaveConfig truncates the file ...
Save ==
  /\ pc = "save"
  /\ file' = EmptyFile
  /\ FlagLater
  /\ pc' = "write"
  /\ NoFault
  /\ UNCHANGED <<memory, answered, unsure>>

\* ... and writes all of it.
SaveWrites ==
  /\ pc = "write"
  /\ file' = cfg
  /\ pc' = "flag"
  /\ NoFault
  /\ UNCHANGED <<flag, memory, answered, unsure>>

\* Setup calls Init again, which does nothing, and creates the flag file.
CreateFlag ==
  /\ pc = "flag"
  /\ flag' = TRUE
  /\ initFails' = FALSE
  /\ pc' = "init"
  /\ NoFault
  /\ UNCHANGED <<file, cfg, once, answered, unsure>>

\* SaveConfig or the creation of the flag file fails: main panics.
SetupFails ==
  /\ pc \in {"save", "write", "flag"}
  /\ pc' = "panicked"
  /\ Fault
  /\ UNCHANGED <<file, flag, memory, answered, unsure>>

-----------------------------------------------------------------------------
(* main: Init and GetConfig.                                               *)

\* once has run: Init returns nil, whatever became of the first call.
MainInit ==
  /\ pc = "init"
  /\ once
  /\ initFails' = FALSE
  /\ pc' = "use"
  /\ NoFault
  /\ UNCHANGED <<file, flag, cfg, once, answered, unsure>>

\* GetConfig panics when cfg is nil.
GetConfig ==
  /\ pc = "use"
  /\ pc' = IF cfg = NoConfig THEN "panicked" ELSE "running"
  /\ NoFault
  /\ UNCHANGED <<file, flag, memory, answered, unsure>>

-----------------------------------------------------------------------------
IsFirstRun == CheckLoads \/ CheckRejects \/ CheckCreates \/ CreateWrites \/ StatFlag
Setup == (\E u, p \in Name : Answer(u, p)) \/ Save \/ SaveWrites \/ CreateFlag
Main == MainInit \/ GetConfig

Next ==
  \/ Start \/ Dies
  \/ \E c \in Config \cup {Garbled} : Edit(c)
  \/ IsFirstRun \/ CheckFails \/ CreateFails \/ StatFails
  \/ WritesPart
  \/ Setup \/ SetupFails
  \/ Main

\* The process runs, the user answers and starts it again when it has died.
Fairness == WF_vars(Start \/ IsFirstRun \/ Setup \/ Main) /\ WF_vars(pc = "panicked" /\ Dies)

Spec == Init /\ [][Next]_vars /\ Fairness

-----------------------------------------------------------------------------
(* Properties.                                                             *)

\* The flag file vouches for the configuration file: wherever a crash or an
\* error strikes, a setup that counts as complete has its answers, or a later edit, on disk.
FlagMeansSaved == flag => answered # NoConfig /\ file = answered

\* Once setup is complete no start asks again or overwrites the file; only the
\* user does, while eClip is down.
SetupOnce == [][flag /\ pc # "down" => UNCHANGED <<file, flag, answered>>]_vars

\* eClip runs with what the user last entered.  The one exception is a start that
\* could not examine the flag file while no setup was complete: it then runs with
\* what earlier starts have left, the defaults or a part of the answers.  A failed
\* Stat does no harm once a setup is complete.
RunsAsAnswered == pc = "running" /\ cfg # answered => unsure /\ ~flag

\* Whatever the crashes and failures have left on disk, once they stop eClip
\* starts, unless an edit or a write cut short has left a file that does not parse:
\* an empty file, or one that has lost its end but parses, does not lock the user out.
StartsInTheEnd == <>[](file # Garbled) => <>[](pc = "running")

\* "It panics if Init() has not been called successfully": GetConfig does not
\* panic after an Init that returned no error.
InitTellsTheTruth == pc = "panicked" /\ ~initFails => cfg # NoConfig
=============================================================================
