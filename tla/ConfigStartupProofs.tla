------------------------- MODULE ConfigStartupProofs ------------------------
(***************************************************************************)
(* What ConfigStartup promises for every set of names and any number of    *)
(* crashes, failures and edits.                                            *)
(***************************************************************************)
EXTENDS ConfigStartup, TLAPS

(* What is on disk, in memory and entered by the user at each point of     *)
(* main: memory starts empty, the setup works on what was entered, after   *)
(* the check a configuration is the one the flag file vouches for, and     *)
(* without that file main gets past the setup only when it is unsure.      *)
PointInv ==
  /\ pc \in {"check", "create"} => cfg = NoConfig
  /\ pc \in {"create", "setup", "save", "write", "flag"} => ~flag
  /\ pc \in {"save", "write", "flag"} => cfg = answered
  /\ pc = "flag" => file = cfg
  /\ pc \in {"stat", "init", "use", "running"} /\ cfg # NoConfig /\ flag => cfg = answered
  /\ pc \in {"init", "use", "running"} /\ cfg # NoConfig => flag \/ unsure

IInv == TypeOK /\ FlagMeansSaved /\ PointInv

-----------------------------------------------------------------------------
LEMMA InitTypeOK == Init => TypeOK
<1> SUFFICES ASSUME Init PROVE TypeOK
  OBVIOUS
<1>1. faults \in 0 .. MaxFaults
  BY BoundAssumption DEF Init
<1>2. pc = "down"
  BY DEF Init
<1> QED
  BY <1>1, <1>2 DEF Init, TypeOK

LEMMA DefaultIsConfig == Default \in Config
  BY NameAssumption DEF Default, Config

(* What a write cut short leaves is a configuration, or does not parse. *)
LEMMA PartTypes ==
  ASSUME NEW c \in Config
  PROVE  Part(c) \subseteq Config \cup {Garbled}
<1>1. c.username \in Name /\ c.password \in Name
  BY DEF Config
<1>2. Cuts(c.username) \subseteq Name /\ Cuts(c.password) \subseteq Name
  BY <1>1, NameAssumption DEF Cuts
<1> QED
  BY <1>1, <1>2, NameAssumption DEF Part, Config

LEMMA NextTypeOK == TypeOK /\ [Next]_vars => TypeOK'
<1> SUFFICES ASSUME TypeOK, [Next]_vars PROVE TypeOK'
  OBVIOUS
<1> USE BoundAssumption DEF TypeOK, memory, Fault, NoFault
<1>1. CASE Start
  BY <1>1 DEF Start
<1>2. CASE Dies
  BY <1>2 DEF Dies
<1>3. ASSUME NEW c \in Config \cup {Garbled}, Edit(c) PROVE TypeOK'
  BY <1>3 DEF Edit
<1>4. CASE CheckFails \/ CreateFails \/ CheckRejects \/ StatFlag \/ StatFails
  <2>1. CASE CheckFails
    BY <2>1 DEF CheckFails, InitFailed, AfterFailure
  <2>2. CASE CreateFails
    BY <2>2 DEF CreateFails, InitFailed, AfterFailure
  <2>3. CASE CheckRejects
    BY <2>3 DEF CheckRejects, InitFailed, AfterFailure
  <2>4. CASE StatFlag
    <3>1. pc' \in {"init", "setup"}
      BY <2>4 DEF StatFlag, AfterCheck
    <3> QED
      BY <2>4, <3>1 DEF StatFlag
  <2>5. CASE StatFails
    BY <2>5 DEF StatFails
  <2> QED
    BY <1>4, <2>1, <2>2, <2>3, <2>4, <2>5
<1>5. CASE CheckLoads
  <2>1. Loaded \in Config
    BY <1>5, DefaultIsConfig DEF CheckLoads, Readable, Loaded
  <2> QED
    BY <1>5, <2>1 DEF CheckLoads
<1>6. CASE CheckCreates
  BY <1>6 DEF CheckCreates
<1>7. CASE CreateWrites
  BY <1>7, DefaultIsConfig DEF CreateWrites
<1>8. ASSUME NEW u \in Name, NEW p \in Name, Answer(u, p) PROVE TypeOK'
  <2>1. [username |-> u, password |-> p] \in Config
    BY DEF Config
  <2> QED
    BY <1>8, <2>1 DEF Answer
<1>9. CASE Save \/ SaveWrites \/ CreateFlag \/ SetupFails
  <2>1. CASE Save
    BY <2>1 DEF Save, FlagLater
  <2>2. CASE SaveWrites
    BY <2>2 DEF SaveWrites
  <2>3. CASE CreateFlag
    BY <2>3 DEF CreateFlag
  <2>4. CASE SetupFails
    BY <2>4 DEF SetupFails
  <2> QED
    BY <1>9, <2>1, <2>2, <2>3, <2>4
<1>10. CASE MainInit \/ GetConfig
  BY <1>10 DEF MainInit, GetConfig
<1>11. CASE UNCHANGED vars
  BY <1>11 DEF vars
<1>12. CASE WritesPart
  <2>1. file' \in Config \cup {Garbled}
    BY <1>12, DefaultIsConfig, PartTypes DEF WritesPart
  <2> QED
    BY <1>12, <2>1 DEF WritesPart
<1> QED
  BY <1>1, <1>2, <1>3, <1>4, <1>5, <1>6, <1>7, <1>8, <1>9, <1>10, <1>11, <1>12
     DEF Next, IsFirstRun, Setup, Main

(* Type correctness of the start-up: in particular Setup never runs without *)
(* a configuration to fill in.                                              *)
THEOREM TypeCorrect == Spec => []TypeOK
  BY InitTypeOK, NextTypeOK, PTL DEF Spec

-----------------------------------------------------------------------------
LEMMA InitIInv == Init => IInv
<1>1. Init => FlagMeansSaved /\ PointInv
  BY DEF Init, FlagMeansSaved, PointInv
<1> QED
  BY <1>1, InitTypeOK DEF IInv

LEMMA NextIInv == IInv /\ [Next]_vars => IInv'
<1> SUFFICES ASSUME IInv, [Next]_vars PROVE FlagMeansSaved' /\ PointInv'
  BY NextTypeOK DEF IInv
<1> USE FileAssumption DEF IInv, TypeOK, FlagMeansSaved, PointInv, memory
<1>1. CASE Start
  BY <1>1 DEF Start
<1>2. CASE Dies
  BY <1>2 DEF Dies
<1>3. ASSUME NEW c \in Config \cup {Garbled}, Edit(c) PROVE FlagMeansSaved' /\ PointInv'
  BY <1>3 DEF Edit
<1>4. CASE CheckFails \/ CreateFails \/ CheckRejects
  BY <1>4 DEF CheckFails, CreateFails, CheckRejects, InitFailed, AfterFailure
<1>5. CASE CheckLoads
  <2>1. CASE flag
    <3>1. file = answered /\ file \in Config
      BY <1>5, <2>1 DEF CheckLoads, Readable
    <3>2. Loaded = answered
      BY <3>1 DEF Loaded
    <3> QED
      BY <1>5, <2>1, <3>2 DEF CheckLoads
  <2>2. CASE ~flag
    BY <1>5, <2>2 DEF CheckLoads
  <2> QED
    BY <2>1, <2>2
<1>6. CASE CheckCreates
  <2>1. ~flag
    BY <1>6 DEF CheckCreates
  <2> QED
    BY <1>6, <2>1 DEF CheckCreates
<1>7. CASE CreateWrites
  BY <1>7 DEF CreateWrites
<1>8. ASSUME NEW u \in Name, NEW p \in Name, Answer(u, p) PROVE FlagMeansSaved' /\ PointInv'
  BY <1>8 DEF Answer
<1>9. CASE Save
  BY <1>9 DEF Save, FlagLater
<1>10. CASE SaveWrites
  BY <1>10 DEF SaveWrites
<1>11. CASE CreateFlag
  BY <1>11 DEF CreateFlag
<1>12. CASE SetupFails
  BY <1>12 DEF SetupFails
<1>13. CASE MainInit \/ GetConfig
  BY <1>13 DEF MainInit, GetConfig
<1>14. CASE UNCHANGED vars
  BY <1>14 DEF vars
<1>15. CASE StatFlag \/ StatFails
  BY <1>15 DEF StatFlag, StatFails, AfterCheck
<1>16. CASE WritesPart
  <2>1. ~flag
    BY <1>16 DEF WritesPart
  <2> QED
    BY <1>16, <2>1 DEF WritesPart
<1> QED
  BY <1>1, <1>2, <1>3, <1>4, <1>5, <1>6, <1>7, <1>8, <1>9, <1>10, <1>11,
     <1>12, <1>13, <1>14, <1>15, <1>16
     DEF Next, IsFirstRun, Setup, Main

LEMMA Invariant == Spec => []IInv
  BY InitIInv, NextIInv, PTL DEF Spec

(* The flag file never exists without the answers on disk, wherever a crash *)
(* or an error strikes.                                                     *)
THEOREM FlagVouches == Spec => []FlagMeansSaved
<1>1. IInv => FlagMeansSaved
  BY DEF IInv
<1> QED
  BY Invariant, <1>1, PTL

(* eClip runs with what the user last entered, over any number of restarts, *)
(* but for a start that cannot examine the flag file before a setup is       *)
(* complete.                                                                *)
THEOREM RunsWithAnswers == Spec => []RunsAsAnswered
<1>1. IInv => RunsAsAnswered
  BY FileAssumption DEF IInv, TypeOK, PointInv, RunsAsAnswered
<1> QED
  BY Invariant, <1>1, PTL

(* After setup is complete nothing but the user changes the file again.     *)
THEOREM SetupIsFinal == Spec => SetupOnce
<1>1. IInv /\ [Next]_vars => [flag /\ pc # "down" => UNCHANGED <<file, flag, answered>>]_vars
  <2> SUFFICES ASSUME IInv, Next, flag, pc # "down"
               PROVE  UNCHANGED <<file, flag, answered>>
    OBVIOUS
  <2> USE FileAssumption DEF IInv, TypeOK, PointInv, FlagMeansSaved, memory
  <2>1. CASE Start \/ Dies \/ \E c \in Config \cup {Garbled} : Edit(c)
    BY <2>1 DEF Start, Dies, Edit
  <2>2. CASE IsFirstRun \/ CheckFails \/ CreateFails \/ StatFails \/ WritesPart
    BY <2>2 DEF IsFirstRun, CheckLoads, CheckRejects, CheckCreates, CreateWrites,
                CheckFails, CreateFails, InitFailed, StatFlag, StatFails, WritesPart
  <2>3. CASE Setup \/ SetupFails
    BY <2>3 DEF Setup, Answer, Save, SaveWrites, CreateFlag, SetupFails
  <2>4. CASE Main
    BY <2>4 DEF Main, MainInit, GetConfig
  <2> QED
    BY <2>1, <2>2, <2>3, <2>4 DEF Next
<1> QED
  BY Invariant, <1>1, PTL DEF Spec, SetupOnce
=============================================================================
