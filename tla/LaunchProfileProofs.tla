------------------------- MODULE LaunchProfileProofs -------------------------
(***************************************************************************)
(* Theorems about LaunchProfile, for every set of profiles, every board    *)
(* and every number of reloads.                                            *)
(***************************************************************************)
EXTENDS LaunchProfile, TLAPS

Claim == STRING \X Int

\* The kind and what it claims of a resource of a known profile.
LEMMA ResourceFacts ==
    ASSUME NEW p \in Profiles, NEW k \in 1 .. Len(p.resources)
    PROVE  /\ p.resources[k].kind \in {"character", "bsc", "gpio"}
           /\ p.resources[k].name \in STRING
           /\ p.resources[k].path \in STRING
           /\ p.resources[k].kind = "gpio" =>
                 GpioLines(p.resources[k]) \subseteq STRING \X Nat
           /\ Claims(p.resources[k]) \subseteq Claim
PROOF
<1>1. /\ p.resources[k].kind \in {"character", "bsc", "gpio"}
      /\ p.resources[k].name \in STRING
      /\ p.resources[k].path \in STRING
  BY LaunchAssumption
<1>2. ASSUME p.resources[k].kind = "gpio"
      PROVE  GpioLines(p.resources[k]) \subseteq STRING \X Nat
  BY <1>1, <1>2, LaunchAssumption DEF GpioLines
<1>3. Claims(p.resources[k]) \subseteq Claim
  <2>1. CASE p.resources[k].kind = "gpio"
    BY <1>2, <2>1 DEF Claims, Claim
  <2>2. CASE p.resources[k].kind # "gpio"
    BY <1>1, <2>2 DEF Claims, Claim, Node
  <2> QED BY <2>1, <2>2
<1> QED BY <1>1, <1>2, <1>3

\* What the type invariant says of the program counters and sets, and of the
\* files, apart from each other.
ControlTypes ==
    /\ stage \in Stages
    /\ options = [profile |-> options.profile, check |-> options.check]
    /\ options.check \in BOOLEAN
    /\ disk \in Profiles /\ candidate \in Profiles
    /\ next \in Nat \ {0}
    /\ profile = <<>> \/ \E p \in Profiles : profile = <<p>>
    /\ reloads \in 0 .. MaxReloads

SetTypes ==
    /\ names \subseteq STRING /\ paths \subseteq STRING
    /\ lines \subseteq STRING \X Nat

WorkerTypes ==
    worker # <<>> =>
        /\ worker =
              <<[names |-> worker[1].names, files |-> worker[1].files]>>
        /\ worker[1].files \in Seq(SUBSET Claim)

FileTypes == opened \in Seq(SUBSET Claim) /\ WorkerTypes

\* The stage tells what exists: files only while they are opened, a worker
\* only from its start to its end, a driver only in device mode.
StageFacts ==
    /\ opened # <<>> => stage = "open"
    /\ worker # <<>> => stage \in {"serving", "load", "validate", "setup"}
    /\ driver # <<>> =>
          stage \in {"open", "serving"} /\ profile[1].mode = "device"
    /\ stage \in {"open", "serving"} \/ worker # <<>> => profile # <<>>
    /\ stage = "serving" => worker # <<>>

IInvTypes == ControlTypes /\ SetTypes /\ FileTypes /\ StageFacts

LEMMA TypesInit == LaunchInit => IInvTypes
PROOF
  BY LaunchAssumption DEF LaunchInit, IInvTypes, ControlTypes, SetTypes,
     FileTypes, WorkerTypes, StageFacts, Stages, NoOptions

LEMMA ControlTypesStep ==
    ASSUME IInvTypes, [LaunchNext]_launchVars
    PROVE  ControlTypes'
PROOF
<1> USE DEF IInvTypes
<1>1. CASE ParseOther \/ ParseEnd \/ Load \/ ValidateEnd \/ HostRefuses
  BY <1>1, LaunchAssumption
     DEF ParseOther, ParseEnd, Load, ValidateEnd, HostRefuses, ControlTypes,
         StageFacts, Stages, Stop, argumentVars, setVars, hostVars
<1>2. CASE OpenFile \/ OpenBscTarget \/ StartWorker \/ WorkerLost
  BY <1>2, LaunchAssumption
     DEF OpenFile, OpenBscTarget, StartWorker, WorkerLost, ControlTypes,
         StageFacts, Stages, Stop, argumentVars, setVars, hostVars
<1>3. CASE Reload \/ EditProfile
  BY <1>3, LaunchAssumption
     DEF Reload, EditProfile, ControlTypes, StageFacts, Stages, Stop,
         argumentVars, setVars, hostVars
<1>4. CASE ParseProfile
  BY <1>4, LaunchAssumption
     DEF ParseProfile, ControlTypes, StageFacts, Stages, Stop, argumentVars,
         setVars, hostVars
<1>5. CASE ParseCheck
  BY <1>5, LaunchAssumption
     DEF ParseCheck, ControlTypes, StageFacts, Stages, Stop, argumentVars,
         setVars, hostVars
<1>6. CASE ValidateResource
  BY <1>6, LaunchAssumption
     DEF ValidateResource, ControlTypes, StageFacts, Stages, Stop,
         argumentVars, setVars, hostVars
<1>7. CASE BeginLaunch
  BY <1>7, LaunchAssumption
     DEF BeginLaunch, ControlTypes, StageFacts, Stages, Stop, argumentVars,
         setVars, hostVars
<1>8. CASE UNCHANGED launchVars
  BY <1>8
     DEF ControlTypes, StageFacts, Stages, launchVars, argumentVars, setVars,
         hostVars
<1> QED
  BY <1>1, <1>2, <1>3, <1>4, <1>5, <1>6, <1>7, <1>8 DEF LaunchNext

LEMMA SetTypesStep ==
    ASSUME IInvTypes, [LaunchNext]_launchVars
    PROVE  SetTypes'
PROOF
<1> USE DEF IInvTypes
<1>1. CASE ParseProfile \/ ParseCheck \/ ParseOther \/ ParseEnd \/ Load
  BY <1>1, LaunchAssumption
     DEF ParseProfile, ParseCheck, ParseOther, ParseEnd, Load, SetTypes, Stop,
         argumentVars, setVars, hostVars
<1>2. CASE ValidateEnd \/ BeginLaunch \/ OpenFile \/ OpenBscTarget \/
          HostRefuses \/ StartWorker
  BY <1>2, LaunchAssumption
     DEF ValidateEnd, BeginLaunch, OpenFile, OpenBscTarget, HostRefuses,
         StartWorker, SetTypes, Stop, argumentVars, setVars, hostVars
<1>3. CASE WorkerLost \/ Reload \/ EditProfile
  BY <1>3, LaunchAssumption
     DEF WorkerLost, Reload, EditProfile, SetTypes, Stop, argumentVars,
         setVars, hostVars
<1>4. CASE ValidateResource
  <2> DEFINE r == candidate.resources[next]
  <2>1. next \in 1 .. Len(candidate.resources) /\ candidate \in Profiles
    BY <1>4, LaunchAssumption DEF ValidateResource, ControlTypes
  <2>2. /\ r.name \in STRING /\ r.path \in STRING
        /\ r.kind = "gpio" => GpioLines(r) \subseteq STRING \X Nat
    BY <2>1, ResourceFacts
  <2>3. CASE ResourceFits(candidate, r)
    <3>1. names' = names \cup {r.name}
      BY <1>4, <2>3 DEF ValidateResource
    <3>2. \/ r.kind = "gpio" /\ lines' = lines \cup GpioLines(r)
             /\ paths' = paths
          \/ paths' = paths \cup {r.path} /\ lines' = lines
      BY <1>4, <2>3 DEF ValidateResource
    <3> QED BY <2>2, <3>1, <3>2 DEF SetTypes
  <2>4. CASE ~ResourceFits(candidate, r)
    BY <1>4, <2>4 DEF ValidateResource, SetTypes, setVars
  <2> QED BY <2>3, <2>4
<1>5. CASE UNCHANGED launchVars
  BY <1>5 DEF SetTypes, launchVars, argumentVars, setVars, hostVars
<1> QED
  BY <1>1, <1>2, <1>3, <1>4, <1>5 DEF LaunchNext

LEMMA StageFactsStep ==
    ASSUME IInvTypes, [LaunchNext]_launchVars
    PROVE  StageFacts'
PROOF
<1> USE DEF IInvTypes
<1>1. CASE ParseProfile \/ ParseCheck \/ ParseOther \/ ParseEnd \/ Load
  BY <1>1, LaunchAssumption
     DEF ParseProfile, ParseCheck, ParseOther, ParseEnd, Load, StageFacts,
         ControlTypes, GoesOn, Stop, argumentVars, setVars, hostVars
<1>2. CASE ValidateEnd \/ HostRefuses
  BY <1>2, LaunchAssumption
     DEF ValidateEnd, HostRefuses, StageFacts, ControlTypes, GoesOn, Stop,
         argumentVars, setVars, hostVars
<1>3. CASE OpenFile \/ StartWorker
  BY <1>3, LaunchAssumption
     DEF OpenFile, StartWorker, StageFacts, ControlTypes, GoesOn, Stop,
         argumentVars, setVars, hostVars
<1>4. CASE ValidateResource
  BY <1>4, LaunchAssumption
     DEF ValidateResource, StageFacts, ControlTypes, GoesOn, Stop,
         argumentVars, setVars, hostVars
<1>5. CASE BeginLaunch
  BY <1>5, LaunchAssumption
     DEF BeginLaunch, StageFacts, ControlTypes, GoesOn, Stop, argumentVars,
         setVars, hostVars
<1>6. CASE OpenBscTarget
  BY <1>6, LaunchAssumption
     DEF OpenBscTarget, StageFacts, ControlTypes, GoesOn, Stop, argumentVars,
         setVars, hostVars
<1>7. CASE WorkerLost
  BY <1>7, LaunchAssumption
     DEF WorkerLost, StageFacts, ControlTypes, GoesOn, Stop, argumentVars,
         setVars, hostVars
<1>8. CASE Reload
  BY <1>8, LaunchAssumption
     DEF Reload, StageFacts, ControlTypes, GoesOn, Stop, argumentVars,
         setVars, hostVars
<1>9. CASE EditProfile
  BY <1>9, LaunchAssumption
     DEF EditProfile, StageFacts, ControlTypes, GoesOn, Stop, argumentVars,
         setVars, hostVars
<1>10. CASE UNCHANGED launchVars
  BY <1>10
     DEF StageFacts, ControlTypes, GoesOn, launchVars, argumentVars, setVars,
         hostVars
<1> QED
  BY <1>1, <1>2, <1>3, <1>4, <1>5, <1>6, <1>7, <1>8, <1>9, <1>10
     DEF LaunchNext

\* Files that stay or are dropped keep their types.
LEMMA WorkerKept ==
    ASSUME WorkerTypes, worker' \in {worker, <<>>}
    PROVE  WorkerTypes'
PROOF
<1>1. CASE worker' = worker
  BY <1>1, Zenon DEF WorkerTypes
<1>2. CASE worker' = <<>>
  BY <1>2, Zenon DEF WorkerTypes
<1> QED BY <1>1, <1>2

LEMMA FilesKept ==
    ASSUME FileTypes, opened' \in {opened, <<>>}, worker' \in {worker, <<>>}
    PROVE  FileTypes'
PROOF
<1>1. opened' \in Seq(SUBSET Claim)
  <2>1. opened \in Seq(SUBSET Claim) /\ <<>> \in Seq(SUBSET Claim)
    BY DEF FileTypes
  <2> QED BY <2>1
<1>2. WorkerTypes'
  BY WorkerKept DEF FileTypes
<1> QED BY <1>1, <1>2, Zenon DEF FileTypes

LEMMA FileTypesStep ==
    ASSUME IInvTypes, [LaunchNext]_launchVars
    PROVE  FileTypes'
PROOF
<1> USE DEF IInvTypes
<1> DEFINE Kept == opened' \in {opened, <<>>} /\ worker' \in {worker, <<>>}
<1>1. CASE OpenFile
  <2> DEFINE r == profile[1].resources[next]
  <2>1. PICK p \in Profiles : profile = <<p>>
    BY <1>1 DEF OpenFile, ControlTypes, StageFacts
  <2>2. next \in 1 .. Len(p.resources) /\ r = p.resources[next]
    BY <1>1, <2>1, LaunchAssumption DEF OpenFile, ControlTypes
  <2>3. Claims(r) \in SUBSET Claim
    BY <2>2, ResourceFacts
  <2>4. opened' \in {Append(opened, Claims(r)), <<>>}
    BY <1>1 DEF OpenFile, Stop
  <2>5. worker' \in {worker, <<>>}
    BY <1>1 DEF OpenFile, Stop
  <2>6. opened' \in Seq(SUBSET Claim)
    <3>1. opened \in Seq(SUBSET Claim) /\ <<>> \in Seq(SUBSET Claim)
      BY DEF FileTypes
    <3>2. Append(opened, Claims(r)) \in Seq(SUBSET Claim)
      BY <2>3, <3>1
    <3> QED BY <2>4, <3>1, <3>2, Zenon
  <2>7. WorkerTypes'
    BY <2>5, WorkerKept DEF FileTypes
  <2> QED BY <2>6, <2>7, Zenon DEF FileTypes
<1>2. CASE OpenBscTarget
  <2> DEFINE r == profile[1].resources[next]
  <2>1. PICK p \in Profiles : profile = <<p>>
    BY <1>2 DEF OpenBscTarget, ControlTypes, StageFacts
  <2>2. next \in 1 .. Len(p.resources) /\ r = p.resources[next]
    BY <1>2, <2>1, LaunchAssumption DEF OpenBscTarget, ControlTypes
  <2>3. Claims(r) \in SUBSET Claim
    BY <2>2, ResourceFacts
  <2>4. opened' \in {Append(opened, Claims(r)), <<>>}
    BY <1>2 DEF OpenBscTarget, Stop
  <2>5. worker' \in {worker, <<>>}
    BY <1>2 DEF OpenBscTarget, Stop
  <2>6. opened' \in Seq(SUBSET Claim)
    <3>1. opened \in Seq(SUBSET Claim) /\ <<>> \in Seq(SUBSET Claim)
      BY DEF FileTypes
    <3>2. Append(opened, Claims(r)) \in Seq(SUBSET Claim)
      BY <2>3, <3>1
    <3> QED BY <2>4, <3>1, <3>2, Zenon
  <2>7. WorkerTypes'
    BY <2>5, WorkerKept DEF FileTypes
  <2> QED BY <2>6, <2>7, Zenon DEF FileTypes
<1>3. CASE StartWorker
  <2> DEFINE told == [k \in 1 .. Len(profile[1].resources) |->
                        profile[1].resources[k].name]
  <2>1. worker' = <<[names |-> told, files |-> opened]>> /\ opened' = <<>>
    BY <1>3 DEF StartWorker
  <2>2. worker'[1] = [names |-> told, files |-> opened]
    BY <2>1
  <2> QED BY <2>1, <2>2 DEF FileTypes, WorkerTypes
<1>4. CASE ParseProfile \/ ParseCheck \/ ParseOther \/ ParseEnd \/ Load
  <2>1. Kept
    BY <1>4 DEF ParseProfile, ParseCheck, ParseOther, ParseEnd, Load, Stop,
       hostVars
  <2> QED BY <2>1, FilesKept
<1>5. CASE ValidateResource \/ ValidateEnd \/ BeginLaunch \/ HostRefuses
  <2>1. Kept
    BY <1>5 DEF ValidateResource, ValidateEnd, BeginLaunch, HostRefuses, Stop,
       hostVars
  <2> QED BY <2>1, FilesKept
<1>6. CASE WorkerLost \/ Reload \/ EditProfile
  <2>1. Kept
    BY <1>6 DEF WorkerLost, Reload, EditProfile, Stop, hostVars
  <2> QED BY <2>1, FilesKept
<1>7. CASE UNCHANGED launchVars
  <2>1. Kept
    BY <1>7 DEF launchVars, hostVars
  <2> QED BY <2>1, FilesKept
<1> QED
  BY <1>1, <1>2, <1>3, <1>4, <1>5, <1>6, <1>7 DEF LaunchNext

LEMMA TypesStep ==
    ASSUME IInvTypes, [LaunchNext]_launchVars
    PROVE  IInvTypes'
PROOF
  BY ControlTypesStep, SetTypesStep, StageFactsStep, FileTypesStep
     DEF IInvTypes

\* The type invariant holds of every launch, for every set of profiles.
THEOREM LaunchTypes == LaunchSpec => []LaunchTypeOK
PROOF
<1>1. IInvTypes => LaunchTypeOK
  BY DEF IInvTypes, ControlTypes, SetTypes, FileTypes, WorkerTypes, Claim,
     LaunchTypeOK
<1>2. IInvTypes /\ [LaunchNext]_launchVars => IInvTypes'
  BY TypesStep
<1> QED BY TypesInit, <1>1, <1>2, PTL DEF LaunchSpec

(***************************************************************************)
(* What validation establishes, and how it reaches the worker.             *)
(***************************************************************************)

\* Of the resources before position n: no two share a name or a claim.
Apart(p, n) ==
    \A j, k \in 1 .. Len(p.resources) : j < k /\ k < n =>
        /\ p.resources[j].name # p.resources[k].name
        /\ Claims(p.resources[j]) \cap Claims(p.resources[k]) = {}

\* Of the BSC targets before n: every variant has pins of its own.
PinsApart(p, n) ==
    \A k \in 1 .. Len(p.resources) : k < n /\ p.resources[k].kind = "bsc" =>
        \A v \in 1 .. Len(p.resources[k].variants) :
            /\ p.resources[k].variants[v].sda # p.resources[k].variants[v].scl
            /\ p.resources[k].ready \notin {p.resources[k].variants[v].sda,
                                            p.resources[k].variants[v].scl}

\* The three hash sets have seen everything before n.
Remembered(p, n) ==
    \A k \in 1 .. Len(p.resources) : k < n =>
        /\ p.resources[k].name \in names
        /\ p.resources[k].kind = "gpio" =>
              GpioLines(p.resources[k]) \subseteq lines
        /\ p.resources[k].kind # "gpio" => p.resources[k].path \in paths

OneInDeviceMode(p) == p.mode = "device" => Len(p.resources) = 1

Checked(p) ==
    LET n == Len(p.resources) + 1
    IN Apart(p, n) /\ PinsApart(p, n) /\ OneInDeviceMode(p)

\* The candidate is sound as far as validation has come.
CandidateFacts ==
    /\ stage = "validate" =>
          /\ next <= Len(candidate.resources) + 1
          /\ Apart(candidate, next) /\ PinsApart(candidate, next)
          /\ Remembered(candidate, next)
          /\ OneInDeviceMode(candidate)
    /\ stage = "setup" => Checked(candidate)

\* The profile in force is sound, and the files are those of its resources.
ForceFacts == stage \in {"open", "serving"} => Checked(profile[1])

OpenFacts ==
    stage = "open" =>
        /\ next <= Len(profile[1].resources) + 1
        /\ Len(opened) = next - 1
        /\ \A k \in 1 .. Len(opened) :
              opened[k] = Claims(profile[1].resources[k])

WorkerFacts ==
    stage = "serving" =>
        /\ worker[1].names = [k \in 1 .. Len(profile[1].resources) |->
                                 profile[1].resources[k].name]
        /\ Len(worker[1].files) = Len(profile[1].resources)
        /\ \A k \in 1 .. Len(worker[1].files) :
              worker[1].files[k] = Claims(profile[1].resources[k])

\* Nothing is in force while the command line is read, nor ever in a check.
CheckFacts ==
    stage = "arguments" \/ options.check =>
        profile = <<>> /\ stage \notin {"setup", "open", "serving"}

IInvLaunch ==
    /\ IInvTypes
    /\ CandidateFacts /\ ForceFacts /\ OpenFacts /\ WorkerFacts
    /\ CheckFacts /\ DriverFitsBoard

\* A resource that fits shares nothing with those validated before it.
LEMMA FreshResource ==
    ASSUME NEW p \in Profiles, NEW n \in 1 .. Len(p.resources),
           Remembered(p, n), ResourceFits(p, p.resources[n]),
           NEW k \in 1 .. Len(p.resources), k < n
    PROVE  /\ p.resources[k].name # p.resources[n].name
           /\ Claims(p.resources[k]) \cap Claims(p.resources[n]) = {}
PROOF
<1> DEFINE old == p.resources[k]
           r == p.resources[n]
<1>1. /\ old.name \in names
      /\ old.kind = "gpio" => GpioLines(old) \subseteq lines
      /\ old.kind # "gpio" => old.path \in paths
  BY DEF Remembered
<1>2. /\ old.kind = "gpio" => GpioLines(old) \subseteq STRING \X Nat
      /\ r.kind = "gpio" => GpioLines(r) \subseteq STRING \X Nat
      /\ r.kind \in {"character", "bsc", "gpio"}
  BY ResourceFacts
<1>3. r.name \notin names
  BY DEF ResourceFits, NameFits
<1>4. /\ r.kind = "gpio" => GpioLines(r) \cap lines = {}
      /\ r.kind # "gpio" => r.path \notin paths
  BY <1>2 DEF ResourceFits, CharacterFits, BscFits, GpioFits
<1>5. Claims(old) \cap Claims(r) = {}
  <2>1. CASE old.kind = "gpio" /\ r.kind = "gpio"
    BY <2>1, <1>1, <1>4 DEF Claims
  <2>2. CASE old.kind # "gpio" /\ r.kind # "gpio"
    BY <2>2, <1>1, <1>4 DEF Claims
  <2>3. CASE old.kind = "gpio" /\ r.kind # "gpio"
    BY <2>3, <1>2 DEF Claims, Node
  <2>4. CASE old.kind # "gpio" /\ r.kind = "gpio"
    BY <2>4, <1>2 DEF Claims, Node
  <2> QED BY <2>1, <2>2, <2>3, <2>4
<1> QED BY <1>1, <1>3, <1>5

LEMMA ApartClaims ==
    ASSUME NEW p, NEW n, Apart(p, n), NEW j \in 1 .. Len(p.resources),
           NEW k \in 1 .. Len(p.resources), j < k, k < n
    PROVE  Claims(p.resources[j]) \cap Claims(p.resources[k]) = {}
PROOF
  BY DEF Apart

LEMMA PinsOfVariant ==
    ASSUME NEW p, NEW n, PinsApart(p, n), NEW k \in 1 .. Len(p.resources),
           k < n, p.resources[k].kind = "bsc",
           NEW v \in 1 .. Len(p.resources[k].variants)
    PROVE  /\ p.resources[k].variants[v].sda # p.resources[k].variants[v].scl
           /\ p.resources[k].ready \notin {p.resources[k].variants[v].sda,
                                           p.resources[k].variants[v].scl}
PROOF
  BY DEF PinsApart

LEMMA SoundInit == LaunchInit => IInvLaunch
PROOF
<1>1. LaunchInit => IInvTypes
  BY TypesInit
<1>2. LaunchInit => CandidateFacts /\ ForceFacts /\ OpenFacts
                    /\ WorkerFacts /\ CheckFacts /\ DriverFitsBoard
  BY DEF LaunchInit, NoOptions, CandidateFacts, ForceFacts, OpenFacts,
     WorkerFacts, CheckFacts, DriverFitsBoard
<1> QED BY <1>1, <1>2 DEF IInvLaunch

\* One more resource was found to fit.
LEMMA ResourceAccepted ==
    ASSUME IInvLaunch, ValidateResource,
           ResourceFits(candidate, candidate.resources[next])
    PROVE  CandidateFacts'
PROOF
<1> DEFINE p == candidate
           n == next
           r == candidate.resources[next]
<1>1. /\ p \in Profiles /\ n \in 1 .. Len(p.resources)
      /\ Len(p.resources) \in Nat
  BY LaunchAssumption DEF IInvLaunch, IInvTypes, ControlTypes,
     ValidateResource
<1>2. /\ Apart(p, n) /\ PinsApart(p, n) /\ Remembered(p, n)
      /\ OneInDeviceMode(p)
  BY DEF IInvLaunch, CandidateFacts, ValidateResource
<1>3. /\ stage' = "validate" /\ candidate' = p /\ next' = n + 1
      /\ names' = names \cup {r.name}
      /\ r.kind = "gpio" => lines' = lines \cup GpioLines(r) /\ paths' = paths
      /\ r.kind # "gpio" => paths' = paths \cup {r.path} /\ lines' = lines
  BY DEF ValidateResource
<1>4. Apart(p, n + 1)
  <2> SUFFICES ASSUME NEW j \in 1 .. Len(p.resources),
                      NEW k \in 1 .. Len(p.resources), j < k, k < n + 1
               PROVE  /\ p.resources[j].name # p.resources[k].name
                      /\ Claims(p.resources[j]) \cap Claims(p.resources[k])
                            = {}
    BY DEF Apart
  <2>1. CASE k < n
    BY <1>2, <2>1 DEF Apart
  <2>2. CASE k = n
    BY <1>1, <1>2, <2>2, FreshResource
  <2> QED BY <1>1, <2>1, <2>2
<1>5. PinsApart(p, n + 1)
  <2> SUFFICES ASSUME NEW k \in 1 .. Len(p.resources), k < n + 1,
                      p.resources[k].kind = "bsc",
                      NEW v \in 1 .. Len(p.resources[k].variants)
               PROVE  LET t == p.resources[k].variants[v]
                      IN /\ t.sda # t.scl
                         /\ p.resources[k].ready \notin {t.sda, t.scl}
    BY DEF PinsApart
  <2>1. CASE k < n
    BY <1>2, <2>1 DEF PinsApart
  <2>2. CASE k = n
    BY <2>2 DEF ResourceFits, BscFits
  <2> QED BY <1>1, <2>1, <2>2
<1>6. Remembered(candidate, next)'
  <2> SUFFICES ASSUME NEW k \in 1 .. Len(p.resources), k < n + 1
               PROVE  /\ p.resources[k].name \in names'
                      /\ p.resources[k].kind = "gpio" =>
                            GpioLines(p.resources[k]) \subseteq lines'
                      /\ p.resources[k].kind # "gpio" =>
                            p.resources[k].path \in paths'
    BY <1>3 DEF Remembered
  <2>1. CASE k < n
    BY <1>2, <1>3, <2>1 DEF Remembered
  <2>2. CASE k = n
    BY <1>3, <2>2
  <2> QED BY <1>1, <2>1, <2>2
<1> QED BY <1>1, <1>2, <1>3, <1>4, <1>5, <1>6 DEF CandidateFacts, Remembered

LEMMA CandidateFactsStep ==
    ASSUME IInvLaunch, [LaunchNext]_launchVars
    PROVE  CandidateFacts'
PROOF
<1> USE DEF IInvLaunch
<1>1. CASE stage' \notin {"validate", "setup"}
  BY <1>1 DEF CandidateFacts
<1>2. CASE ParseProfile \/ ParseCheck \/ ParseOther \/ ParseEnd
  BY <1>1, <1>2 DEF ParseProfile, ParseCheck, ParseOther, ParseEnd, Stop
<1>3. CASE Load
  <2>1. CASE stage' = "validate"
    <3>1. candidate' = disk /\ next' = 1 /\ HeadValid(disk)
      BY <1>3, <2>1 DEF Load, Stop
    <3>2. disk \in Profiles /\ Len(disk.resources) \in Nat
      BY LaunchAssumption DEF IInvTypes, ControlTypes
    <3>3. /\ Apart(disk, 1) /\ PinsApart(disk, 1) /\ OneInDeviceMode(disk)
          /\ Remembered(disk, 1)'
      BY <3>1, <3>2 DEF Apart, PinsApart, Remembered, OneInDeviceMode,
         HeadValid, DeviceResources
    <3> QED BY <2>1, <3>1, <3>2, <3>3 DEF CandidateFacts, Remembered
  <2>2. CASE stage' # "validate"
    BY <1>1, <1>3, <2>2 DEF Load, Stop
  <2> QED BY <2>1, <2>2
<1>4. CASE ValidateResource
  <2>1. CASE ResourceFits(candidate, candidate.resources[next])
    BY <1>4, <2>1, ResourceAccepted
  <2>2. CASE ~ResourceFits(candidate, candidate.resources[next])
    BY <1>1, <1>4, <2>2 DEF ValidateResource, Stop
  <2> QED BY <2>1, <2>2
<1>5. CASE ValidateEnd
  <2>1. CASE stage' = "setup"
    <3>1. candidate' = candidate /\ stage = "validate"
          /\ next > Len(candidate.resources)
      BY <1>5 DEF ValidateEnd
    <3>2. next = Len(candidate.resources) + 1
      BY <3>1, LaunchAssumption DEF CandidateFacts, IInvTypes, ControlTypes
    <3>3. Checked(candidate)
      BY <3>1, <3>2 DEF CandidateFacts, Checked
    <3> QED BY <2>1, <3>1, <3>3 DEF CandidateFacts
  <2>2. CASE stage' # "setup"
    BY <1>1, <1>5, <2>2 DEF ValidateEnd, Stop
  <2> QED BY <2>1, <2>2
<1>6. CASE BeginLaunch \/ OpenFile \/ OpenBscTarget \/ HostRefuses
           \/ StartWorker
  BY <1>1, <1>6 DEF BeginLaunch, OpenFile, OpenBscTarget, HostRefuses,
     StartWorker, Stop
<1>7. CASE WorkerLost \/ Reload \/ EditProfile
  BY <1>1, <1>7 DEF WorkerLost, Reload, EditProfile, Stop
<1>8. CASE UNCHANGED launchVars
  BY <1>8 DEF launchVars, setVars, CandidateFacts, Remembered
<1> QED
  BY <1>2, <1>3, <1>4, <1>5, <1>6, <1>7, <1>8 DEF LaunchNext

LEMMA ForceFactsStep ==
    ASSUME IInvLaunch, [LaunchNext]_launchVars
    PROVE  ForceFacts'
PROOF
<1> USE DEF IInvLaunch
<1>1. CASE stage' \notin {"open", "serving"}
  BY <1>1 DEF ForceFacts
<1>2. CASE stage \in {"open", "serving"} /\ profile' = profile
  BY <1>2 DEF ForceFacts
<1>3. CASE ParseProfile \/ ParseCheck \/ ParseOther \/ ParseEnd \/ Load
  BY <1>1, <1>3 DEF ParseProfile, ParseCheck, ParseOther, ParseEnd, Load, Stop
<1>4. CASE ValidateResource \/ ValidateEnd \/ HostRefuses \/ Reload
  BY <1>1, <1>4 DEF ValidateResource, ValidateEnd, HostRefuses, Reload, Stop
<1>5. CASE BeginLaunch
  <2>1. Checked(candidate) /\ profile' = <<candidate>>
    BY <1>5 DEF BeginLaunch, CandidateFacts
  <2> QED BY <2>1 DEF ForceFacts
<1>6. CASE OpenFile \/ OpenBscTarget \/ StartWorker \/ WorkerLost
           \/ EditProfile
  BY <1>2, <1>6 DEF OpenFile, OpenBscTarget, StartWorker, WorkerLost,
     EditProfile
<1>7. CASE UNCHANGED launchVars
  BY <1>1, <1>2, <1>7 DEF launchVars
<1> QED
  BY <1>3, <1>4, <1>5, <1>6, <1>7 DEF LaunchNext

\* The profile in force while files are opened, and the resource at next.
LEMMA InForce ==
    ASSUME IInvLaunch, stage = "open"
    PROVE  /\ profile[1] \in Profiles
           /\ Len(profile[1].resources) \in Nat
           /\ next \in Nat \ {0}
           /\ opened \in Seq(SUBSET Claim)
PROOF
<1>1. PICK p \in Profiles : profile = <<p>>
  BY DEF IInvLaunch, IInvTypes, ControlTypes, StageFacts
<1> QED
  BY <1>1, LaunchAssumption
     DEF IInvLaunch, IInvTypes, ControlTypes, FileTypes

\* One more file was opened.
LEMMA FileOpened ==
    ASSUME IInvLaunch, stage = "open", next <= Len(profile[1].resources),
           profile' = profile, next' = next + 1,
           opened' = Append(opened, Claims(profile[1].resources[next]))
    PROVE  OpenFacts'
PROOF
<1> DEFINE r == profile[1].resources
<1>1. /\ Len(r) \in Nat /\ next \in Nat \ {0}
      /\ opened \in Seq(SUBSET Claim)
  BY InForce
<1>2. /\ Len(opened) = next - 1
      /\ \A k \in 1 .. Len(opened) : opened[k] = Claims(r[k])
  BY DEF IInvLaunch, OpenFacts
<1>3. Claims(r[next]) \in SUBSET Claim
  BY <1>1, InForce, ResourceFacts
<1>4. Len(opened') = next
  BY <1>1, <1>2, <1>3
<1>5. ASSUME NEW k \in 1 .. next
      PROVE  opened'[k] = Claims(r[k])
  <2>1. CASE k = next
    BY <1>1, <1>2, <1>3, <2>1
  <2>2. CASE k # next
    <3>1. k \in 1 .. Len(opened)
      BY <1>1, <1>2, <2>2
    <3> QED BY <1>1, <1>2, <1>3, <3>1
  <2> QED BY <2>1, <2>2
<1> QED BY <1>1, <1>4, <1>5 DEF OpenFacts

LEMMA OpenFactsStep ==
    ASSUME IInvLaunch, [LaunchNext]_launchVars
    PROVE  OpenFacts'
PROOF
<1> USE DEF IInvLaunch
<1>1. CASE stage' # "open"
  BY <1>1 DEF OpenFacts
<1>2. CASE ParseProfile \/ ParseCheck \/ ParseOther \/ ParseEnd \/ Load
  BY <1>1, <1>2 DEF ParseProfile, ParseCheck, ParseOther, ParseEnd, Load, Stop
<1>3. CASE ValidateResource \/ ValidateEnd \/ HostRefuses \/ StartWorker
  BY <1>1, <1>3 DEF ValidateResource, ValidateEnd, HostRefuses, StartWorker,
     Stop
<1>4. CASE Reload \/ EditProfile
  BY <1>1, <1>4 DEF Reload, EditProfile
<1>5. CASE BeginLaunch
  <2>1. opened' = <<>> /\ next' = 1 /\ profile' = <<candidate>>
    BY <1>5 DEF BeginLaunch, IInvTypes, StageFacts
  <2>2. Len(candidate.resources) \in Nat
    BY LaunchAssumption DEF IInvTypes, ControlTypes
  <2> QED BY <2>1, <2>2 DEF OpenFacts
<1>6. CASE OpenFile
  <2>1. CASE Free(Claims(profile[1].resources[next]))
    BY <1>6, <2>1, FileOpened DEF OpenFile
  <2>2. CASE ~Free(Claims(profile[1].resources[next]))
    BY <1>1, <1>6, <2>2 DEF OpenFile, Stop
  <2> QED BY <2>1, <2>2
<1>7. CASE OpenBscTarget
  <2>1. CASE stage' = "stopped"
    BY <1>1, <2>1
  <2>2. CASE stage' # "stopped"
    BY <1>7, <2>2, FileOpened DEF OpenBscTarget, Stop
  <2> QED BY <2>1, <2>2
<1>8. CASE WorkerLost
  <2>1. CASE profile[1].mode = "usb"
    <3>1. /\ opened' = <<>> /\ next' = 1 /\ profile' = profile
          /\ stage = "serving"
      BY <1>8, <2>1 DEF WorkerLost, IInvTypes, StageFacts
    <3>2. PICK p \in Profiles : profile = <<p>>
      BY <3>1 DEF IInvTypes, ControlTypes, StageFacts
    <3>3. Len(profile[1].resources) \in Nat
      BY <3>2, LaunchAssumption
    <3> QED BY <3>1, <3>3 DEF OpenFacts
  <2>2. CASE profile[1].mode # "usb"
    BY <1>1, <1>8, <2>2 DEF WorkerLost, Stop
  <2> QED BY <2>1, <2>2
<1>9. CASE UNCHANGED launchVars
  BY <1>9 DEF launchVars, hostVars, OpenFacts
<1> QED
  BY <1>2, <1>3, <1>4, <1>5, <1>6, <1>7, <1>8, <1>9 DEF LaunchNext

LEMMA WorkerFactsStep ==
    ASSUME IInvLaunch, [LaunchNext]_launchVars
    PROVE  WorkerFacts'
PROOF
<1> USE DEF IInvLaunch
<1>1. CASE stage' # "serving"
  BY <1>1 DEF WorkerFacts
<1>2. CASE ParseProfile \/ ParseCheck \/ ParseOther \/ ParseEnd \/ Load
  BY <1>1, <1>2 DEF ParseProfile, ParseCheck, ParseOther, ParseEnd, Load, Stop
<1>3. CASE ValidateResource \/ ValidateEnd \/ HostRefuses \/ BeginLaunch
  BY <1>1, <1>3 DEF ValidateResource, ValidateEnd, HostRefuses, BeginLaunch,
     Stop
<1>4. CASE OpenFile \/ OpenBscTarget \/ WorkerLost \/ Reload
  BY <1>1, <1>4 DEF OpenFile, OpenBscTarget, WorkerLost, Reload, Stop
<1>5. CASE StartWorker
  <2> DEFINE told == [k \in 1 .. Len(profile[1].resources) |->
                        profile[1].resources[k].name]
  <2>1. /\ worker' = <<[names |-> told, files |-> opened]>>
        /\ profile' = profile /\ stage = "open"
        /\ next > Len(profile[1].resources)
    BY <1>5 DEF StartWorker
  <2>2. worker'[1] = [names |-> told, files |-> opened]
    BY <2>1
  <2>3. Len(opened) = Len(profile[1].resources)
    BY <2>1, InForce DEF OpenFacts
  <2>4. \A k \in 1 .. Len(opened) :
            opened[k] = Claims(profile[1].resources[k])
    BY <2>1 DEF OpenFacts
  <2> QED BY <2>1, <2>2, <2>3, <2>4 DEF WorkerFacts
<1>6. CASE EditProfile
  BY <1>6 DEF EditProfile, hostVars, WorkerFacts
<1>7. CASE UNCHANGED launchVars
  BY <1>7 DEF launchVars, hostVars, WorkerFacts
<1> QED
  BY <1>2, <1>3, <1>4, <1>5, <1>6, <1>7 DEF LaunchNext

LEMMA CheckFactsStep ==
    ASSUME IInvLaunch, [LaunchNext]_launchVars
    PROVE  CheckFacts'
PROOF
<1> USE DEF IInvLaunch, CheckFacts
<1>1. CASE ParseProfile
  <2>1. options'.check = options.check \/ options' = options
    BY <1>1 DEF ParseProfile, argumentVars, IInvTypes, ControlTypes
  <2> QED BY <1>1, <2>1 DEF ParseProfile, Stop
<1>2. CASE ParseCheck \/ ParseOther \/ ParseEnd \/ Load
  BY <1>2 DEF ParseCheck, ParseOther, ParseEnd, Load, Stop, argumentVars
<1>3. CASE ValidateResource \/ ValidateEnd
  BY <1>3 DEF ValidateResource, ValidateEnd, GoesOn, Stop, argumentVars
<1>4. CASE BeginLaunch \/ OpenFile \/ OpenBscTarget \/ HostRefuses
           \/ StartWorker
  BY <1>4 DEF BeginLaunch, OpenFile, OpenBscTarget, HostRefuses, StartWorker,
     Stop, argumentVars
<1>5. CASE WorkerLost \/ Reload \/ EditProfile
  BY <1>5 DEF WorkerLost, Reload, EditProfile, Stop, argumentVars
<1>6. CASE UNCHANGED launchVars
  BY <1>6 DEF launchVars, argumentVars
<1> QED
  BY <1>1, <1>2, <1>3, <1>4, <1>5, <1>6 DEF LaunchNext

\* The driver is loaded for the variant that alone fits the board.
LEMMA DriverLoaded ==
    ASSUME IInvLaunch, OpenBscTarget, driver' # <<>>, driver' # driver
    PROVE  DriverFitsBoard'
PROOF
<1> DEFINE r == profile[1].resources[1]
<1>1. stage = "open" /\ profile[1].mode = "device" /\ profile' = profile
      /\ board' = board /\ next <= Len(profile[1].resources)
  BY DEF OpenBscTarget, Stop
<1>2. Checked(profile[1]) /\ next = 1 /\ Len(profile[1].resources) = 1
  <2>1. Checked(profile[1])
    BY <1>1 DEF IInvLaunch, ForceFacts
  <2>2. Len(profile[1].resources) = 1
    BY <1>1, <2>1 DEF Checked, OneInDeviceMode
  <2>3. next \in Nat \ {0}
    BY <1>1, InForce
  <2> QED BY <1>1, <2>1, <2>2, <2>3
<1>3. /\ r.kind = "bsc"
      /\ driver' = <<r.variants[CHOOSE k \in Matching(r) : TRUE]>>
      /\ \E k \in Matching(r) : Matching(r) = {k}
  BY <1>1, <1>2 DEF OpenBscTarget, Stop
<1>4. PICK v \in Matching(r) : Matching(r) = {v}
  BY <1>3
<1>5. driver'[1] = r.variants[v]
  BY <1>3, <1>4
<1>6. v \in 1 .. Len(r.variants) /\ r.variants[v].model \in board
  BY <1>4 DEF Matching
<1>7. /\ r.variants[v].sda # r.variants[v].scl
      /\ r.ready \notin {r.variants[v].sda, r.variants[v].scl}
  <2>1. PinsApart(profile[1], 2)
    BY <1>2 DEF Checked
  <2>2. 1 \in 1 .. Len(profile[1].resources) /\ 1 < 2
    BY <1>2
  <2> QED BY <1>3, <1>6, <2>1, <2>2, PinsOfVariant, Zenon
<1>8. ASSUME NEW k \in 1 .. Len(r.variants)
      PROVE  r.variants[k].model \in board <=> r.variants[k] = r.variants[v]
  BY <1>4, <1>6 DEF Matching
<1> QED BY <1>1, <1>5, <1>6, <1>7, <1>8 DEF DriverFitsBoard

LEMMA DriverFitsBoardStep ==
    ASSUME IInvLaunch, [LaunchNext]_launchVars
    PROVE  DriverFitsBoard'
PROOF
<1> USE DEF IInvLaunch
<1>1. CASE driver' = <<>>
  BY <1>1 DEF DriverFitsBoard
<1>2. CASE driver' = driver /\ profile' = profile /\ board' = board
  BY <1>2 DEF DriverFitsBoard
<1>3. CASE ParseProfile \/ ParseCheck \/ ParseOther \/ ParseEnd \/ Load
  BY <1>1, <1>2, <1>3 DEF ParseProfile, ParseCheck, ParseOther, ParseEnd,
     Load, Stop, hostVars
<1>4. CASE ValidateResource \/ ValidateEnd \/ HostRefuses
  BY <1>1, <1>2, <1>4 DEF ValidateResource, ValidateEnd, HostRefuses, Stop,
     hostVars
<1>5. CASE BeginLaunch
  BY <1>1, <1>5 DEF BeginLaunch, IInvTypes, StageFacts
<1>6. CASE OpenFile \/ StartWorker \/ WorkerLost
  BY <1>1, <1>2, <1>6 DEF OpenFile, StartWorker, WorkerLost, Stop
<1>7. CASE OpenBscTarget
  <2>1. profile' = profile /\ board' = board
    BY <1>7 DEF OpenBscTarget
  <2> QED BY <1>1, <1>2, <1>7, <2>1, DriverLoaded
<1>8. CASE Reload \/ EditProfile
  BY <1>1, <1>2, <1>8 DEF Reload, EditProfile, hostVars
<1>9. CASE UNCHANGED launchVars
  BY <1>2, <1>9 DEF launchVars, hostVars
<1> QED
  BY <1>3, <1>4, <1>5, <1>6, <1>7, <1>8, <1>9 DEF LaunchNext

\* The inductive invariant holds of every launch.
THEOREM LaunchInvariant == LaunchSpec => []IInvLaunch
PROOF
<1>1. IInvLaunch /\ [LaunchNext]_launchVars => IInvTypes'
  BY TypesStep DEF IInvLaunch
<1>2. IInvLaunch /\ [LaunchNext]_launchVars => IInvLaunch'
  BY <1>1, CandidateFactsStep, ForceFactsStep, OpenFactsStep, WorkerFactsStep,
     CheckFactsStep, DriverFitsBoardStep DEF IInvLaunch
<1> QED BY SoundInit, <1>2, PTL DEF LaunchSpec

LEMMA NoConflict == IInvLaunch => NoSelfConflict
PROOF
<1> SUFFICES ASSUME IInvLaunch, stage = "open",
                    NEW k \in 1 .. Len(profile),
                    next <= Len(profile[k].resources)
             PROVE  Free(Claims(profile[k].resources[next]))
  BY DEF NoSelfConflict
<1> DEFINE r == profile[1].resources
<1>1. k = 1 /\ worker = <<>>
  BY DEF IInvLaunch, IInvTypes, ControlTypes, StageFacts
<1>2. WorkerHolds = {}
  BY <1>1 DEF WorkerHolds
<1>3. next \in 1 .. Len(r) /\ Len(r) \in Nat
  BY <1>1, InForce
<1>4. ASSUME NEW j \in 1 .. Len(opened)
      PROVE  opened[j] \cap Claims(r[next]) = {}
  <2>1. opened[j] = Claims(r[j]) /\ Len(opened) = next - 1
    BY DEF IInvLaunch, OpenFacts
  <2>2. j \in 1 .. Len(r) /\ j < next
    BY <1>3, <2>1
  <2>3. Apart(profile[1], Len(r) + 1)
    BY DEF IInvLaunch, ForceFacts, Checked
  <2>4. Claims(r[j]) \cap Claims(r[next]) = {}
    <3>1. next < Len(r) + 1
      BY <1>3
    <3> QED BY <1>3, <2>2, <2>3, <3>1, ApartClaims, Zenon
  <2> QED BY <2>1, <2>4
<1>5. Held(opened) \cap Claims(r[next]) = {}
  BY <1>4 DEF Held
<1> QED BY <1>1, <1>2, <1>5 DEF Free

\* Opening the resources of a validated profile never meets a file of this
\* supervisor or of its worker, for every profile and every reload.
THEOREM OpeningNeverConflicts == LaunchSpec => []NoSelfConflict
PROOF
  BY LaunchInvariant, NoConflict, PTL

LEMMA NamesMatch == IInvLaunch => NamesMatchFiles
PROOF
<1> SUFFICES ASSUME IInvLaunch, stage = "serving",
                    NEW k \in 1 .. Len(profile[1].resources),
                    NEW j \in 1 .. Len(worker[1].names),
                    worker[1].names[j] = profile[1].resources[k].name
             PROVE  /\ j \in 1 .. Len(worker[1].files)
                    /\ worker[1].files[j] = Claims(profile[1].resources[k])
  BY DEF NamesMatchFiles
<1> DEFINE r == profile[1].resources
<1>1. PICK p \in Profiles : profile = <<p>>
  BY DEF IInvLaunch, IInvTypes, ControlTypes, StageFacts
<1>2. Len(r) \in Nat
  BY <1>1, LaunchAssumption
<1>3. /\ worker[1].names = [i \in 1 .. Len(r) |-> r[i].name]
      /\ Len(worker[1].files) = Len(r)
      /\ \A i \in 1 .. Len(worker[1].files) :
            worker[1].files[i] = Claims(r[i])
  BY DEF IInvLaunch, WorkerFacts
<1>4. Len(worker[1].names) = Len(r)
  BY <1>2, <1>3
<1>5. j \in 1 .. Len(r) /\ r[j].name = r[k].name
  BY <1>3, <1>4
<1>6. Apart(profile[1], Len(r) + 1)
  BY DEF IInvLaunch, ForceFacts, Checked
<1>7. j = k
  BY <1>2, <1>5, <1>6 DEF Apart
<1> QED BY <1>3, <1>5, <1>7

\* The worker's names and its files describe the same resources.
THEOREM NamesAlwaysMatch == LaunchSpec => []NamesMatchFiles
PROOF
  BY LaunchInvariant, NamesMatch, PTL

\* The BSC driver is only ever loaded for the one variant that fits.
THEOREM DriverAlwaysFits == LaunchSpec => []DriverFitsBoard
PROOF
<1>1. IInvLaunch => DriverFitsBoard
  BY DEF IInvLaunch
<1> QED BY <1>1, LaunchInvariant, PTL

\* A check of a profile never reaches the hardware, wherever the option is.
THEOREM ChecksTouchNothing == LaunchSpec => []CheckTouchesNothing
PROOF
<1>1. IInvLaunch => CheckTouchesNothing
  BY DEF IInvLaunch, IInvTypes, StageFacts, CheckFacts, CheckTouchesNothing
<1> QED BY <1>1, LaunchInvariant, PTL

=============================================================================
