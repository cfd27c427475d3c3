---------------------------- MODULE LaunchProfile ----------------------------
(***************************************************************************)
(* From the command line to a worker with its resources: src/cli.rs,       *)
(* src/profile.rs, run of src/main.rs, and of src/runtime.rs the opening   *)
(* of resources, restart_worker, reload_profile and the reload of          *)
(* run_device.                                                             *)
(*                                                                         *)
(* Validation walks the resources with three hash sets, and opening walks  *)
(* them again, once per worker.  The kernel gives a GPIO line to one owner *)
(* at a time, so an opening must not meet a line this supervisor or its    *)
(* worker still holds.                                                     *)
(*                                                                         *)
(* A profile is a record: plain says that every field checked by itself    *)
(* (schema, names, directories, account, UDC, mount) is in order, fields   *)
(* which mode's optional fields it has.  A path, a name and the part of a  *)
(* board's model a variant asks for are strings without structure.         *)
(***************************************************************************)
EXTENDS Integers, Sequences

CONSTANTS
    CommandLines,  \* the argument lists
    Profiles,      \* what the profile file may hold
    Devices,       \* the paths below /dev
    GpioChips,     \* those named /dev/gpiochipN
    Boards,        \* per board, the variants its model contains
    MaxReloads     \* model bound: SIGHUPs served

ASSUME LaunchAssumption ==
    /\ MaxReloads \in Nat
    /\ \A p \in Profiles : Len(p.resources) \in Nat
    /\ \A p \in Profiles : \A k \in 1 .. Len(p.resources) :
          /\ p.resources[k].kind \in {"character", "bsc", "gpio"}
          /\ p.resources[k].name \in STRING
          /\ p.resources[k].path \in STRING
          /\ p.resources[k].kind = "gpio" => \A n \in
                1 .. Len(p.resources[k].offsets) :
                   p.resources[k].offsets[n] \in Nat

VARIABLES
    stage,      \* where the supervisor is, see Stages
    arguments,  \* parse: what is left of the command line
    options,    \* parse: the profile asked for, and check_profile
    disk,       \* the profile file
    board,      \* /proc/device-tree/model
    candidate,  \* load: the profile being validated
    next,       \* the position of the resource loops
    names, paths, lines,  \* validate: the three hash sets
    profile,    \* the profile in force: a sequence of at most one
    opened,     \* the open files, each as the set of what it claims
    worker,     \* none or one: the names it was told and the files it got
    driver,     \* the BSC driver: none or the variant it was loaded for
    reloads

setVars == <<names, paths, lines>>
hostVars == <<opened, worker, driver>>
argumentVars == <<arguments, options>>
launchVars == <<stage, argumentVars, disk, board, candidate, next, setVars,
                profile, hostVars, reloads>>

Stages == {"absent", "arguments", "load", "validate", "setup", "open",
           "serving", "stopped"}

NoOptions == [profile |-> "none", check |-> FALSE]

LaunchInit ==
    /\ stage = "arguments"
    /\ arguments \in CommandLines /\ options = NoOptions
    /\ disk \in Profiles /\ board \in Boards
    /\ candidate = disk /\ next = 1
    /\ names = {} /\ paths = {} /\ lines = {}
    /\ profile = <<>> /\ opened = <<>> /\ worker = <<>> /\ driver = <<>>
    /\ reloads = 0

\* An error reaches main: cleanup stops the worker, and every file and the
\* driver guard are dropped.
Stop ==
    /\ stage' = "stopped"
    /\ opened' = <<>> /\ worker' = <<>> /\ driver' = <<>>

(***************************************************************************)
(* parse                                                                   *)
(***************************************************************************)

\* "--profile" takes the next argument whatever it looks like.
ParseProfile ==
    /\ stage = "arguments" /\ arguments # <<>>
    /\ Head(arguments) = "--profile"
    /\ IF Len(arguments) = 1
       THEN Stop /\ UNCHANGED argumentVars
       ELSE /\ options' = [options EXCEPT !.profile = arguments[2]]
            /\ arguments' = Tail(Tail(arguments))
            /\ UNCHANGED <<stage, hostVars>>
    /\ UNCHANGED <<disk, board, candidate, next, setVars, profile, reloads>>

ParseCheck ==
    /\ stage = "arguments" /\ arguments # <<>>
    /\ Head(arguments) = "--check-profile"
    /\ options' = [options EXCEPT !.check = TRUE]
    /\ arguments' = Tail(arguments)
    /\ UNCHANGED <<stage, disk, board, candidate, next, setVars, profile,
                   hostVars, reloads>>

\* Help exits at once, an argument that is not known is an error.
ParseOther ==
    /\ stage = "arguments" /\ arguments # <<>>
    /\ Head(arguments) \notin {"--profile", "--check-profile"}
    /\ Stop
    /\ UNCHANGED <<argumentVars, disk, board, candidate, next, setVars,
                   profile, reloads>>

\* A name of plain characters is one of the installed profiles.
ParseEnd ==
    /\ stage = "arguments" /\ arguments = <<>>
    /\ IF options.profile \in {"none", "..", "sub/name"}
       THEN Stop
       ELSE stage' = "load" /\ UNCHANGED hostVars
    /\ UNCHANGED <<argumentVars, disk, board, candidate, next, setVars,
                   profile, reloads>>

(***************************************************************************)
(* Profile::load and validate                                              *)
(***************************************************************************)

\* Device mode has one resource, which the worker inherits as descriptor 3.
DeviceResources(p) ==
    /\ Len(p.resources) = 1
    /\ p.resources[1].kind \in {"character", "bsc"}
    /\ p.resources[1].fd = 3

HeadValid(p) ==
    /\ p.plain
    /\ p.fields = p.mode
    /\ p.mode = "device" => DeviceResources(p)

Load ==
    /\ stage = "load"
    /\ candidate' = disk
    /\ IF options.profile \in {"installed", "/absolute"} /\ HeadValid(disk)
       THEN stage' = "validate" /\ UNCHANGED hostVars
       ELSE Stop
    /\ next' = 1 /\ names' = {} /\ paths' = {} /\ lines' = {}
    /\ UNCHANGED <<argumentVars, disk, board, profile, reloads>>

Node == -1

GpioLines(r) == {<<r.path, r.offsets[n]>> : n \in 1 .. Len(r.offsets)}

\* Mutant: a group of lines claims the chip.
ClaimsChip(r) == {r.path}

\* What the open file of a resource claims: its lines, or the device node.
Claims(r) == IF r.kind = "gpio" THEN GpioLines(r) ELSE {<<r.path, Node>>}

CharacterFits(p, r) ==
    /\ p.mode = "usb" => r.fd = 0
    /\ r.path \notin GpioChips
    /\ r.path \notin paths

\* sound: address, directory and artifact names are in order.
BscFits(p, r) ==
    /\ p.mode = "device" /\ r.path = "/dev/bsc-target0" /\ r.sound
    /\ Len(r.variants) \in 1 .. 16
    /\ \A k \in 1 .. Len(r.variants) :
          LET v == r.variants[k]
          IN /\ v.model # ""
             /\ \A j \in 1 .. k - 1 : r.variants[j].model # v.model
             /\ v.sda # v.scl
             /\ r.ready \notin {v.sda, v.scl}
    /\ r.path \notin paths

DirectionFits(r) ==
    IF r.direction = "input" THEN r.values = <<>>
    ELSE ~r.biased /\ r.values = <<Len(r.offsets)>>

\* Mutant: the lines of other resources are not looked at.
GpioFitsAlone(r) ==
    /\ r.path \in GpioChips
    /\ Len(r.offsets) \in 1 .. 64
    /\ \A m, n \in 1 .. Len(r.offsets) : r.offsets[m] = r.offsets[n] => m = n
    /\ DirectionFits(r)

GpioFits(r) ==
    /\ r.path \in GpioChips
    /\ Len(r.offsets) \in 1 .. 64
    /\ \A m, n \in 1 .. Len(r.offsets) : r.offsets[m] = r.offsets[n] => m = n
    /\ GpioLines(r) \cap lines = {}
    /\ DirectionFits(r)

\* Mutant: the name is not looked up.
NameFitsAnyway(r) == r.name # ""

NameFits(r) == r.name # "" /\ r.name \notin names

ResourceFits(p, r) ==
    /\ NameFits(r)
    /\ r.path \in Devices
    /\ CASE r.kind = "character" -> CharacterFits(p, r)
         [] r.kind = "bsc" -> BscFits(p, r)
         [] r.kind = "gpio" -> GpioFits(r)

ValidateResource ==
    /\ stage = "validate" /\ next <= Len(candidate.resources)
    /\ LET r == candidate.resources[next]
       IN IF ResourceFits(candidate, r)
          THEN /\ names' = names \cup {r.name}
               /\ IF r.kind = "gpio"
                  THEN lines' = lines \cup GpioLines(r) /\ UNCHANGED paths
                  ELSE paths' = paths \cup {r.path} /\ UNCHANGED lines
               /\ next' = next + 1
               /\ UNCHANGED <<stage, hostVars>>
          ELSE Stop /\ UNCHANGED <<next, setVars>>
    /\ UNCHANGED <<argumentVars, disk, board, candidate, profile, reloads>>

\* A reload keeps the mode, and in device mode the name.
Replaceable ==
    \A k \in 1 .. Len(profile) :
        /\ candidate.mode = profile[k].mode
        /\ candidate.mode = "device" => candidate.name = profile[k].name

\* Mutant: the check goes on to the hardware.
GoesOnAnyway == Replaceable

GoesOn == ~options.check /\ Replaceable

\* run ends here for --check-profile.
ValidateEnd ==
    /\ stage = "validate" /\ next > Len(candidate.resources)
    /\ IF GoesOn
       THEN stage' = "setup" /\ UNCHANGED hostVars
       ELSE Stop
    /\ UNCHANGED <<argumentVars, disk, board, candidate, next, setVars,
                   profile, reloads>>

(***************************************************************************)
(* setup, start_worker and open_resources                                  *)
(***************************************************************************)

\* The account and the executable are checked, and a worker that still runs
\* is stopped, before the new profile takes force.
BeginLaunch ==
    /\ stage = "setup"
    /\ stage' = "open" /\ profile' = <<candidate>> /\ next' = 1
    /\ worker' = <<>>
    /\ UNCHANGED <<argumentVars, disk, board, candidate, setVars, opened,
                   driver, reloads>>

Held(f) == UNION {f[k] : k \in 1 .. Len(f)}

WorkerHolds == UNION {Held(worker[k].files) : k \in 1 .. Len(worker)}

\* The kernel refuses a line that has an owner.
Free(claims) == claims \cap (Held(opened) \cup WorkerHolds) = {}

\* Mutant: the first variant that fits is taken.
MatchingFirst(r) ==
    {k \in 1 .. Len(r.variants) :
        /\ r.variants[k].model \in board
        /\ \A j \in 1 .. k - 1 : r.variants[j].model \notin board}

\* select_variant: the models of two variants may both be part of the board's.
Matching(r) ==
    {k \in 1 .. Len(r.variants) : r.variants[k].model \in board}

\* open_character_device, request_gpio_lines
OpenFile ==
    /\ stage = "open" /\ next <= Len(profile[1].resources)
    /\ LET r == profile[1].resources[next]
       IN /\ r.kind # "bsc"
          /\ IF Free(Claims(r))
             THEN /\ opened' = Append(opened, Claims(r))
                  /\ next' = next + 1
                  /\ UNCHANGED <<stage, worker, driver>>
             ELSE Stop /\ UNCHANGED next
    /\ UNCHANGED <<argumentVars, disk, board, candidate, setVars, profile,
                   reloads>>

\* open_bsc_target; open_resources refuses it in USB mode.
OpenBscTarget ==
    /\ stage = "open" /\ next <= Len(profile[1].resources)
    /\ LET r == profile[1].resources[next]
       IN /\ r.kind = "bsc"
          /\ IF profile[1].mode = "device" /\ \E k \in Matching(r) :
                   Matching(r) = {k}
             THEN /\ opened' = Append(opened, Claims(r))
                  /\ driver' = <<r.variants[CHOOSE k \in Matching(r) : TRUE]>>
                  /\ next' = next + 1
                  /\ UNCHANGED <<stage, worker>>
             ELSE Stop /\ UNCHANGED next
    /\ UNCHANGED <<argumentVars, disk, board, candidate, setVars, profile,
                   reloads>>

\* The host refuses something: the account, a device, a line another process
\* owns, the driver, the fork.
HostRefuses ==
    /\ stage \in {"setup", "open"}
    /\ Stop
    /\ UNCHANGED <<argumentVars, disk, board, candidate, next, setVars,
                   profile, reloads>>

\* spawn_unprivileged and InitialResources (in device mode the worker inherits
\* its one file); the supervisor drops its own copies.
StartWorker ==
    /\ stage = "open" /\ next > Len(profile[1].resources)
    /\ stage' = "serving"
    /\ worker' = <<[names |-> [k \in 1 .. Len(profile[1].resources) |->
                                  profile[1].resources[k].name],
                    files |-> opened]>>
    /\ opened' = <<>>
    /\ UNCHANGED <<argumentVars, disk, board, candidate, next, setVars,
                   profile, driver, reloads>>

(***************************************************************************)
(* Restart and reload                                                      *)
(***************************************************************************)

\* The worker is gone.  restart_worker opens everything again; in device mode
\* the supervisor ends with its worker.
WorkerLost ==
    /\ stage = "serving"
    /\ IF profile[1].mode = "usb"
       THEN /\ stage' = "open" /\ next' = 1 /\ worker' = <<>>
            /\ UNCHANGED <<opened, driver>>
       ELSE Stop /\ UNCHANGED next
    /\ UNCHANGED <<argumentVars, disk, board, candidate, setVars, profile,
                   reloads>>

\* SIGHUP.  In USB mode the worker runs on while the new profile is read; in
\* device mode the worker is stopped and the driver unloaded first.
Reload ==
    /\ stage = "serving" /\ reloads < MaxReloads
    /\ stage' = "load" /\ reloads' = reloads + 1
    /\ IF profile[1].mode = "usb" THEN UNCHANGED <<worker, driver>>
       ELSE worker' = <<>> /\ driver' = <<>>
    /\ UNCHANGED <<argumentVars, disk, board, candidate, next, setVars,
                   profile, opened>>

\* The operator edits the file.
EditProfile ==
    /\ stage = "serving" /\ disk' \in Profiles
    /\ UNCHANGED <<stage, argumentVars, board, candidate, next, setVars,
                   profile, hostVars, reloads>>

LaunchNext ==
    \/ ParseProfile \/ ParseCheck \/ ParseOther \/ ParseEnd
    \/ Load \/ ValidateResource \/ ValidateEnd
    \/ BeginLaunch \/ OpenFile \/ OpenBscTarget \/ HostRefuses \/ StartWorker
    \/ WorkerLost \/ Reload \/ EditProfile

LaunchSpec == LaunchInit /\ [][LaunchNext]_launchVars

(***************************************************************************)
(* Properties.                                                             *)
(***************************************************************************)

\* The type invariant of the launch.
LaunchTypeOK ==
    /\ stage \in Stages
    /\ options.check \in BOOLEAN
    /\ disk \in Profiles /\ candidate \in Profiles
    /\ next \in Nat \ {0}
    /\ names \subseteq STRING /\ paths \subseteq STRING
    /\ lines \subseteq STRING \X Nat
    /\ profile = <<>> \/ \E p \in Profiles : profile = <<p>>
    /\ opened \in Seq(SUBSET (STRING \X Int))
    /\ worker # <<>> =>
          /\ worker =
                <<[names |-> worker[1].names, files |-> worker[1].files]>>
          /\ worker[1].files \in Seq(SUBSET (STRING \X Int))
    /\ reloads \in 0 .. MaxReloads

\* A profile that was validated never makes the supervisor fail on itself: no
\* resource it is about to open is held by a file it opened before or by a
\* worker it started, at the first start, after a restart and after a reload.
NoSelfConflict ==
    stage = "open" => \A k \in 1 .. Len(profile) :
        next <= Len(profile[k].resources) =>
            Free(Claims(profile[k].resources[next]))

\* The files go to the worker in a list of their own, beside the names: every
\* resource of the profile has one name there, and the file at its place is
\* the one that resource describes.
NamesMatchFiles ==
    stage = "serving" /\ worker # <<>> =>
        LET w == worker[1]
            r == profile[1].resources
        IN \A k \in 1 .. Len(r) : \A j \in 1 .. Len(w.names) :
              w.names[j] = r[k].name =>
                  j \in 1 .. Len(w.files) /\ w.files[j] = Claims(r[k])

\* The BSC driver is loaded for the one variant that fits the board, and its
\* two pins are two lines, neither of them the ready line.
DriverFitsBoard ==
    driver # <<>> =>
        LET r == profile[1].resources[1]
        IN /\ \A k \in 1 .. Len(r.variants) :
                 r.variants[k].model \in board <=> r.variants[k] = driver[1]
           /\ driver[1].model \in board
           /\ driver[1].sda # driver[1].scl
           /\ r.ready \notin {driver[1].sda, driver[1].scl}

\* --check-profile, wherever it stands on the command line, opens nothing,
\* loads nothing and starts nothing.
CheckTouchesNothing ==
    options.check => opened = <<>> /\ worker = <<>> /\ driver = <<>>

=============================================================================
