--------------------------- MODULE MCDeclarations ---------------------------
(***************************************************************************)
(* The two declarations the supervisor depends on, for TLC: the launch     *)
(* profile its administrator writes (LaunchProfile) and the personality    *)
(* its worker sends (PersonalityPipeline).  Neither reads what the other   *)
(* writes, so a behaviour follows one of them while the other is parked.   *)
(***************************************************************************)
EXTENDS PersonalityPipeline, LaunchProfile

(***************************************************************************)
(* Descriptors and replies.                                                *)
(***************************************************************************)
I(number, name) ==
    [kind |-> "interface", whole |-> TRUE, number |-> number, name |-> name,
     in |-> FALSE, transfer |-> 0]

E(number, in, transfer) ==
    [kind |-> "endpoint", whole |-> TRUE, number |-> number, name |-> 0,
     in |-> in, transfer |-> transfer]

Other(kind) ==
    [kind |-> kind, whole |-> TRUE, number |-> 0, name |-> 0, in |-> FALSE,
     transfer |-> 0]

Short(d) == [d EXCEPT !.whole = FALSE]

Config(name, body) ==
    [consistent |-> TRUE, value |-> 1, name |-> name, body |-> body]

Device(usb, n) ==
    [valid |-> TRUE, configurations |-> 1, usb |-> usb, names |-> n]

Plain == <<I(0, 0), E(1, TRUE, 2), E(1, FALSE, 3)>>

Entry(interface, id) == [interface |-> interface, id |-> id]

Property(type, name) == [type |-> type, name |-> name]

Capability(kind, version, vendor, landing) ==
    [kind |-> kind, version |-> version, vendor |-> vendor,
     landing |-> landing]

\* The names of two interfaces appear in and against the order of their
\* indexes, one is used twice, and there may be as many names as there are
\* numbers while one comes back.  A configuration may bear the index of the
\* Microsoft OS string, which is then asked for twice.
MCRegular == [
    device |-> {Device(usb, n) : usb \in {"old", "new"},
                                 n \in {<<1, 2, 0>>, <<4, 4, 2>>}},
    languages |-> {<<1>>, <<2, 1>>},
    header |-> {TRUE},
    config |-> {
        Config(0, Plain),
        Config(9, <<I(0, 4), E(1, TRUE, 3), I(1, 5), Other("class"),
                    E(2, TRUE, 2), E(2, FALSE, 2)>>),
        Config(0, <<I(0, 5), E(2, FALSE, 2), I(1, 4), E(1, TRUE, 3)>>),
        Config(0, <<I(0, 5), I(1, 4), I(0, 5), E(1, FALSE, 1)>>),
        Config(0, <<I(0, 1), I(1, 2), I(2, 4), I(3, 1)>>),
        Config(0, <<I(0, 0), I(1, 0), I(2, 0), I(3, 0)>>)},
    strings |-> {"text"},
    osString |-> {[stall |-> TRUE, valid |-> FALSE, vendor |-> 0],
                  [stall |-> FALSE, valid |-> TRUE, vendor |-> 1]},
    compat |-> {[stall |-> TRUE, entries |-> <<>>],
                [stall |-> FALSE, entries |-> <<Entry(0, "graphic")>>]},
    properties |-> {[valid |-> TRUE, entries |-> e] : e \in
                       {<<>>, <<Property(7, "ascii"), Property(1, "ascii")>>}},
    bosHeader |-> {"stall", "ok"},
    bos |-> {[valid |-> TRUE, capabilities |-> c] : c \in
                {<<Capability("other", "", 0, FALSE)>>,
                 <<Capability("other", "", 0, FALSE),
                   Capability("webusb", "1.0", 1, TRUE)>>,
                 <<Capability("webusb", "1.0", 1, FALSE),
                   Capability("broken", "", 0, FALSE)>>}},
    setConfig |-> {TRUE},
    url |-> {"http"}]

\* Each member is refused by one reader or another: no languages, or language
\* 0; more compatible IDs than a section's count holds (MaxByte = 3).
MCOdd == [
    device |-> {[Device("new", <<1, 2, 3>>) EXCEPT !.valid = FALSE],
                [Device("new", <<1, 2, 3>>) EXCEPT !.configurations = 2]},
    languages |-> {<<>>, <<0>>},
    header |-> {FALSE},
    config |->
        {Config(0, b) : b \in {
            <<>>,
            Plain \o <<Other("broken")>>,
            Plain \o <<Short(I(1, 0))>>,
            Plain \o <<Short(E(2, TRUE, 2))>>,
            Plain \o <<E(0, TRUE, 2)>>,
            Plain \o <<E(1, TRUE, 2)>>,
            <<I(0, 1), I(1, 2), I(2, 4), I(3, 5)>>}}
        \cup {[Config(0, Plain) EXCEPT !.consistent = FALSE],
              [Config(0, Plain) EXCEPT !.value = 2]},
    strings |-> {"invalid", "bad", "nul"},
    osString |-> {[stall |-> FALSE, valid |-> FALSE, vendor |-> 1],
                  [stall |-> FALSE, valid |-> TRUE, vendor |-> 0]},
    compat |-> {[stall |-> FALSE, entries |-> e] : e \in {
                   <<>>, <<Entry(7, "graphic")>>, <<Entry(0, "blank")>>,
                   <<Entry(0, "control")>>, <<Entry(0, "foreign")>>,
                   <<Entry(1, "graphic"), Entry(0, "graphic")>>,
                   <<Entry(0, "graphic"), Entry(0, "graphic")>>,
                   <<Entry(0, "graphic"), Entry(1, "graphic"),
                     Entry(2, "graphic"), Entry(3, "graphic")>>}},
    properties |->
        {[valid |-> FALSE, entries |-> <<>>]}
        \cup {[valid |-> TRUE, entries |-> <<p>>] : p \in {
                 Property(0, "ascii"), Property(1, "latin"),
                 Property(1, "nul")}},
    bosHeader |-> {"invalid"},
    bos |-> {[valid |-> FALSE, capabilities |-> <<>>]}
        \cup {[valid |-> TRUE, capabilities |-> <<c>>] : c \in {
                 Capability("broken", "", 0, FALSE),
                 Capability("webusb", "other", 1, FALSE),
                 Capability("webusb", "1.0", 0, TRUE)}},
    setConfig |-> {FALSE},
    url |-> {"invalid", "other", ""}]

Interface(number, name, class, in, out) ==
    [number |-> number, name |-> name, class |-> class,
     in |-> [number |-> in, bit |-> TRUE],
     out |-> [number |-> out, bit |-> FALSE],
     transfer |-> 2, packet |-> 64]

MCNativeInterfaces ==
    {Interface(0, 4, "none", 1, 1), Interface(1, 3, "class", 2, 2),
     Interface(1, 4, "none", 2, 3), Interface(2, 5, "none", 3, 3),
     Interface(1, 0, "broken", 2, 2), Interface(1, 0, "huge", 2, 2),
     Interface(1, 0, "null", 2, 2), Interface(1, 0, "none", 1, 2),
     Interface(2, 0, "none", 0, 2),
     [Interface(2, 0, "none", 3, 3) EXCEPT !.in.bit = FALSE],
     [Interface(2, 0, "none", 3, 3) EXCEPT !.transfer = 4],
     [Interface(2, 0, "none", 3, 3) EXCEPT !.packet = 0]}

(***************************************************************************)
(* Launch profiles.                                                        *)
(***************************************************************************)
Character(name, path, fd) ==
    [kind |-> "character", name |-> name, path |-> path, fd |-> fd]

Lines(name, path, offsets) ==
    [kind |-> "gpio", name |-> name, path |-> path, offsets |-> offsets,
     direction |-> "input", biased |-> TRUE, values |-> <<>>]

OutputLines(name, path, offsets) ==
    [Lines(name, path, offsets) EXCEPT !.direction = "output",
        !.biased = FALSE, !.values = <<Len(offsets)>>]

Variant(model, sda, scl) == [model |-> model, sda |-> sda, scl |-> scl]

Bsc(ready, variants) ==
    [kind |-> "bsc", name |-> "bus", path |-> "/dev/bsc-target0", fd |-> 3,
     sound |-> TRUE, ready |-> ready, variants |-> variants]

Profile(mode, name, resources) ==
    [plain |-> TRUE, fields |-> mode, mode |-> mode, name |-> name,
     resources |-> resources]

MCGpioChips == {"/dev/gpiochip0", "/dev/gpiochip1"}

MCDevices == MCGpioChips \cup {"/dev/null", "/dev/bsc-target0"}

Button == Lines("button", "/dev/gpiochip0", <<1, 2>>)

UsbProfiles ==
    {Profile("usb", "u", r) : r \in {
        <<Character("key", "/dev/null", 0), Button,
          OutputLines("led", "/dev/gpiochip0", <<3>>)>>,
        <<OutputLines("led", "/dev/gpiochip0", <<2>>),
          Lines("button", "/dev/gpiochip1", <<2>>)>>,
        <<Button, OutputLines("led", "/dev/gpiochip0", <<2>>)>>,
        <<Button, Lines("button", "/dev/gpiochip1", <<1>>)>>,
        <<Lines("button", "/dev/gpiochip0", <<1, 1>>)>>,
        <<[Button EXCEPT !.direction = "output"]>>,
        <<[Button EXCEPT !.values = <<2>>]>>,
        <<Lines("button", "/dev/gpiochip0", <<>>)>>,
        <<Character("key", "/dev/null", 3)>>,
        <<Character("key", "/dev/gpiochip0", 0)>>,
        <<Character("key", "/dev/null", 0), Character("k2", "/dev/null", 0)>>,
        <<Character("key", "/tmp/null", 0)>>,
        <<Character("", "/dev/null", 0)>>,
        <<Bsc(4, <<Variant("Pi", 2, 3)>>)>>}}
    \cup {[Profile("usb", "u", <<>>) EXCEPT !.plain = FALSE],
          [Profile("usb", "u", <<>>) EXCEPT !.fields = "device"]}

DeviceProfiles ==
    {Profile("device", name, <<Bsc(4, v)>>) : name \in {"d", "other"}, v \in {
        <<Variant("Pi", 2, 3)>>,
        <<Variant("Pi 4", 10, 11), Variant("Pi", 2, 3)>>}}
    \cup {Profile("device", "d", <<r>>) : r \in {
        Character("key", "/dev/null", 3),
        Character("key", "/dev/null", 0),
        [Bsc(4, <<Variant("Pi", 2, 3)>>) EXCEPT !.sound = FALSE],
        Bsc(4, <<>>),
        Bsc(4, <<Variant("", 2, 3)>>),
        Bsc(4, <<Variant("Pi", 2, 3), Variant("Pi", 10, 11)>>),
        Bsc(4, <<Variant("Pi", 3, 3)>>),
        Bsc(3, <<Variant("Pi 4", 10, 11), Variant("Pi", 2, 3)>>),
        Lines("button", "/dev/gpiochip0", <<1>>)}}
    \cup {Profile("device", "d", <<Character("key", "/dev/null", 3), Button>>)}

MCProfiles == UsbProfiles \cup DeviceProfiles

MCBoards == {{"Pi"}, {"Pi", "Pi 4"}, {}}

MCCommandLines == {
    <<"--profile", "installed">>,
    <<"--check-profile", "--profile", "/absolute">>,
    <<"--profile", "installed", "--check-profile">>,
    <<"--profile", "--check-profile">>,
    <<"--profile", "..">>, <<"--profile">>, <<"--check-profile">>, <<>>,
    <<"--profile", "installed", "--help">>, <<"--verbose">>}

(***************************************************************************)
(* One of the two runs.                                                    *)
(***************************************************************************)
MCInit ==
    \/ /\ Init
       /\ stage = "absent" /\ arguments = <<>> /\ options = NoOptions
       /\ disk = CHOOSE p \in MCProfiles : TRUE
       /\ board = {} /\ candidate = disk /\ next = 1
       /\ names = {} /\ paths = {} /\ lines = {} /\ profile = <<>>
       /\ opened = <<>> /\ worker = <<>> /\ driver = <<>> /\ reloads = 0
    \/ /\ LaunchInit
       /\ phase = "absent" /\ bundle = NoBundle /\ odd = 0 /\ left = {}
       /\ builder = <<>> /\ calls = 0 /\ serving = "old"
       /\ personality = <<>> /\ files = <<>> /\ endpoint_map = <<>>

MCNext ==
    \/ Next /\ UNCHANGED launchVars
    \/ LaunchNext /\ UNCHANGED vars

MCSpec == MCInit /\ [][MCNext]_<<vars, launchVars>> /\ Fairness

\* docs/architecture.md:85 and 125: before it changes the serving gadget the
\* supervisor decodes and validates the entire candidate; an invalid one is
\* rejected and the generation continues serving.
InvalidKeepsServing ==
    phase \in {"rejected", "failed"} => serving = "old"

=============================================================================
