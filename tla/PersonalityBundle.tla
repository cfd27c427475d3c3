-------------------------- MODULE PersonalityBundle --------------------------
(***************************************************************************)
(* crates/usb-gadget-worker/src/lib.rs: the USB personality a worker sends *)
(* in Configure, and the two variables both ways of making one share.      *)
(*                                                                         *)
(* phase is where the declaration stands, from its first control transfer  *)
(* or builder call to the generation that serves it.  bundle is the        *)
(* personality as far as it is known:                                      *)
(*   device     valid, the number of configurations, usb ("old" below 2.1, *)
(*              else "new") and the indexes of its three names             *)
(*   config     consistent (its header and length agree with its bytes),   *)
(*              value, name, and the descriptors that follow it            *)
(*   strings    the string descriptors in the order they were added; the   *)
(*              form of the one at index 0 is "languages"                  *)
(*   microsoft, webusb   options, as sequences of at most one              *)
(* A text has no letters here: it is known by its index and language.      *)
(* Schema and CBOR coding are the library's and are left out.              *)
(***************************************************************************)
EXTENDS FunctionFsInspection, FiniteSets

CONSTANTS
    MaxByte,     \* the largest value of a byte (255)
    MaxStrings,  \* MAX_STRING_DESCRIPTORS (256)
    OsString     \* the index of the Microsoft OS string (0xee)

ASSUME SizesAreNaturals ==
    /\ MaxByte \in Nat \ {0}
    /\ MaxStrings \in Nat
    /\ OsString \in Nat \ {0}

VARIABLES phase, bundle

bundleVars == <<phase, bundle>>

NoBundle ==
    [device |-> [valid |-> FALSE, configurations |-> 0, usb |-> "old",
                 names |-> <<0, 0, 0>>],
     config |-> [consistent |-> FALSE, value |-> 0, name |-> 0,
                 body |-> <<>>],
     strings |-> <<>>, microsoft |-> <<>>, webusb |-> <<>>]

(***************************************************************************)
(* The values a bundle is made of.                                         *)
(***************************************************************************)
Descriptors ==
    [kind : {"interface", "endpoint", "class", "broken"}, whole : BOOLEAN,
     number : Nat, name : Nat, in : BOOLEAN, transfer : Nat]

DeviceDescriptors ==
    [valid : BOOLEAN, configurations : Nat, usb : {"old", "new"},
     names : [1 .. 3 -> Nat]]

Configurations ==
    [consistent : BOOLEAN, value : Nat, name : Nat, body : Seq(Descriptors)]

Identifiers == {"graphic", "blank", "control", "long", "foreign"}

CompatibleIds == [interface : Nat, id : Identifiers]

PropertyNames == {"ascii", "latin", "nul"}

RegistryProperties == [interface : Nat, type : Nat, name : PropertyNames]

Versions == {"1.0", "other", ""}

Pages == {"", "http", "other"}

\* "bad" is not UTF-16; "nul" is, and contains a NUL.
Forms == {"languages", "text", "nul", "bad"}

StringDescriptor(index, language, form) ==
    [index |-> index, language |-> language, form |-> form, ids |-> <<>>]

LanguageDescriptor(ids) ==
    [index |-> 0, language |-> 0, form |-> "languages", ids |-> ids]

Microsoft(vendor) == [vendor |-> vendor, compat |-> <<>>, properties |-> <<>>]

WebUsb(version, vendor, page) ==
    [version |-> version, vendor |-> vendor, page |-> page]

\* UsbPersonalityBuilder::finish.
Finishes(b) == b.device.valid /\ b.config.consistent

=============================================================================
