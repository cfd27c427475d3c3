---------------------------- MODULE NativeBuilder ----------------------------
(***************************************************************************)
(* crates/usb-gadget-worker/src/lib.rs, the C interface: a native worker   *)
(* assembles its personality by calls on a builder handle, in any order,   *)
(* and finishes it into the bundle.                                        *)
(*                                                                         *)
(* A call that is refused returns false.  It leaves the builder as it was, *)
(* except where an action below says otherwise, so it is no action of its  *)
(* own.  A text is "text", "long" (no room in a string descriptor) or      *)
(* "invalid" (a null pointer or not UTF-8).                                *)
(***************************************************************************)
EXTENDS PersonalityBundle, SequencesExt

CONSTANTS
    NativeInterfaces,   \* the interfaces a worker may add
    MaxCalls            \* model bound: calls on the builder

ASSUME MaxCallsIsNatural == MaxCalls \in Nat

\* What the arguments of add_interface are read as.
ASSUME InterfacesHaveTypes ==
    NativeInterfaces \subseteq
        [number : Nat, name : Nat,
         class : {"none", "class", "broken", "huge", "null"},
         in : [number : Nat, bit : BOOLEAN], out : [number : Nat, bit : BOOLEAN],
         transfer : Nat, packet : Nat]

VARIABLES
    builder,   \* the handle: a sequence of at most one
    calls      \* the calls so far

nativeVars == <<builder, calls>>

English == 1   \* 0x0409

Called == phase = "building" /\ calls < MaxCalls /\ calls' = calls + 1

HasBuilder == builder # <<>>

\* ugsp_personality_builder_new
NewBuilder ==
    /\ Called /\ ~HasBuilder
    /\ \E usb \in {"old", "new"}, texts \in {"text", "long"} :
          builder' = <<[usb |-> usb, serial |-> "text", texts |-> texts,
                        interfaces |-> <<>>, microsoft |-> <<>>,
                        webusb |-> <<>>]>>
    /\ UNCHANGED bundleVars

\* ugsp_personality_builder_add_interface: a number is taken once.
AddInterface ==
    /\ Called /\ HasBuilder
    /\ \E i \in NativeInterfaces :
          /\ \A k \in DOMAIN builder[1].interfaces :
                builder[1].interfaces[k].number # i.number
          /\ i.class # "null"
          /\ builder' = [builder EXCEPT ![1].interfaces = Append(@, i)]
    /\ UNCHANGED bundleVars

\* ugsp_personality_builder_set_serial_number
SetSerialNumber ==
    /\ Called /\ HasBuilder
    /\ \E text \in {"text", "long"} :
          builder' = [builder EXCEPT ![1].serial = text]
    /\ UNCHANGED bundleVars

\* The capability, inserted with this vendor code where there is none.
Inserted(vendor) ==
    IF builder[1].microsoft = <<>> THEN <<Microsoft(vendor)>>
    ELSE builder[1].microsoft

\* ugsp_personality_builder_add_microsoft_compatible_id: the capability is
\* inserted before the texts are read, so a call refused for its texts leaves
\* the capability, with its vendor code and without the identifier.
AddMicrosoftCompatibleId ==
    /\ Called /\ HasBuilder
    /\ \E vendor \in 1 .. 2, interface \in 0 .. 1,
          id \in {"graphic", "blank", "long", "invalid"} :
          /\ Inserted(vendor)[1].vendor = vendor
          /\ builder' = [builder EXCEPT ![1].microsoft =
                IF id = "invalid" THEN Inserted(vendor)
                ELSE [Inserted(vendor) EXCEPT ![1].compat = Append(@,
                         [interface |-> interface, id |-> id])]]
    /\ UNCHANGED bundleVars

\* ugsp_personality_builder_set_webusb sets or clears; nothing is validated.
SetWebUsb ==
    /\ Called /\ HasBuilder
    /\ \/ builder' = [builder EXCEPT ![1].webusb = <<>>]
       \/ \E version \in {"1.0", "other"}, vendor \in 0 .. 1,
             page \in {"http", "other"} :
             builder' = [builder EXCEPT ![1].webusb =
                            <<WebUsb(version, vendor, page)>>]
    /\ UNCHANGED bundleVars

(***************************************************************************)
(* UgspPersonalityBuilder::personality.                                    *)
(***************************************************************************)
Sorted(interfaces) ==
    LET order == Ascending({interfaces[k].number : k \in DOMAIN interfaces})
        Numbered(i) == CHOOSE k \in DOMAIN interfaces : interfaces[k].number = i
    IN [n \in DOMAIN order |-> interfaces[Numbered(order[n])]]

InterfaceIsValid(i) ==
    /\ i.in.bit /\ ~i.out.bit
    /\ i.packet # 0
    /\ i.transfer <= 3

EndpointDescriptor(address, transfer) ==
    [kind |-> "endpoint", whole |-> TRUE, number |-> address.number,
     name |-> 0, in |-> address.bit, transfer |-> transfer]

OtherDescriptor(kind) ==
    [kind |-> kind, whole |-> TRUE, number |-> 0, name |-> 0,
     in |-> FALSE, transfer |-> 0]

\* The class descriptors are the worker's bytes, copied as they are.
InterfaceDescriptors(i) ==
    <<[kind |-> "interface", whole |-> TRUE, number |-> i.number,
       name |-> i.name, in |-> FALSE, transfer |-> 0]>>
    \o (IF i.class = "none" THEN <<>> ELSE <<OtherDescriptor(i.class)>>)
    \o <<EndpointDescriptor(i.in, i.transfer),
         EndpointDescriptor(i.out, i.transfer)>>

NativeStrings ==
    <<LanguageDescriptor(<<English>>)>>
    \o [k \in 1 .. 4 |-> StringDescriptor(k, English, "text")]

NativeBundle(n) ==
    [device |-> [valid |-> TRUE, configurations |-> 1, usb |-> n.usb,
                 names |-> <<1, 2, 3>>],
     config |-> [consistent |-> TRUE, value |-> 1, name |-> 0,
                 body |-> FlattenSeq([k \in DOMAIN Sorted(n.interfaces) |->
                             InterfaceDescriptors(Sorted(n.interfaces)[k])])],
     strings |-> NativeStrings,
     microsoft |-> n.microsoft,
     webusb |-> n.webusb]

\* The interfaces fit the configuration descriptor ("huge" ones do not) and
\* the texts their string descriptors.
Assembles(n) ==
    /\ n.interfaces # <<>>
    /\ Len(n.interfaces) <= MaxByte
    /\ \A k \in DOMAIN n.interfaces :
          InterfaceIsValid(n.interfaces[k]) /\ n.interfaces[k].class # "huge"
    /\ n.serial = "text" /\ n.texts = "text"

\* ugsp_personality_builder_finish; a refused one may be tried again after
\* other calls.
FinishNative ==
    /\ Called /\ HasBuilder
    /\ Assembles(builder[1])
    /\ Finishes(NativeBundle(builder[1]))
    /\ phase' = "found"
    /\ bundle' = NativeBundle(builder[1])
    /\ UNCHANGED builder

Native ==
    \/ NewBuilder
    \/ AddInterface
    \/ SetSerialNumber
    \/ AddMicrosoftCompatibleId
    \/ SetWebUsb
    \/ FinishNative

=============================================================================
