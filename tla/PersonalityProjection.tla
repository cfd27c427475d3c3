------------------------ MODULE PersonalityProjection ------------------------
(***************************************************************************)
(* src/usb_personality.rs: discover_bundle validates the personality a     *)
(* worker sent and turns it into what Linux wants: the attributes of the   *)
(* gadget, and the descriptor and string blobs FunctionFS reads from ep0.  *)
(* FunctionFS numbers its strings from one, so every interface name gets   *)
(* the number of its first appearance and the texts follow that order.     *)
(***************************************************************************)
EXTENDS PersonalityBundle, Functions

(***************************************************************************)
(* Strings.                                                                *)
(***************************************************************************)
StringKeys(b) ==
    [k \in DOMAIN b.strings |-> <<b.strings[k].index, b.strings[k].language>>]

HasString(b, index, language) ==
    \E k \in DOMAIN b.strings : StringKeys(b)[k] = <<index, language>>

FormOf(b, index, language) ==
    LET k == CHOOSE j \in DOMAIN b.strings :
                StringKeys(b)[j] = <<index, language>>
    IN b.strings[k].form

\* language_id: the first language counts, the others are ignored.
HasLanguage(b) ==
    HasString(b, 0, 0) /\ FormOf(b, 0, 0) = "languages"

LanguageOf(b) ==
    b.strings[CHOOSE j \in DOMAIN b.strings :
                 StringKeys(b)[j] = <<0, 0>>].ids[1]

\* usb_string reads the string; it may still contain a NUL.
UsbStringReads(b, index) ==
    /\ HasString(b, index, LanguageOf(b))
    /\ FormOf(b, index, LanguageOf(b)) \in {"text", "nul"}

UsbString(b, index) == <<index, LanguageOf(b)>>

\* optional_string
OptionalString(b, index) ==
    IF index = 0 THEN <<>> ELSE <<UsbString(b, index)>>

(***************************************************************************)
(* inspect_and_rewrite_configuration.                                      *)
(***************************************************************************)
BodyReads(body) ==
    \A k \in DOMAIN body :
        /\ body[k].kind # "broken"
        /\ body[k].kind \in {"interface", "endpoint"} => body[k].whole

\* The names of the named interfaces before position k, in order.
NamesBefore(body, k) ==
    {body[j].name : j \in {i \in 1 .. k - 1 :
        IsInterface(body[i]) /\ body[i].name # 0}}

\* Mutant: the last number is not used.
NumbersFitBelow(body) ==
    \A k \in DOMAIN body : IsInterface(body[k]) /\ body[k].name # 0 =>
        Cardinality(NamesBefore(body, k)) + 1 < MaxByte

\* The number for a new name is computed at every named interface, and has to
\* fit a byte also where the name already has its number.
NumbersFit(body) ==
    \A k \in DOMAIN body : IsInterface(body[k]) /\ body[k].name # 0 =>
        Cardinality(NamesBefore(body, k)) + 1 <= MaxByte

\* The original indexes in the order of their new numbers.
MappedNames(body) ==
    LET first == {k \in DOMAIN body :
            /\ IsInterface(body[k]) /\ body[k].name # 0
            /\ body[k].name \notin NamesBefore(body, k)}
        e == At(body, first)
    IN [n \in DOMAIN e |-> e[n].name]

Rewritten(body) ==
    [k \in DOMAIN body |->
        IF IsInterface(body[k]) /\ body[k].name # 0
        THEN [body[k] EXCEPT !.name =
                 CHOOSE n \in DOMAIN MappedNames(body) :
                     MappedNames(body)[n] = body[k].name]
        ELSE body[k]]

ProjectedEndpoints(body) ==
    LET e == At(body, {k \in DOMAIN body : IsEndpoint(body[k])})
    IN [k \in DOMAIN e |-> [number |-> e[k].number, in |-> e[k].in,
                            transfer |-> e[k].transfer]]

\* functionfs_strings: the texts, in the order of the new numbers.
FunctionFsStringsRead(b) ==
    \A n \in DOMAIN MappedNames(b.config.body) :
        /\ UsbStringReads(b, MappedNames(b.config.body)[n])
        /\ FormOf(b, MappedNames(b.config.body)[n], LanguageOf(b)) = "text"

\* Mutant: the texts stay in the order of their original indexes.
FunctionFsStringsUnsorted(b) ==
    LET mapped == MappedNames(b.config.body)
        names == Ascending({mapped[n] : n \in DOMAIN mapped})
    IN [count |-> Len(names),
        languages |-> IF names = <<>> THEN <<>> ELSE <<LanguageOf(b)>>,
        texts |-> [n \in DOMAIN names |-> UsbString(b, names[n])]]

FunctionFsStrings(b) ==
    LET names == MappedNames(b.config.body)
    IN [count |-> Len(names),
        languages |-> IF names = <<>> THEN <<>> ELSE <<LanguageOf(b)>>,
        texts |-> [n \in DOMAIN names |-> UsbString(b, names[n])]]

(***************************************************************************)
(* project_microsoft_os_1, microsoft_identifier and project_webusb.        *)
(***************************************************************************)
MicrosoftReads(m, present) ==
    /\ m.vendor # 0
    /\ Len(m.compat) <= MaxByte
    /\ \A k \in DOMAIN m.compat :
          /\ m.compat[k].interface \in present
          /\ m.compat[k].id \in {"graphic", "blank", "control"}
          /\ \A j \in 1 .. k - 1 :
                m.compat[j].interface # m.compat[k].interface
    /\ \A k \in DOMAIN m.properties :
          /\ m.properties[k].interface \in present
          /\ m.properties[k].name # "nul"

\* Mutant: every property has a section of its own.
OsSectionsApart(m) ==
    LET apart == [n \in DOMAIN m.properties |->
            [kind |-> "properties", interface |-> m.properties[n].interface,
             entries |-> <<m.properties[n]>>]]
    IN IF m.compat = <<>> THEN apart
       ELSE <<[kind |-> "compat", interface |-> m.compat[1].interface,
               entries |-> m.compat]>> \o apart

\* One section for the compatible IDs, under the interface of the first, and
\* one per interface for its properties, in the order of the interfaces.
OsSections(m) ==
    LET owners == {m.properties[k].interface : k \in DOMAIN m.properties}
        order == Ascending(owners)
        Of(i) == At(m.properties,
                    {k \in DOMAIN m.properties : m.properties[k].interface = i})
        named == [n \in DOMAIN order |->
            [kind |-> "properties", interface |-> order[n],
             entries |-> Of(order[n])]]
    IN IF m.compat = <<>> THEN named
       ELSE <<[kind |-> "compat", interface |-> m.compat[1].interface,
               entries |-> m.compat]>> \o named

WebUsbReads(w, usb) ==
    /\ usb = "new" /\ w.version = "1.0" /\ w.vendor # 0
    /\ w.page \in {"", "http"}

(***************************************************************************)
(* discover_bundle and project.                                            *)
(***************************************************************************)
ConfigurationReads(b) ==
    /\ b.device.valid /\ b.device.configurations = 1
    /\ b.config.consistent /\ b.config.value = 1
    /\ BodyReads(b.config.body)
    /\ NumbersFit(b.config.body)

StringsRead(b) ==
    /\ Len(b.strings) <= MaxStrings
    /\ IsInjective(StringKeys(b))
    /\ HasLanguage(b)
    /\ \A k \in 1 .. 3 : b.device.names[k] # 0 =>
          UsbStringReads(b, b.device.names[k])
    /\ FunctionFsStringsRead(b)

CapabilitiesRead(b) ==
    /\ \A k \in DOMAIN b.microsoft :
          MicrosoftReads(b.microsoft[k], Interfaces(b.config.body))
    /\ \A k \in DOMAIN b.webusb : WebUsbReads(b.webusb[k], b.device.usb)

Projects(b) == ConfigurationReads(b) /\ StringsRead(b) /\ CapabilitiesRead(b)

\* The Personality.  The blob has one speed set, full speed, whatever the
\* speed of the device.
Projection(b) ==
    LET body == b.config.body
        sections == IF b.microsoft = <<>> THEN <<>>
                    ELSE OsSections(b.microsoft[1])
    IN [identity |-> [k \in 1 .. 3 |-> OptionalString(b, b.device.names[k])],
        descriptors |-> [counts |-> <<Len(body)>>,
                         os |-> sections # <<>>,
                         osCount |-> Len(sections),
                         stream |-> Rewritten(body) \o sections],
        strings |-> FunctionFsStrings(b),
        endpoints |-> ProjectedEndpoints(body),
        microsoft |-> [k \in DOMAIN b.microsoft |-> b.microsoft[k].vendor],
        webusb |-> b.webusb]

=============================================================================
