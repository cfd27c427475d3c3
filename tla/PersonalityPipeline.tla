------------------------- MODULE PersonalityPipeline -------------------------
(***************************************************************************)
(* A personality on its way from the worker to the host: discovered from   *)
(* firmware (FirmwareDiscovery) or assembled by a native worker            *)
(* (NativeBuilder), sent in Configure, validated and projected             *)
(* (PersonalityProjection), and published through FunctionFS, where it is  *)
(* inspected again (FunctionFsInspection).  The supervisor serves an older *)
(* generation when the Configure arrives: src/runtime.rs, configure from   *)
(* line 296.  The steps between these that do not look at the personality  *)
(* are in UsbRuntime.                                                      *)
(***************************************************************************)
EXTENDS FirmwareDiscovery, NativeBuilder, PersonalityProjection

VARIABLES
    serving,      \* the generation the host sees: "old", "none" or "new"
    personality,  \* the projection: a sequence of at most one
    files,        \* the endpoint files passed to the worker, in order
    endpoint_map  \* the body of UsbEndpoints, in order

publishVars == <<personality, files, endpoint_map>>

sourceVars == <<bundle, odd, left, builder, calls>>

vars == <<phase, sourceVars, serving, publishVars>>

\* A worker with firmware starts with its first transfer, a native one with
\* its builder.
Init ==
    /\ phase \in {"device", "building"}
    /\ bundle = NoBundle
    /\ odd = 0 /\ left = {}
    /\ builder = <<>> /\ calls = 0
    /\ serving = "old"
    /\ personality = <<>> /\ files = <<>> /\ endpoint_map = <<>>

\* configure: discover_bundle on the body of the request.  What it refuses is
\* answered by ConfigurationRejected.
ValidateConfiguration ==
    /\ phase = "found"
    /\ IF Projects(bundle)
       THEN phase' = "validated" /\ personality' = <<Projection(bundle)>>
       ELSE phase' = "rejected" /\ UNCHANGED personality
    /\ UNCHANGED <<sourceVars, serving, files, endpoint_map>>

\* unbind, quiesce_worker and stop_usb_generation take the old generation away.
ReplaceGeneration ==
    /\ phase = "validated"
    /\ phase' = "replaced"
    /\ serving' = "none"
    /\ UNCHANGED <<sourceVars, publishVars>>

\* publish_functionfs: ep0 takes the blobs and the files are opened, ep1 first.
EndpointFiles(p) == InspectedEndpoints(p.descriptors)

Publishes(p) ==
    /\ Passes(p.descriptors, p.strings)
    /\ Len(EndpointFiles(p)) = Len(p.endpoints)

\* populate_gadget, publish_functionfs, and UsbEndpoints with the descriptors.
\* An error here is returned by configure and ends the supervisor.
PublishGeneration ==
    /\ phase = "replaced"
    /\ IF Publishes(personality[1])
       THEN /\ phase' = "served" /\ serving' = "new"
            /\ files' = EndpointFiles(personality[1])
            /\ endpoint_map' = personality[1].endpoints
       ELSE phase' = "failed" /\ UNCHANGED <<serving, files, endpoint_map>>
    /\ UNCHANGED <<sourceVars, personality>>

Supervise == ValidateConfiguration \/ ReplaceGeneration \/ PublishGeneration

\* The builder's calls leave the other source alone, and the other way round.
DiscoverStep ==
    Discover /\ UNCHANGED <<nativeVars, serving, publishVars>>

NativeStep ==
    Native /\ UNCHANGED <<discoveryVars, serving, publishVars>>

Next == DiscoverStep \/ NativeStep \/ Supervise

\* Discovery is one loop whose transfers are calls into the firmware, and
\* configure runs to its end; a native worker may stop calling.
Fairness == WF_vars(DiscoverStep) /\ WF_vars(Supervise)

Spec == Init /\ [][Next]_vars /\ Fairness

(***************************************************************************)
(* What is well declared, said of the personality alone and without the    *)
(* blobs: the reference for the two validations of the supervisor.         *)
(***************************************************************************)
InterfacePositions(b) ==
    {k \in DOMAIN b.config.body : IsInterface(b.config.body[k])}

EndpointPositions(b) ==
    {k \in DOMAIN b.config.body : IsEndpoint(b.config.body[k])}

\* Every name the device and its interfaces show can be read by a host that
\* asks in the first language.
NamesDeclared(b) ==
    /\ \E k \in DOMAIN b.strings :
          b.strings[k].index = 0 /\ b.strings[k].form = "languages"
    /\ \A i \in (DeviceNames(b) \cup InterfaceNames(b.config.body)) \ {0} :
          \E k \in DOMAIN b.strings :
             /\ b.strings[k].index = i
             /\ b.strings[k].language = LanguageOf(b)
             /\ b.strings[k].form = "text" \/
                (/\ b.strings[k].form = "nul"
                 /\ i \notin InterfaceNames(b.config.body))
    /\ \A j, k \in DOMAIN b.strings : j # k =>
          \/ b.strings[j].index # b.strings[k].index
          \/ b.strings[j].language # b.strings[k].language

TopologyDeclared(b) ==
    /\ \A k \in DOMAIN b.config.body :
          b.config.body[k].whole /\ b.config.body[k].kind # "broken"
    /\ \A k \in EndpointPositions(b) : b.config.body[k].number # 0
    /\ \A j, k \in EndpointPositions(b) : j # k =>
          Address(b.config.body[j]) # Address(b.config.body[k])

MicrosoftDeclared(m, numbers) ==
    /\ m.vendor # 0
    /\ \A k \in DOMAIN m.compat :
          m.compat[k].interface \in numbers /\ m.compat[k].id = "graphic"
    /\ \A j, k \in DOMAIN m.compat : j # k =>
          m.compat[j].interface # m.compat[k].interface
    /\ \A k \in DOMAIN m.properties :
          /\ m.properties[k].interface \in numbers
          /\ m.properties[k].type \in 1 .. 7
          /\ m.properties[k].name = "ascii"

\* What there is room for: the strings of the bundle, per interface name a
\* number that fits a byte, and as many compatible IDs as a byte can count.
WithinLimits(b) ==
    /\ Len(b.strings) <= MaxStrings
    /\ \A k \in DOMAIN b.microsoft : Len(b.microsoft[k].compat) <= MaxByte
    /\ \A k \in InterfacePositions(b) :
          Cardinality({b.config.body[j].name :
              j \in {i \in InterfacePositions(b) : i < k}} \ {0}) < MaxByte
          \/ b.config.body[k].name = 0

WellDeclared(b) ==
    /\ b.device.configurations = 1 /\ b.config.value = 1
    /\ NamesDeclared(b)
    /\ TopologyDeclared(b)
    /\ WithinLimits(b)
    /\ \A k \in DOMAIN b.microsoft : MicrosoftDeclared(b.microsoft[k],
          {b.config.body[i].number : i \in InterfacePositions(b)})
    /\ \A k \in DOMAIN b.webusb :
          /\ b.device.usb = "new" /\ b.webusb[k].version = "1.0"
          /\ b.webusb[k].vendor # 0 /\ b.webusb[k].page # "other"

(***************************************************************************)
(* Properties.                                                             *)
(***************************************************************************)

\* discover reads, once each, every string the device, its configuration and
\* its interfaces refer to, in every language the firmware announces: no host
\* request for a string of a discovered personality goes unanswered.  One that
\* is also the Microsoft OS string, which is in no language, is there twice:
\* discover does not look for it among those it has seen.
ReferencedStringsKnown ==
    phase = "found" /\ builder = <<>> =>
        \A l \in {bundle.strings[1].ids[k] :
                     k \in DOMAIN bundle.strings[1].ids} :
        \A i \in ({bundle.device.names[k] : k \in 1 .. 3}
                  \cup {bundle.config.name}
                  \cup {bundle.config.body[k].name :
                           k \in InterfacePositions(bundle)}) \ {0} :
            Cardinality({k \in DOMAIN bundle.strings :
                bundle.strings[k].index = i /\ bundle.strings[k].language = l})
                = IF bundle.microsoft # <<>> /\ l = 0 /\ i = OsString
                  THEN 2 ELSE 1

\* The k-th file the supervisor passes is the k-th endpoint of its map, and of
\* the worker's own configuration: publish_functionfs compares only lengths,
\* so direction and type agree by the order of two separate walks.
EndpointsAgree ==
    phase = "served" =>
        LET declared == At(bundle.config.body, EndpointPositions(bundle))
        IN /\ Len(files) = Len(declared)
           /\ Len(endpoint_map) = Len(declared)
           /\ \A k \in DOMAIN declared :
                 /\ Address(endpoint_map[k]) = Address(declared[k])
                 /\ endpoint_map[k].transfer = declared[k].transfer
                 /\ files[k].in = declared[k].in
                 /\ files[k].transfer = declared[k].transfer

\* Renumbering keeps the names: FunctionFS answers for an interface with the
\* text the worker gave its interface, and with none where it gave none.
InterfaceNamesKept ==
    phase = "served" =>
        \A k \in InterfacePositions(bundle) :
            LET original == bundle.config.body[k].name
                number == personality[1].descriptors.stream[k].name
            IN IF original = 0 THEN number = 0
               ELSE /\ number \in DOMAIN personality[1].strings.texts
                    /\ personality[1].strings.texts[number] =
                          <<original, LanguageOf(bundle)>>

\* The OS sections carry every property the worker declared, in its order and
\* under its interface, and every compatible ID, and nothing else.
OsDescriptorsComplete ==
    phase = "served" /\ bundle.microsoft # <<>> =>
        LET sections == Sections(personality[1].descriptors)
            m == bundle.microsoft[1]
            Kind(kind) == {k \in DOMAIN sections : sections[k].kind = kind}
        IN /\ {sections[k].entries : k \in Kind("compat")} =
                 (IF m.compat = <<>> THEN {} ELSE {m.compat})
           /\ \A k \in Kind("properties") : sections[k].entries =
                 At(m.properties, {n \in DOMAIN m.properties :
                     m.properties[n].interface = sections[k].interface})
           /\ \A n \in DOMAIN m.properties :
                 Cardinality({k \in Kind("properties") :
                     sections[k].interface = m.properties[n].interface}) = 1

\* discover_bundle before the old generation goes and inspect after it, taken
\* together, serve what is well declared and refuse everything else.
ServedIffWellDeclared ==
    /\ phase = "served" => WellDeclared(bundle)
    /\ phase \in {"rejected", "failed"} => ~WellDeclared(bundle)

\* A firmware that answers by the USB rules is served in the end, unless it
\* has more strings than the supervisor and FunctionFS have room for.
DiscoveryServes ==
    (phase = "device") ~>
        (phase = "served" \/ odd > 0 \/ ~WithinLimits(bundle))

=============================================================================
