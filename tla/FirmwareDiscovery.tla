-------------------------- MODULE FirmwareDiscovery --------------------------
(***************************************************************************)
(* crates/usb-gadget-worker/src/discovery.rs: a worker reads the           *)
(* personality of the firmware it runs, one control transfer at a time.    *)
(*                                                                         *)
(* One action per transfer: the request is fixed by what was read so far,  *)
(* the reply is the firmware's choice.  Regular[k] holds the replies to    *)
(* request k of a firmware that keeps to the USB rules, Odd[k] those of    *)
(* one that does not, of which a run sees at most MaxOdd.  A reply that is *)
(* not valid stands for every stalled, truncated or malformed one the code *)
(* refuses at that point.                                                  *)
(***************************************************************************)
EXTENDS PersonalityBundle, FiniteSetsExt

CONSTANTS
    Regular, Odd,   \* the replies per request
    MaxOdd          \* model bound: odd replies in a run

ASSUME MaxOddIsNatural == MaxOdd \in Nat

VARIABLES
    odd,    \* the odd replies so far
    left    \* discover_microsoft: the interfaces still to be asked

discoveryVars == <<odd, left>>

Answer(request, reply) ==
    \/ reply \in Regular[request] /\ odd' = odd
    \/ reply \in Odd[request] /\ odd < MaxOdd /\ odd' = odd + 1

Replies(request) == Regular[request] \cup Odd[request]

\* What a reply is read as.
ASSUME RepliesHaveTypes ==
    /\ Replies("device") \subseteq DeviceDescriptors
    /\ Replies("languages") \subseteq Seq(Nat)
    /\ Replies("header") \subseteq BOOLEAN
    /\ Replies("config") \subseteq Configurations
    /\ Replies("strings") \subseteq {"text", "nul", "bad", "invalid"}
    /\ Replies("osString") \subseteq
          [stall : BOOLEAN, valid : BOOLEAN, vendor : Nat]
    /\ Replies("compat") \subseteq
          [stall : BOOLEAN, entries : Seq(CompatibleIds)]
    /\ Replies("properties") \subseteq
          [valid : BOOLEAN, entries : Seq([type : Nat, name : PropertyNames])]
    /\ Replies("bosHeader") \subseteq {"stall", "ok", "invalid"}
    /\ Replies("bos") \subseteq
          [valid : BOOLEAN,
           capabilities : Seq([kind : {"other", "webusb", "broken"},
                               version : Versions, vendor : Nat,
                               landing : BOOLEAN])]
    /\ Replies("setConfig") \subseteq BOOLEAN
    /\ Replies("url") \subseteq Pages \cup {"invalid"}

\* discover goes on at `next` with what it knows now, or returns an error.
Proceed(accepted, next, known) ==
    IF accepted THEN phase' = next /\ bundle' = known
    ELSE phase' = "abandoned" /\ UNCHANGED bundle

(***************************************************************************)
(* What discover computes from the replies so far.                         *)
(***************************************************************************)
DeviceNames(b) == {b.device.names[k] : k \in 1 .. 3}

InterfaceNames(s) == {s[k].name : k \in {j \in DOMAIN s : IsInterface(s[j])}}

\* Mutant: the name of the configuration is not asked for.
StringIndicesButOne(b) ==
    (DeviceNames(b) \cup InterfaceNames(b.config.body)) \ {0}

StringIndices(b) ==
    (DeviceNames(b) \cup {b.config.name} \cup InterfaceNames(b.config.body))
        \ {0}

LanguageIds(b) ==
    LET ids == b.strings[1].ids IN {ids[k] : k \in DOMAIN ids}

SeenStrings(b) ==
    {<<b.strings[k].language, b.strings[k].index>> : k \in 2 .. Len(b.strings)}

PendingStrings(b) == (LanguageIds(b) \X StringIndices(b)) \ SeenStrings(b)

\* The sets are ordered: by language first, then by index.
NextString(b) ==
    CHOOSE p \in PendingStrings(b) : \A q \in PendingStrings(b) :
        p[1] < q[1] \/ (p[1] = q[1] /\ p[2] <= q[2])

AfterStrings(b) == IF PendingStrings(b) = {} THEN "osString" ELSE "strings"

AfterMicrosoft(b) == IF b.device.usb = "new" THEN "bosHeader" ELSE "finish"

AfterCompat(b, interfaces) ==
    IF interfaces = {} THEN AfterMicrosoft(b) ELSE "properties"

(***************************************************************************)
(* The transfers.                                                          *)
(***************************************************************************)
AskDevice ==
    /\ phase = "device"
    /\ \E r \in Replies("device") :
          /\ Answer("device", r)
          /\ Proceed(r.valid /\ r.configurations = 1, "languages",
                     [bundle EXCEPT !.device = r])
    /\ UNCHANGED left

AskLanguages ==
    /\ phase = "languages"
    /\ \E r \in Replies("languages") :
          /\ Answer("languages", r)
          /\ Proceed(r # <<>>, "header",
                     [bundle EXCEPT !.strings = <<LanguageDescriptor(r)>>])
    /\ UNCHANGED left

AskHeader ==
    /\ phase = "header"
    /\ \E r \in Replies("header") :
          /\ Answer("header", r)
          /\ Proceed(r, "config", bundle)
    /\ UNCHANGED left

\* The walk over the configuration stops at a malformed descriptor and at a
\* short interface; a short endpoint descriptor goes unnoticed here.
AskConfiguration ==
    /\ phase = "config"
    /\ \E r \in Replies("config") :
          /\ Answer("config", r)
          /\ LET known == [bundle EXCEPT !.config = r]
                 walked == \A k \in DOMAIN r.body :
                              /\ r.body[k].kind # "broken"
                              /\ IsInterface(r.body[k]) => r.body[k].whole
             IN Proceed(walked, AfterStrings(known), known)
    /\ UNCHANGED left

AskString ==
    /\ phase = "strings"
    /\ \E form \in Replies("strings") :
          /\ Answer("strings", form)
          /\ LET next == NextString(bundle)
                 known == [bundle EXCEPT !.strings = Append(@,
                              StringDescriptor(next[2], next[1], form))]
             IN Proceed(form # "invalid", AfterStrings(known), known)
    /\ UNCHANGED left

\* discover_microsoft: a stall means that the firmware has no such descriptors.
AskOsString ==
    /\ phase = "osString"
    /\ \E r \in Replies("osString") :
          /\ Answer("osString", r)
          /\ IF r.stall
             THEN Proceed(TRUE, AfterMicrosoft(bundle), bundle)
             ELSE Proceed(r.valid /\ r.vendor # 0, "compat",
                     [bundle EXCEPT
                         !.strings = Append(@,
                             StringDescriptor(OsString, 0, "text")),
                         !.microsoft = <<Microsoft(r.vendor)>>])
    /\ UNCHANGED left

AskCompatibleIds ==
    /\ phase = "compat"
    /\ LET interfaces == Interfaces(bundle.config.body)
       IN /\ left' = interfaces
          /\ \E r \in Replies("compat") :
                /\ Answer("compat", r)
                /\ IF r.stall
                   THEN Proceed(TRUE, AfterCompat(bundle, interfaces), bundle)
                   ELSE Proceed(
                           /\ r.entries # <<>>
                           /\ \A k \in DOMAIN r.entries :
                                 /\ r.entries[k].interface \in interfaces
                                 /\ r.entries[k].id # "foreign",
                           AfterCompat(bundle, interfaces),
                           [bundle EXCEPT !.microsoft[1].compat = r.entries])

\* The interfaces are asked in ascending order; a stall skips one.
AskProperties ==
    /\ phase = "properties"
    /\ LET i == Min(left)
           rest == left \ {i}
       IN /\ left' = rest
          /\ \E r \in Replies("properties") :
                /\ Answer("properties", r)
                /\ LET asked == [k \in DOMAIN r.entries |->
                              [interface |-> i, type |-> r.entries[k].type,
                               name |-> r.entries[k].name]]
                   IN Proceed(r.valid, AfterCompat(bundle, rest),
                         [bundle EXCEPT !.microsoft[1].properties =
                             @ \o asked])

\* discover_webusb: a stall means that there is no BOS descriptor.
AskBosHeader ==
    /\ phase = "bosHeader"
    /\ \E r \in Replies("bosHeader") :
          /\ Answer("bosHeader", r)
          /\ Proceed(r # "invalid",
                     IF r = "stall" THEN "finish" ELSE "bos", bundle)
    /\ UNCHANGED left

\* The walk ends at the first WebUSB capability or malformed one.
AskBos ==
    /\ phase = "bos"
    /\ \E r \in Replies("bos") :
          /\ Answer("bos", r)
          /\ LET telling == {k \in DOMAIN r.capabilities :
                                r.capabilities[k].kind # "other"}
                 first == r.capabilities[Min(telling)]
             IN IF r.valid /\ telling = {}
                THEN Proceed(TRUE, "finish", bundle)
                ELSE Proceed(r.valid /\ first.kind = "webusb",
                        IF first.landing THEN "setConfig" ELSE "finish",
                        [bundle EXCEPT !.webusb =
                            <<WebUsb(first.version, first.vendor, "")>>])
    /\ UNCHANGED left

AskSetConfiguration ==
    /\ phase = "setConfig"
    /\ \E r \in Replies("setConfig") :
          /\ Answer("setConfig", r)
          /\ Proceed(r, "url", bundle)
    /\ UNCHANGED left

AskUrl ==
    /\ phase = "url"
    /\ \E r \in Replies("url") :
          /\ Answer("url", r)
          /\ Proceed(r # "invalid", "finish",
                     [bundle EXCEPT !.webusb[1].page = r])
    /\ UNCHANGED left

FinishDiscovery ==
    /\ phase = "finish"
    /\ Proceed(Finishes(bundle), "found", bundle)
    /\ UNCHANGED discoveryVars

Discover ==
    \/ AskDevice
    \/ AskLanguages
    \/ AskHeader
    \/ AskConfiguration
    \/ AskString
    \/ AskOsString
    \/ AskCompatibleIds
    \/ AskProperties
    \/ AskBosHeader
    \/ AskBos
    \/ AskSetConfiguration
    \/ AskUrl
    \/ FinishDiscovery

=============================================================================
