------------------------ MODULE FunctionFsInspection ------------------------
(***************************************************************************)
(* src/functionfs.rs: what the supervisor checks of the two blobs it is    *)
(* about to write to ep0, and the endpoint files it derives from them.     *)
(*                                                                         *)
(* A USB descriptor is a record with a kind, whether it is as long as its  *)
(* kind demands (whole), a number, a string index (name), and for an       *)
(* endpoint its direction and transfer type.  A descriptor whose length    *)
(* byte does not fit the bytes around it has the kind "broken".            *)
(*                                                                         *)
(* A descriptor blob is a header (one count per speed set, the Microsoft   *)
(* OS flag and its count) and the stream of what follows: the descriptors  *)
(* of every set, then the OS sections.                                     *)
(***************************************************************************)
EXTENDS Integers, Sequences, FiniteSets

(***************************************************************************)
(* Orders.  They are written by positions and ranks, which can be reasoned *)
(* about, and not with the recursive operators of the libraries.           *)
(***************************************************************************)

\* How many members of S come up to x.
Rank(S, x) == Cardinality({y \in S : y <= x})

\* The members of a finite set of numbers, in ascending order.
Ascending(S) ==
    [n \in 1 .. Cardinality(S) |-> CHOOSE x \in S : Rank(S, x) = n]

\* What a sequence holds at some of its positions, in their order.
At(s, positions) ==
    LET order == Ascending(positions) IN [n \in DOMAIN order |-> s[order[n]]]

(***************************************************************************)
(* The descriptors.                                                        *)
(***************************************************************************)

IsInterface(d) == d.kind = "interface"

IsEndpoint(d) == d.kind = "endpoint"

Address(d) == <<d.number, d.in>>

\* The interface numbers a sequence of descriptors declares.
Interfaces(s) == {s[k].number : k \in {j \in DOMAIN s : IsInterface(s[j])}}

\* Mutant: the addresses are not remembered.
SetParsesAnyAddress(s) ==
    \A k \in DOMAIN s :
        /\ s[k].kind \in {"interface", "endpoint", "class"} /\ s[k].whole
        /\ IsEndpoint(s[k]) => s[k].number # 0

\* parse_descriptor_set: every descriptor is complete, endpoint zero is not a
\* data endpoint and no address is declared twice.
SetParses(s) ==
    /\ \A k \in DOMAIN s :
          s[k].kind \in {"interface", "endpoint", "class"} /\ s[k].whole
    /\ \A k \in DOMAIN s : IsEndpoint(s[k]) => s[k].number # 0
    /\ \A j, k \in {i \in DOMAIN s : IsEndpoint(s[i])} :
          Address(s[j]) = Address(s[k]) => j = k

\* Mutant: the files are opened by direction.
FilesOutFirst(s) ==
    LET e == At(s, {k \in DOMAIN s : IsEndpoint(s[k]) /\ ~s[k].in})
                 \o At(s, {k \in DOMAIN s : IsEndpoint(s[k]) /\ s[k].in})
    IN [k \in DOMAIN e |-> [in |-> e[k].in, transfer |-> e[k].transfer]]

\* The endpoints in the order in which FunctionFS numbers their files.
Files(s) ==
    LET e == At(s, {k \in DOMAIN s : IsEndpoint(s[k])})
    IN [k \in DOMAIN e |-> [in |-> e[k].in, transfer |-> e[k].transfer]]

\* Where the k-th speed set ends in the stream.
SetEnds(b) ==
    LET end[k \in 0 .. Len(b.counts)] ==
            IF k = 0 THEN 0 ELSE end[k - 1] + b.counts[k]
    IN end

SpeedSet(b, k) ==
    SubSeq(b.stream, SetEnds(b)[k - 1] + 1, SetEnds(b)[k])

Sections(b) ==
    SubSeq(b.stream, SetEnds(b)[Len(b.counts)] + 1, Len(b.stream))

\* parse_extended_compat_id: an identifier is graphic ASCII and not blank.
CompatParses(o, present) ==
    /\ o.entries # <<>>
    /\ \A k \in DOMAIN o.entries :
          o.entries[k].interface \in present /\ o.entries[k].id = "graphic"

\* parse_extended_properties: the type is one the kernel knows, and the name,
\* which the projection wrote as UTF-16, reads as UTF-8, which the bytes of a
\* Latin-1 letter in it do not.
PropertiesParse(o) ==
    /\ o.entries # <<>>
    /\ \A k \in DOMAIN o.entries :
          o.entries[k].type \in 1 .. 7 /\ o.entries[k].name = "ascii"

\* parse_ms_os_descriptors, one section.
SectionParses(o, present) ==
    \/ o.kind = "compat" /\ o.interface \in present /\ CompatParses(o, present)
    \/ o.kind = "properties" /\ o.interface \in present /\ PropertiesParse(o)

\* inspect_descriptors.  The counts cut the stream into sets and sections with
\* nothing left over; every speed set describes the same device.
DescriptorsPass(b) ==
    /\ SetEnds(b)[Len(b.counts)] <= Len(b.stream)
    /\ \A k \in DOMAIN b.counts :
          /\ SetParses(SpeedSet(b, k))
          /\ Files(SpeedSet(b, k)) = Files(SpeedSet(b, 1))
          /\ Interfaces(SpeedSet(b, k)) = Interfaces(SpeedSet(b, 1))
    /\ b.os => b.osCount # 0
    /\ Len(Sections(b)) = IF b.os THEN b.osCount ELSE 0
    /\ \A k \in DOMAIN Sections(b) :
          SectionParses(Sections(b)[k], Interfaces(SpeedSet(b, 1)))

\* inspect_strings: as many strings as the header announces per language.
StringsPass(t) == Len(t.texts) = t.count * Len(t.languages)

\* inspect.
Passes(descriptors, strings) ==
    DescriptorsPass(descriptors) /\ StringsPass(strings)

\* The endpoints of the Inspection: those of the first speed set.
InspectedEndpoints(b) == Files(SpeedSet(b, 1))

=============================================================================
