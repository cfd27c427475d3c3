------------------------ MODULE MCEndpointActivation ------------------------
(***************************************************************************)
(* EndpointActivation for TLC, with a claim of docs/usb-lifecycle.md.      *)
(***************************************************************************)
EXTENDS EndpointActivation

\* docs/usb-lifecycle.md:23-25: a genuine Disable clears the enabled state, so
\* the next Enable starts a fresh endpoint activation.  Hence with nothing on
\* its way and the device configured, no helper is parked.
ConfiguredIsServed ==
    Settled /\ spc = "serve" /\ configured =>
        \A h \in Helpers : hpc[h] # "parked"

=============================================================================
