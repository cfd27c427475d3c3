--------------------------- MODULE MCUsbLifecycle ---------------------------
(***************************************************************************)
(* UsbLifecycle for TLC.  The configurations choose the constants; the     *)
(* definitions below state what the repository's documents say of the      *)
(* program where a run shows that the code does something else.            *)
(***************************************************************************)
EXTENDS UsbLifecycle

\* docs/profile-format.md:115: the readiness timeout bounds every startup and
\* reconfiguration handshake, so no such receive blocks without SO_RCVTIMEO.
HandshakesBounded ==
    pc \in {"awaitConfigure", "awaitQuiesced", "awaitServing"} => read_timeout

\* docs/worker-protocol.md:205-208: a worker that stops reacting cannot keep
\* the supervisor from its bounded TERM/KILL recovery, so SIGTERM ends it.
WedgedWorkerStopped == HostBehaves => (stop_requested ~> pc = "exited")

\* README.md:107-110: SIGHUP keeps the supervisor's PID, so a signal that
\* reaches a handshake does not become the error that ends the supervisor.
SignalAbortsNoHandshake ==
    [][eintr /\ task # "setup" /\ ~failed => ~failed']_vars

\* docs/architecture.md:122-132: the worker may send a replacement while it is
\* serving and survives it.  With no fault and no signal the supervisor fails
\* only when one of its counters is exhausted.
CleanTrafficNeverFails ==
    failed => generation = MaxGeneration \/ next_control_request = MaxRequest

\* docs/raspberry-pi-validation.md:99-106: when the worker is killed while
\* attached, the same supervisor process recovers.
WorkerLossKeepsSupervisor ==
    [][bound /\ PeerClosed /\ ~failed => ~failed']_vars

=============================================================================
