--------------------------- MODULE MCInstallation ---------------------------
(* Installation with the servers, CAs and command lines of the run. *)
EXTENDS Installation

CONSTANTS s1, s2, c1, c2

TwoServers == {s1, s2}
TwoCas == {c1, c2}
OneInStore == {c1}
AllFaults == FaultKinds

Line(server, ca, fingerprint, token, console) ==
    [server |-> server, ca |-> ca, fingerprint |-> fingerprint, token |-> token, console |-> console]
\* An upgrade that says nothing, a scripted install, the same by hand with
\* the fingerprint compared or refused, a CA file, and a bare install.
SixLines == {
    NoFlags,
    Line(s1, None, c1, TRUE, "nobody"), Line(s2, None, None, FALSE, "nobody"),
    Line(s1, None, None, TRUE, "yes"), Line(s2, c2, None, FALSE, "nobody"),
    Line(None, None, None, FALSE, "no")}
=============================================================================
