---------------------------- MODULE Installation ----------------------------
(***************************************************************************)
(* How a machine comes to trust its server, and how the service comes back *)
(* after it stops.  From cmd/fog-agent/main.go (openState, settleTrust,    *)
(* prepareState), caprobe.go, service_windows.go and internal/enroll.      *)
(*                                                                         *)
(* `setup`, run by the MSI, and `service install`, run by hand, settle the *)
(* server, what verifies it and the first enrollment in the state          *)
(* directory, which an uninstall keeps.  The service opens the same        *)
(* directory with no flags at every start.  Every write is one file (a     *)
(* temporary file and a rename), and a command is cut between any two.     *)
(* The machine is one: when its key is made anew after the first is        *)
(* Enrollment's.                                                           *)
(*                                                                         *)
(* Servers are told apart by what their certificate chains to: a CA they   *)
(* publish, or "public", which only this machine's store can verify.       *)
(***************************************************************************)
EXTENDS Naturals, Sequences

CONSTANTS
    Servers,      \* addresses
    Cas,          \* CAs a FOG server may publish and be issued by
    InStore,      \* those this machine's store holds (the legacy client's)
    CommandLines, \* what setup may be given
    Faults,       \* the kinds of fault that may happen
    MaxFaults,    \* bound: how many do
    MaxSetups,    \* bound: runs of setup and of service install
    MaxRebuilds,  \* bound: servers rebuilt on another CA
    None          \* no server, no CA, no certificate

FaultKinds == {"write", "cut", "manager", "crash"}

ASSUME InstallationAssumption ==
    /\ InStore \subseteq Cas
    /\ None \notin Servers \cup Cas \cup {"public", "system"}
    /\ {"public", "system"} \cap Cas = {}
    /\ CommandLines \subseteq
           [server : Servers \cup {None}, ca : Cas \cup {None}, fingerprint : Cas \cup {None},
            token : BOOLEAN, console : {"nobody", "yes", "no"}]
    /\ Faults \subseteq FaultKinds
    /\ {MaxFaults, MaxSetups, MaxRebuilds} \subseteq Nat

Trusts == Cas \cup {"system"}

VARIABLES
    chain,    \* external: what each server's certificate chains to
    disk,     \* the state directory: conf (config.json), ca (ca.pem), cert
    key,      \* whether the key is there, with the identity it was made for
    proc,     \* the process that has it open
    service,  \* the service manager's entry
    exit,     \* how the last service process ended
    faults, setups, rebuilds,   \* bounds
    settled,  \* history: the trust and server the last setup settled on
    torn,     \* history: one was cut, or failed to write, and left others, or
              \* a CA beside the machine's store
    kept,     \* history: trust was settled anew and an older certificate left
    lost,     \* history: the settled trust was this machine's store, and the
              \* config.json a new key resets says nothing of it
    owed      \* history: a token kept for an enrollment yet to be issued

history == <<settled, torn, kept, lost, owed>>
vars == <<chain, disk, key, proc, service, exit, faults, setups, rebuilds, history>>

Config == [server : Servers \cup {None}, system : BOOLEAN, token : BOOLEAN]
Disk == [conf : Config, ca : Cas \cup {None}, cert : Trusts \cup {None}]
HasTrust(d) == d.conf.system \/ d.ca # None
TrustOf(d) == IF d.conf.system THEN "system" ELSE d.ca

NoFlags == [server |-> None, ca |-> None, fingerprint |-> None,
            token |-> FALSE, console |-> "nobody"]
Nowhere == [trust |-> None, server |-> None]
Idle == [by |-> "nobody", pc |-> "idle", flags |-> NoFlags, todo |-> <<>>,
         onward |-> "idle", otherwise |-> "idle", forgot |-> FALSE, checked |-> FALSE,
         trust |-> None,  \* what its client verifies the server with
         before |-> [conf |-> [server |-> None, system |-> FALSE, token |-> FALSE],
                     ca |-> None, cert |-> None]]
NotRegistered == [registered |-> FALSE, restarts |-> FALSE, onExit |-> FALSE, repaired |-> FALSE]

Current == [trust |-> TrustOf(disk), server |-> disk.conf.server]
Held == Current = settled \/ (lost /\ Current = [settled EXCEPT !.trust = None])
Both == disk.conf.system /\ disk.ca # None
Setting == proc.by \in {"setup", "install"}
Serving == proc.by = "service"

TypeOK ==
    /\ chain \in [Servers -> Cas \cup {"public"}]
    /\ disk \in Disk
    /\ key \in BOOLEAN
    /\ proc.by \in {"nobody", "setup", "install", "service"}
    /\ proc.flags \in [server : Servers \cup {None}, ca : Cas \cup {None},
                       fingerprint : Cas \cup {None}, token : BOOLEAN,
                       console : {"nobody", "yes", "no"}]
    /\ proc.before \in Disk
    /\ proc.trust \in Trusts \cup {None}
    /\ service \in [registered : BOOLEAN, restarts : BOOLEAN, onExit : BOOLEAN,
                    repaired : BOOLEAN]
    /\ exit \in {"none", "stopped", "failure", "crash"}
    /\ settled \in [trust : Trusts \cup {None}, server : Servers \cup {None}]
    /\ {torn, kept, lost, owed} \subseteq BOOLEAN

Init ==
    /\ chain \in [Servers -> Cas \cup {"public"}]
    /\ disk = Idle.before /\ key = FALSE
    /\ proc = Idle
    /\ service = NotRegistered /\ exit = "none"
    /\ faults = 0 /\ setups = 0 /\ rebuilds = 0
    /\ settled = Nowhere /\ torn = FALSE /\ kept = FALSE /\ lost = FALSE
    /\ owed = FALSE

Strike(kind) ==
    /\ kind \in Faults /\ faults < MaxFaults
    /\ faults' = faults + 1

(***************************************************************************)
(* Writing.  A step of a command decides on writes and where it goes when  *)
(* they are all done, or when one fails.                                   *)
(***************************************************************************)
SetCa(ca) == [file |-> "ca", value |-> ca]
SetConf(conf) == [file |-> "conf", value |-> conf]
SetCert(cert) == [file |-> "cert", value |-> cert]

Go(p, pc) == [p EXCEPT !.pc = pc]
Do(p, writes, onward, otherwise) ==
    IF writes = <<>> THEN Go(p, onward)
    ELSE [p EXCEPT !.pc = "writing", !.todo = writes, !.onward = onward, !.otherwise = otherwise]

Write ==
    /\ proc.pc = "writing"
    /\ disk' = [disk EXCEPT ![Head(proc.todo).file] = Head(proc.todo).value]
    /\ proc' = IF Len(proc.todo) = 1 THEN [Go(proc, proc.onward) EXCEPT !.todo = <<>>]
                                      ELSE [proc EXCEPT !.todo = Tail(@)]
    /\ owed' = (owed /\ Head(proc.todo).file # "cert")
    /\ UNCHANGED <<chain, key, service, exit, faults, setups, rebuilds, settled, torn, kept, lost>>

WriteFails ==
    /\ proc.pc = "writing" /\ Strike("write")
    /\ proc' = [Go(proc, proc.otherwise) EXCEPT !.todo = <<>>]
    /\ torn' = (torn \/ (proc.otherwise = "failed" /\ (~Held \/ Both)))
    /\ UNCHANGED <<chain, disk, key, service, exit, setups, rebuilds, settled, kept, lost, owed>>

SaveCA(conf, ca) ==
    <<SetCa(ca)>> \o IF conf.system THEN <<SetConf([conf EXCEPT !.system = FALSE])>> ELSE <<>>
UseSystemTrust(conf) == <<SetCa(None), SetConf([conf EXCEPT !.system = TRUE])>>
ForgetTrust(conf) == <<SetCa(None), SetConf([conf EXCEPT !.system = FALSE])>>
\* The token is cleared in memory before the first write.
SaveIssuedTokenFirst(conf, trust) ==
    <<SetConf([conf EXCEPT !.token = FALSE]), SetCert(trust)>>
SaveIssued(conf, trust) == <<SetCert(trust), SetConf([conf EXCEPT !.token = FALSE])>>
DropIssued(conf) == <<SetCert(None), SetConf(conf)>>

(***************************************************************************)
(* Trust.                                                                  *)
(***************************************************************************)
SystemVerifies(server) == chain[server] \in {"public"} \cup InStore
Verifies(trust, server) ==
    IF trust = "system" THEN SystemVerifies(server) ELSE chain[server] = trust

\* acquireCA, with the server answering: the published CA comes first, and
\* somebody has to confirm it; this machine's store needs nobody.
Acquire(flags, server) ==
    IF chain[server] = "public"
    THEN IF flags.fingerprint # None THEN None ELSE "system"
    ELSE IF flags.fingerprint = chain[server]
            \/ (flags.fingerprint = None /\ flags.console = "yes")
         THEN chain[server] ELSE None

\* openState: what it takes for trust and what it writes; None is an error.
Opened(d, flags, answers) ==
    LET server == IF flags.server # None THEN flags.server ELSE d.conf.server
        conf   == [d.conf EXCEPT !.server = server]
        taken  == IF server = None THEN None
                  ELSE IF flags.ca # None THEN flags.ca
                  ELSE IF HasTrust(d) THEN TrustOf(d)
                  ELSE IF answers THEN Acquire(flags, server)
                  ELSE None
    IN [trust  |-> taken,
        writes |-> IF taken = None THEN <<>>
                   ELSE IF flags.ca # None
                   THEN SaveCA(conf, taken) \o <<SetConf([conf EXCEPT !.system = FALSE])>>
                   ELSE IF HasTrust(d) THEN <<SetConf(conf)>>
                   ELSE IF taken = "system" THEN UseSystemTrust(conf)
                   ELSE SaveCA(conf, taken) \o <<SetConf(conf)>>]

(***************************************************************************)
(* setup and service install.                                              *)
(***************************************************************************)
\* askMissing: a person at the console of a fresh machine is asked.
Asked(flags) ==
    IF flags.console = "nobody" \/ flags.server # None \/ disk.conf.server # None \/ HasTrust(disk)
    THEN {flags}
    ELSE {[flags EXCEPT !.server = s, !.token = t] : s \in Servers, t \in {flags.token, TRUE}}

\* The MSI stops the service it upgrades; `service install` refuses when there
\* is one.
Setup(by) ==
    /\ setups < MaxSetups /\ setups' = setups + 1
    /\ ~Setting
    /\ by = "setup" \/ ~service.registered
    /\ \E line \in CommandLines : \E flags \in Asked(line) :
           proc' = [Idle EXCEPT !.by = by, !.pc = "check", !.flags = flags, !.before = disk]
    /\ proc.pc # "writing"
    /\ exit' = IF Serving THEN "stopped" ELSE exit
    /\ UNCHANGED <<chain, disk, key, service, faults, rebuilds, history>>

Server(d) == IF proc.flags.server # None THEN proc.flags.server ELSE d.conf.server

\* forgetStaleTrust: only a certificate that does not verify counts.
Check(answers) ==
    /\ Setting /\ proc.pc = "check"
    /\ LET server == Server(disk)
           stale  == /\ HasTrust(disk) /\ server # None /\ answers
                     /\ ~Verifies(TrustOf(disk), server)
       IN proc' = IF stale
                  THEN Do([proc EXCEPT !.forgot = TRUE],
                          ForgetTrust([disk.conf EXCEPT !.server = server]), "open", "failed")
                  ELSE Go(proc, "open")
    /\ UNCHANGED <<chain, disk, key, service, exit, faults, setups, rebuilds, history>>

\* openState, with trust to settle when the check forgot it.
Open(answers) ==
    /\ Setting /\ proc.pc = "open"
    /\ LET opened == Opened(disk, proc.flags, answers)
           undone == IF proc.forgot THEN "restore" ELSE "failed"
       IN /\ proc' = IF opened.trust = None THEN Go(proc, undone)
                     ELSE Do(proc, opened.writes, "drop", undone)
          /\ kept' = (kept \/ /\ disk.cert # None /\ ~proc.forgot
                              /\ opened.trust \notin {None, disk.cert})
    /\ UNCHANGED <<chain, disk, key, service, exit, faults, setups, rebuilds, settled, torn, lost, owed>>

\* The old trust and the old address go back on disk.  An admin who gave a
\* fingerprint or a file sees the failure; anyone else carries on with them.
RestoreTrustOnly ==
    /\ Setting /\ proc.pc = "restore"
    /\ LET old == proc.before
           onward == IF proc.flags.fingerprint # None \/ proc.flags.ca # None
                     THEN "failed" ELSE "reopen"
       IN proc' = Do(proc, IF old.conf.system THEN UseSystemTrust(disk.conf)
                           ELSE SaveCA(disk.conf, old.ca), onward, "failed")
    /\ UNCHANGED <<chain, disk, key, service, exit, faults, setups, rebuilds, history>>
Restore ==
    /\ Setting /\ proc.pc = "restore"
    /\ LET old  == proc.before
           conf == [disk.conf EXCEPT !.server = old.conf.server]
           onward == IF proc.flags.fingerprint # None \/ proc.flags.ca # None
                     THEN "failed" ELSE "reopen"
       IN proc' = Do(proc, IF old.conf.system THEN UseSystemTrust(conf)
                           ELSE SaveCA(conf, old.ca) \o <<SetConf([conf EXCEPT !.system = FALSE])>>,
                     onward, "failed")
    /\ UNCHANGED <<chain, disk, key, service, exit, faults, setups, rebuilds, history>>

\* openState again, on the trust put back.
Reopen ==
    /\ Setting /\ proc.pc = "reopen"
    /\ proc' = Do(proc, Opened(disk, proc.flags, FALSE).writes, "token", "failed")
    /\ UNCHANGED <<chain, disk, key, service, exit, faults, setups, rebuilds, history>>

\* A certificate from before a trust that was forgotten and is now another.
DropStaleNever ==
    /\ Setting /\ proc.pc = "drop"
    /\ proc' = Go(proc, "token")
    /\ UNCHANGED <<chain, disk, key, service, exit, faults, setups, rebuilds, history>>
DropStale ==
    /\ Setting /\ proc.pc = "drop"
    /\ proc' = Do(proc, IF proc.forgot /\ disk.cert # None /\ TrustOf(disk) # TrustOf(proc.before)
                        THEN DropIssued(disk.conf) ELSE <<>>, "token", "failed")
    /\ UNCHANGED <<chain, disk, key, service, exit, faults, setups, rebuilds, history>>

\* prepareState: an enrolled machine is ready; otherwise the token is kept,
\* and the client built.
KeepToken ==
    /\ Setting /\ proc.pc = "token"
    /\ settled' = Current /\ lost' = FALSE
    /\ proc' = IF disk.cert # None THEN Go(proc, "register")
               ELSE Do([proc EXCEPT !.trust = TrustOf(disk)],
                       IF proc.flags.token THEN <<SetConf([disk.conf EXCEPT !.token = TRUE])>>
                       ELSE <<>>, "key", "failed")
    /\ UNCHANGED <<chain, disk, key, service, exit, faults, setups, rebuilds, torn, kept, owed>>

\* The directory cannot be locked down, once the trust is settled.
ProtectFails ==
    /\ Setting /\ proc.pc = "token" /\ Strike("manager")
    /\ settled' = Current /\ lost' = FALSE
    /\ proc' = Go(proc, "failed")
    /\ UNCHANGED <<chain, disk, key, service, exit, setups, rebuilds, torn, kept, owed>>

Undone == IF Setting THEN "failed" ELSE "fatal"

\* EnsureKey, in setup and at every start of the service.  A new key, when no
\* certificate is there yet, resets config.json to the address and the token.
\* A server that offers the directory features has its trust put back after.
EnsureKey(offered) ==
    /\ proc.pc = "key"
    /\ offered => Verifies(proc.trust, disk.conf.server)
    /\ LET reset  == SetConf([disk.conf EXCEPT !.system = FALSE])
           onward == IF Serving /\ disk.cert # None THEN "run" ELSE "enroll"
       IN proc' = IF key THEN Go(proc, onward)
                  ELSE Do(proc, IF offered THEN <<reset, SetConf(disk.conf)>> ELSE <<reset>>,
                          onward, Undone)
    /\ key' = TRUE
    /\ lost' = (lost \/ (~key /\ disk.conf.system))
    /\ UNCHANGED <<chain, disk, service, exit, faults, setups, rebuilds, settled, torn, kept, owed>>

\* The key, or the identity beside it, cannot be written.
KeyFails ==
    /\ proc.pc = "key" /\ ~key /\ Strike("write")
    /\ proc' = Go(proc, Undone)
    /\ UNCHANGED <<chain, disk, key, service, exit, setups, rebuilds, history>>

\* enrollLoop, in setup once and in the service until it is issued, with the
\* client built before the key.  Setup goes on whatever comes of it; for the
\* service a failed save is fatal.
Enroll(issued) ==
    /\ proc.pc = "enroll"
    /\ issued => Verifies(proc.trust, disk.conf.server)
    /\ issued \/ Setting
    /\ LET onward == IF Setting THEN "register" ELSE "run"
           otherwise == IF Setting THEN "register" ELSE "fatal"
       IN proc' = IF issued
                  THEN Do(proc, SaveIssued(disk.conf, proc.trust), onward, otherwise)
                  ELSE Go(proc, onward)
    /\ owed' = (owed \/ (Setting /\ proc.flags.token))
    /\ UNCHANGED <<chain, disk, key, service, exit, faults, setups, rebuilds, settled, torn, kept, lost>>

SetupFails ==
    /\ Setting /\ proc.pc = "failed"
    /\ proc' = Idle
    /\ UNCHANGED <<chain, disk, key, service, exit, faults, setups, rebuilds, history>>

\* The MSI registers the service with no recovery actions; `service install`
\* sets both, and a call of it that fails leaves what went before.
Register ==
    /\ Setting /\ proc.pc = "register"
    /\ \/ /\ service' = IF proc.by = "setup" THEN [NotRegistered EXCEPT !.registered = TRUE]
                        ELSE [registered |-> TRUE, restarts |-> TRUE, onExit |-> TRUE, repaired |-> TRUE]
          /\ proc' = [Idle EXCEPT !.by = "service", !.pc = "start"]
          /\ UNCHANGED faults
       \/ /\ proc.by = "install" /\ Strike("manager")
          /\ \E actions \in BOOLEAN :
                 service' = [NotRegistered EXCEPT !.registered = TRUE, !.restarts = actions]
          /\ proc' = Idle
    /\ exit' = "none"
    /\ UNCHANGED <<chain, disk, key, setups, rebuilds, history>>

\* Setup is killed, or the machine loses power under it.
Cut ==
    /\ Setting /\ Strike("cut")
    /\ proc' = Idle
    /\ torn' = (torn \/ ~Held \/ Both)
    /\ UNCHANGED <<chain, disk, key, service, exit, setups, rebuilds, settled, kept, lost, owed>>

(***************************************************************************)
(* The service.                                                            *)
(***************************************************************************)
\* Started by hand or at boot.
Start ==
    /\ service.registered /\ proc.by = "nobody"
    /\ proc' = [Idle EXCEPT !.by = "service", !.pc = "start"]
    /\ exit' = "none"
    /\ UNCHANGED <<chain, disk, key, service, faults, setups, rebuilds, history>>

\* The service manager's recovery: after a crash, and after a clean exit with
\* an error only when the flag for those is set.
Recover ==
    /\ service.registered /\ proc.by = "nobody" /\ service.restarts
    /\ exit = "crash" \/ (exit = "failure" /\ service.onExit)
    /\ proc' = [Idle EXCEPT !.by = "service", !.pc = "start"]
    /\ exit' = "none"
    /\ UNCHANGED <<chain, disk, key, service, faults, setups, rebuilds, history>>

\* ensureRecoveryActions, beside the loop.
EnsureActionsOnly ==
    /\ Serving /\ ~proc.checked
    /\ proc' = [proc EXCEPT !.checked = TRUE]
    /\ service' = [service EXCEPT !.restarts = TRUE, !.repaired = TRUE,
                                  !.onExit = IF service.restarts THEN @ ELSE TRUE]
    /\ UNCHANGED <<chain, disk, key, exit, faults, setups, rebuilds, history>>
EnsureRecovery ==
    /\ Serving /\ ~proc.checked
    /\ proc' = [proc EXCEPT !.checked = TRUE]
    /\ service' = [service EXCEPT !.restarts = TRUE, !.onExit = TRUE, !.repaired = TRUE]
    /\ UNCHANGED <<chain, disk, key, exit, faults, setups, rebuilds, history>>

\* A call to the service manager fails: noted, and the agent runs on.
EnsureFails ==
    /\ Serving /\ ~proc.checked /\ Strike("manager")
    /\ proc' = [proc EXCEPT !.checked = TRUE]
    /\ \E actions \in {service.restarts, TRUE} : service' = [service EXCEPT !.restarts = actions]
    /\ UNCHANGED <<chain, disk, key, exit, setups, rebuilds, history>>

\* An admin sets the actions, or takes them away, and not the flag.
Tune ==
    /\ service.registered /\ Strike("manager")
    /\ service' = [service EXCEPT !.restarts = ~@, !.onExit = FALSE, !.repaired = FALSE]
    /\ UNCHANGED <<chain, disk, key, proc, exit, setups, rebuilds, history>>

\* runAgent: openState with no flags, the client, then the clone guard.  A
\* machine with nothing to trust settles it here, as in setup, with nobody to
\* confirm a CA.
OpenAlone(answers) ==
    /\ Serving /\ proc.pc = "start"
    /\ LET opened == Opened(disk, NoFlags, answers) IN
           proc' = IF opened.trust = None THEN Go(proc, "fatal")
                   ELSE Do([proc EXCEPT !.trust = opened.trust], opened.writes, "key", "fatal")
    /\ UNCHANGED <<chain, disk, key, service, exit, faults, setups, rebuilds, history>>

\* A fatal error, and the exit into a new binary, are a clean stop with an
\* error.
ExitFailure ==
    /\ Serving /\ proc.pc \in {"run", "fatal"}
    /\ proc' = Idle /\ exit' = "failure"
    /\ UNCHANGED <<chain, disk, key, service, faults, setups, rebuilds, history>>

Stop ==
    /\ Serving /\ proc.pc # "writing"
    /\ proc' = Idle /\ exit' = "stopped"
    /\ UNCHANGED <<chain, disk, key, service, faults, setups, rebuilds, history>>

Crash ==
    /\ Serving /\ Strike("crash")
    /\ proc' = Idle /\ exit' = "crash"
    /\ UNCHANGED <<chain, disk, key, service, setups, rebuilds, history>>

\* The state directory stays.
Uninstall ==
    /\ service.registered /\ ~Setting /\ proc.pc # "writing"
    /\ service' = NotRegistered /\ proc' = Idle /\ exit' = "none"
    /\ UNCHANGED <<chain, disk, key, faults, setups, rebuilds, history>>

\* A server is rebuilt, on another CA or behind a public certificate.
Rebuild ==
    /\ rebuilds < MaxRebuilds /\ rebuilds' = rebuilds + 1
    /\ \E s \in Servers : \E to \in (Cas \cup {"public"}) \ {chain[s]} :
           chain' = [chain EXCEPT ![s] = to]
    /\ UNCHANGED <<disk, key, proc, service, exit, faults, setups, history>>

Next ==
    \/ \E by \in {"setup", "install"} : Setup(by)
    \/ \E answers \in BOOLEAN : Check(answers) \/ Open(answers) \/ OpenAlone(answers)
    \/ \E offered \in BOOLEAN : EnsureKey(offered)
    \/ \E issued \in BOOLEAN : Enroll(issued)
    \/ Restore \/ Reopen \/ DropStale \/ KeepToken \/ ProtectFails \/ KeyFails
    \/ SetupFails \/ Register \/ Cut
    \/ Write \/ WriteFails
    \/ Start \/ Recover \/ EnsureRecovery \/ EnsureFails \/ Tune
    \/ ExitFailure \/ Stop \/ Crash \/ Uninstall \/ Rebuild

Spec == Init /\ [][Next]_vars

\* The service manager restarts what it is told to restart.
LiveSpec == Spec /\ WF_vars(Recover)

-----------------------------------------------------------------------------
(* What is trusted, and for which server, is what the last setup settled,  *)
(* whatever setups failed since, their own failed writes included, and     *)
(* however often the service started (settleTrust, main.go:1837-1882; the  *)
(* service settles nothing for a machine that has a trust, 189-209).  What *)
(* a new key erases is this machine's store as the trust, never a CA       *)
(* (state.go:277): the service then trusts nothing until it settles the    *)
(* store again.  Exempt is a setup cut, or failing to put things back,     *)
(* half way, or between the two writes of SaveCA: with a CA beside it the  *)
(* store is still what is trusted, until a new key erases the store.       *)
TrustAsSettled == ~Setting /\ ~torn => Held

(* The certificate of a running service was issued under the trust its     *)
(* client verifies the server with, whatever of it is still on disk        *)
(* (main.go:1875-1880), unless a setup settled another trust without       *)
(* having forgotten one: --ca over a trust that verified or could not be   *)
(* checked, or a trust that was lost.                                      *)
CertificateFits ==
    Serving /\ proc.pc = "run" /\ ~torn /\ ~kept => disk.cert \in {None, proc.trust}

(* A token that setup took outlives every failed enrollment, new key,      *)
(* restart and failed write, until a certificate is on disk                *)
(* (main.go:1907-1912, state.go:277).                                      *)
TokenKept == owed /\ proc.pc # "writing" => disk.conf.token

(* Once its restart policy was repaired and nobody took it away, a service *)
(* that crashed, or stopped itself for an update, runs again               *)
(* (service_windows.go:54-131).                                            *)
ComesBack ==
    (service.repaired /\ exit \in {"failure", "crash"})
        ~> (Serving \/ Setting \/ ~service.registered \/ ~service.repaired)
=============================================================================
