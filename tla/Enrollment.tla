----------------------------- MODULE Enrollment -----------------------------
(***************************************************************************)
(* Who the machine is to the server: the key, the identity recorded beside *)
(* it, the certificate issued for it and config.json, which describes the  *)
(* host record that certificate is bound to (internal/enroll/state.go).    *)
(* The disk may be captured as an image and put on another machine, or     *)
(* back on this one, whenever the agent is not running.                    *)
(*                                                                         *)
(* A certificate is the key it was issued for, a machine is its SMBIOS     *)
(* tuple, and a host record is the machine it stands for: machines that    *)
(* share a tuple, and host records edited by hand, are left out.  Of       *)
(* config.json the model keeps the host id, whose facts and revision are   *)
(* recorded, and when the refusals began.  An early return on an error     *)
(* ends the process, like a crash: Stop.  Two saves of config.json in one  *)
(* round with nothing between them are one.  One disk and its image are    *)
(* followed; the other machines are present at the server only.            *)
(***************************************************************************)
EXTENDS Naturals

CONSTANTS
    Machines,   \* machines the disk may be in
    None, Blank,\* no machine; a reading of the firmware that failed
    Features,   \* what the server may answer about the directory features:
                \* "offered", "refused", "down" ("refused" alone off Windows)
    Grace,      \* UnauthorizedGrace
    MaxTime,    \* last moment
    MaxKey,     \* keys made
    MaxFaults   \* disturbances

ASSUME EnrollmentConstants ==
    /\ None \notin Machines /\ Blank \notin Machines /\ None # Blank
    /\ Machines # {}
    /\ Features \subseteq {"offered", "refused", "down"} /\ Features # {}
    /\ Grace \in Nat \ {0}
    /\ {MaxTime, MaxKey, MaxFaults} \subseteq Nat \ {0}

Keys == 1..MaxKey
NoKey == 0
Never == 0
Readings == Machines \union {Blank}

Configs == [host : Machines \union {None}, of : Keys \union {NoKey},
            since : 0..MaxTime]
NoConfig == [host |-> None, of |-> NoKey, since |-> Never]

States == [key : Keys \union {NoKey}, ident : Readings \union {None},
           cert : Keys \union {NoKey}, cfg : Configs]
NoState == [key |-> NoKey, ident |-> None, cert |-> NoKey, cfg |-> NoConfig]

VARIABLES
    machine, disk, image,  \* the machine, its state directory, a captured one
    pc, after, live,       \* the service: its next step, the one after a new key,
                           \* the reading that key is for
    st,                    \* its copy of the state
    on, retry, verified,   \* directoryOn, directoryRetry, the reading verified
    hand, copy,            \* `fog-agent renew`: its next step, its copy
    bound, owner, made,    \* keys the server accepts, the host each stands for,
                           \* how many were made
    clock, faults,
    blind,                 \* the clone guard of this start could not read
    unvouched,             \* keys approved beside the identity of another machine,
                           \* which takes readings that failed
    torn,                  \* the disk is half reset, or a stale copy was written
    refused                \* first unexplained refusal since the last recorded success

machines == <<machine, disk, image>>
service == <<pc, after, live, st, on, retry, verified, blind>>
renewer == <<hand, copy>>
server == <<bound, owner, made, unvouched>>
vars == <<machines, service, renewer, server, clock, faults, torn, refused>>

Lines == {"off", "start", "guard", "key", "ident", "cert", "config", "loop", "body",
          "enroll", "issued", "saved", "check", "poll", "applied", "drop", "dropped"}

TypeOK ==
    /\ machine \in Machines
    /\ disk \in States /\ image \in States
    /\ pc \in Lines /\ after \in {"body", "enroll", "loop"}
    /\ live \in Readings \union {None}
    /\ st \in States
    /\ on \in BOOLEAN /\ retry \in BOOLEAN /\ verified \in Readings \union {None}
    /\ hand \in {"idle", "asking", "issued", "saved"} /\ copy \in States
    /\ bound \subseteq Keys /\ owner \in [Keys -> Machines \union {None}]
    /\ made \in 0..MaxKey
    /\ clock \in 1..MaxTime /\ faults \in 0..MaxFaults
    /\ blind \in BOOLEAN /\ unvouched \subseteq Keys /\ torn \in BOOLEAN
    /\ refused \in 0..MaxTime

Init ==
    /\ machine \in Machines /\ disk = NoState /\ image = NoState
    /\ pc = "off" /\ after = "body" /\ live = None /\ st = NoState
    /\ on = FALSE /\ retry = FALSE /\ verified = None /\ blind = FALSE
    /\ hand = "idle" /\ copy = NoState
    /\ bound = {} /\ owner = [k \in Keys |-> None] /\ made = 0
    /\ clock = 1 /\ faults = 0 /\ unvouched = {} /\ torn = FALSE
    /\ refused = Never

-----------------------------------------------------------------------------
(* The clone guard.                                                        *)

SameMachine(a, b) == a = b
Unreadable(reading) == reading = Blank

\* (Broken variants: no guard with a certificate; a failed reading is a clone.)
KeepsCertifiedKey(s, reading) ==
    s.key # NoKey /\ (s.cert # NoKey \/ SameMachine(s.ident, reading) \/ Unreadable(reading))
KeepsIfSame(s, reading) == s.key # NoKey /\ SameMachine(s.ident, reading)

KeepsKey(s, reading) ==
    /\ s.key # NoKey /\ s.ident # None
    /\ SameMachine(s.ident, reading) \/ Unreadable(reading)

\* A disturbance is one of the MaxFaults.
Fault == faults < MaxFaults /\ faults' = faults + 1

\* A reading names the machine, unless the firmware call failed.
Read(reading) ==
    \/ reading = machine /\ UNCHANGED faults
    \/ reading = Blank /\ Fault

\* Go on with p once the key is settled for the reading.
EnsureKey(s, reading, p) ==
    /\ st' = s
    /\ \/ KeepsKey(s, reading) /\ pc' = p /\ UNCHANGED <<after, live>>
       \/ ~KeepsKey(s, reading) /\ pc' = "key" /\ after' = p /\ live' = reading

RotateIdentity(reading, p) == EnsureKey([st EXCEPT !.ident = None], reading, p)

WriteKey ==
    /\ pc = "key" /\ made < MaxKey
    /\ made' = made + 1
    /\ disk' = [disk EXCEPT !.key = made']
    /\ pc' = "ident"
    /\ UNCHANGED <<machine, image, after, live, st, on, retry, verified, blind, renewer,
                   bound, owner, unvouched, clock, faults, torn, refused>>

WriteIdentity ==
    /\ pc = "ident"
    /\ disk' = [disk EXCEPT !.ident = live]
    /\ pc' = "cert"
    /\ UNCHANGED <<machine, image, after, live, st, on, retry, verified, blind, renewer,
                   server, clock, faults, torn, refused>>

\* The removal may fail, which nobody hears of.
RemoveCertificate ==
    /\ pc = "cert" /\ pc' = "config"
    /\ \/ disk' = [disk EXCEPT !.cert = NoKey] /\ UNCHANGED faults
       \/ disk.cert # NoKey /\ Fault /\ UNCHANGED disk
    /\ UNCHANGED <<machine, image, after, live, st, on, retry, verified, blind, renewer,
                   server, clock, torn, refused>>

\* (A broken variant: a new key keeps config.json.)
ResetNothing(cfg) == cfg

\* What a new key leaves of config.json.
Reset(cfg) == NoConfig

ResetConfig ==
    /\ pc = "config"
    /\ st' = [key |-> made, ident |-> live, cert |-> NoKey, cfg |-> Reset(st.cfg)]
    /\ disk' = [disk EXCEPT !.cfg = st'.cfg]
    /\ torn' = (disk.cert # NoKey)
    /\ pc' = after /\ after' = "body" /\ live' = None
    /\ UNCHANGED <<machine, image, on, retry, verified, blind, renewer, server, clock,
                   faults, refused>>

NewKey == WriteKey \/ WriteIdentity \/ RemoveCertificate \/ ResetConfig

-----------------------------------------------------------------------------
(* The server's identity check, and what a start makes of it.              *)

\* A certificate presented with another key fails the handshake.
Presentable(s) == s.cert = s.key

\* The server places the machine by the reading and the network cards; it may be
\* unable to say, or out of reach.
CheckIdentity(s) ==
    {"unsure"} \union
    IF Presentable(s) /\ s.key \in bound
    THEN {IF owner[s.key] = machine THEN "matched" ELSE "mismatch"}
    ELSE {}

Off(again, p) ==
    /\ on' = FALSE /\ retry' = again /\ pc' = p
    /\ UNCHANGED <<disk, after, live, st, faults>>

\* The saved host id, if there is one, has to be the server's.
HostAgrees == st.cfg.host \in {None, owner[st.key]}

Remember(reading) ==
    /\ st' = [st EXCEPT !.ident = reading, !.cfg.host = owner[st.key]]
    /\ disk' = [disk EXCEPT !.ident = reading, !.cfg = st'.cfg]
    /\ pc' = "body"
    /\ UNCHANGED <<after, live>>

Settle(reading) ==
    \/ /\ st.cert = NoKey
       /\ EnsureKey(st, reading, "body")
       /\ disk' = IF KeepsKey(st, reading) THEN [disk EXCEPT !.cfg = st.cfg] ELSE disk
    \/ /\ st.cert # NoKey
       /\ \/ /\ "mismatch" \in CheckIdentity(st)
             /\ RotateIdentity(reading, "body")
             /\ UNCHANGED disk
          \/ "matched" \in CheckIdentity(st) /\ HostAgrees /\ Remember(reading)

\* off is where a process goes on that leaves the feature off.
PrepareDirectoryIdentity(off) ==
    \/ "refused" \in Features /\ Off(FALSE, off)
    \/ "down" \in Features /\ Off(TRUE, off)
    \/ /\ "offered" \in Features
       /\ \/ \E reading \in Readings :
                Read(reading) /\ Settle(reading) /\ on' = TRUE /\ retry' = FALSE
          \/ st.cert # NoKey /\ Off(TRUE, off)
          \/ st.cert # NoKey /\ "matched" \in CheckIdentity(st) /\ ~HostAgrees
             /\ Off(FALSE, off)

Start ==
    /\ pc = "off"
    /\ pc' = "start" /\ st' = disk
    /\ UNCHANGED <<machines, after, live, on, retry, verified, blind, renewer, server,
                   clock, faults, torn, refused>>

Prepare ==
    /\ pc = "start"
    /\ PrepareDirectoryIdentity("guard")
    /\ UNCHANGED <<machine, image, verified, blind, renewer, server, clock, torn, refused>>

LocalCloneGuard ==
    /\ pc = "guard"
    /\ \E reading \in Readings :
          /\ Read(reading)
          /\ EnsureKey(st, reading, "body")
          /\ blind' = Unreadable(reading)
    /\ UNCHANGED <<machines, on, retry, verified, renewer, server, clock, torn, refused>>

\* The next round; a server that could not be asked is asked again.
Round ==
    /\ pc = "loop"
    /\ \/ ~on /\ retry /\ PrepareDirectoryIdentity("body")
          /\ verified' = IF on' THEN None ELSE verified
       \/ /\ ~(~on /\ retry)
          /\ pc' = "body"
          /\ UNCHANGED <<disk, after, live, st, on, retry, verified, faults>>
    /\ UNCHANGED <<machine, image, blind, renewer, server, clock, torn, refused>>

-----------------------------------------------------------------------------
(* Enrolling.                                                              *)

EnrollRequest ==
    /\ pc = "body" /\ st.cert = NoKey
    /\ \E reading \in Readings : Read(reading) /\ EnsureKey(st, reading, "enroll")
    /\ UNCHANGED <<machines, on, retry, verified, blind, renewer, server, clock, torn, refused>>

\* Approval binds the key to this machine's host record and revokes another.
Issue ==
    /\ pc = "enroll"
    /\ bound' = {k \in bound : owner[k] # machine} \union {st.key}
    /\ owner' = [owner EXCEPT ![st.key] = machine]
    /\ unvouched' = IF st.ident \in {machine, Blank} THEN unvouched
                                                    ELSE unvouched \union {st.key}
    /\ pc' = "issued" /\ after' = "body"
    /\ UNCHANGED <<machines, live, st, on, retry, verified, blind, renewer, made, clock,
                   faults, torn, refused>>

SaveIssued ==
    \/ /\ pc = "issued"
       /\ disk' = [disk EXCEPT !.cert = st.key]
       /\ st' = [st EXCEPT !.cert = st.key, !.cfg.host = owner[st.key]]
       /\ pc' = "saved"
       /\ UNCHANGED after
    \/ /\ pc = "saved"
       /\ disk' = [disk EXCEPT !.cfg = st.cfg]
       /\ pc' = after /\ after' = "body"
       /\ UNCHANGED st

Save ==
    /\ SaveIssued
    /\ UNCHANGED <<machine, image, live, on, retry, verified, blind, renewer, server,
                   clock, faults, torn, refused>>

Enroll == EnrollRequest \/ Issue \/ Save

-----------------------------------------------------------------------------
(* Polling.                                                                *)

UseCertificate ==
    /\ pc = "body" /\ st.cert # NoKey
    /\ pc' = IF on THEN "check" ELSE "poll"
    /\ UNCHANGED <<machines, after, live, st, on, retry, verified, blind, renewer,
                   server, clock, faults, torn, refused>>

Check ==
    /\ pc = "check"
    /\ \E reading \in Readings :
          /\ Read(reading)
          /\ \/ /\ reading = verified \/ "matched" \in CheckIdentity(st)
                /\ verified' = reading /\ pc' = "poll"
                /\ UNCHANGED <<after, live, st, on, retry>>
             \/ /\ reading # verified
                /\ on' = FALSE /\ retry' = TRUE /\ pc' = "poll"
                /\ UNCHANGED <<after, live, st, verified>>
             \/ /\ reading # verified /\ "mismatch" \in CheckIdentity(st)
                /\ RotateIdentity(reading, "body")
                /\ verified' = None
                /\ UNCHANGED <<on, retry>>
    /\ UNCHANGED <<machines, blind, renewer, server, clock, torn, refused>>

PollAccepted ==
    /\ pc = "poll" /\ Presentable(st) /\ st.key \in bound
    /\ pc' = "applied"
    /\ UNCHANGED <<machines, after, live, st, on, retry, verified, blind, renewer,
                   server, clock, faults, torn, refused>>

PollFails ==
    /\ pc = "poll" /\ pc' = "loop"
    /\ UNCHANGED <<machines, after, live, st, on, retry, verified, blind, renewer,
                   server, clock, faults, torn, refused>>

\* (A broken variant: the certificate is kept.)
PollUnknownKept ==
    /\ pc = "poll" /\ Presentable(st) /\ st.key \notin bound
    /\ pc' = "loop"
    /\ UNCHANGED <<machines, after, live, st, on, retry, verified, blind, renewer,
                   server, clock, faults, torn, refused>>

PollUnknown ==
    /\ pc = "poll" /\ Presentable(st) /\ st.key \notin bound
    /\ pc' = "drop"
    /\ UNCHANGED <<machines, after, live, st, on, retry, verified, blind, renewer,
                   server, clock, faults, torn, refused>>

\* (A broken variant: a success does not end the refusals.)
RecordedOnly(s) == [s EXCEPT !.cfg.of = s.key]

\* What the agent did of the desired state, and whose facts it sent, is this key's;
\* the refusals are over.
Recorded(s) == [s EXCEPT !.cfg.of = s.key, !.cfg.since = Never]

Applied ==
    /\ pc = "applied" /\ pc' = "loop"
    /\ st' = Recorded(st)
    /\ \/ disk' = [disk EXCEPT !.cfg = st'.cfg] /\ UNCHANGED faults
          /\ refused' = Never
       \/ Fault /\ UNCHANGED <<disk, refused>>
    /\ UNCHANGED <<machine, image, after, live, on, retry, verified, blind, renewer,
                   server, clock, torn>>

\* A renewal binds nothing new.
Renew ==
    /\ pc = "applied"
    /\ st' = Recorded(st)
    /\ disk' = [disk EXCEPT !.cfg = st'.cfg]
    /\ refused' = Never
    /\ pc' = IF st.key \in bound THEN "issued" ELSE "loop"
    /\ after' = "loop"
    /\ UNCHANGED <<machine, image, live, on, retry, verified, blind, renewer, server,
                   clock, faults, torn>>

First(t) == IF t = Never THEN clock ELSE t

UnauthorizedSince(cfg) == First(cfg.since)

UnauthorizedTooLong(cfg) == clock - UnauthorizedSince(cfg) >= Grace

\* A refusal that does not name the certificate.
PollRefused ==
    /\ pc = "poll"
    /\ st' = [st EXCEPT !.cfg.since = UnauthorizedSince(st.cfg)]
    /\ disk' = IF st.cfg.since = Never THEN [disk EXCEPT !.cfg = st'.cfg] ELSE disk
    /\ refused' = First(refused)
    /\ pc' = IF UnauthorizedTooLong(st.cfg) THEN "drop" ELSE "loop"
    /\ UNCHANGED <<machine, image, after, live, on, retry, verified, blind, renewer,
                   server, clock, faults, torn>>

DropIssued ==
    /\ \/ /\ pc = "drop" /\ pc' = "dropped"
          /\ disk' = [disk EXCEPT !.cert = NoKey]
          /\ UNCHANGED st
       \/ /\ pc = "dropped" /\ pc' = "loop"
          /\ st' = [st EXCEPT !.cert = NoKey, !.cfg.host = None]
          /\ disk' = [disk EXCEPT !.cfg = st'.cfg]
    /\ UNCHANGED <<machine, image, after, live, on, retry, verified, blind, renewer,
                   server, clock, faults, torn, refused>>

Poll == UseCertificate \/ Check \/ PollAccepted \/ PollFails \/ PollUnknown
        \/ PollRefused \/ Applied \/ Renew \/ DropIssued

-----------------------------------------------------------------------------
(* `fog-agent renew` beside the service.                                   *)

RenewByHand ==
    /\ hand = "idle" /\ disk.cert # NoKey /\ Fault
    /\ hand' = "asking" /\ copy' = disk
    /\ UNCHANGED <<machines, service, server, clock, torn, refused>>

\* An identity check that says mismatch stops it; one that cannot say does not.
RenewAnswered ==
    /\ hand = "asking"
    /\ \/ /\ hand' = "issued" /\ UNCHANGED copy
          /\ Presentable(copy) /\ copy.key \in bound
       \/ hand' = "idle" /\ copy' = NoState
    /\ UNCHANGED <<machines, service, server, clock, faults, torn, refused>>

RenewSaved ==
    /\ \/ /\ hand = "issued" /\ hand' = "saved"
          /\ disk' = [disk EXCEPT !.cert = copy.key]
          /\ copy' = [copy EXCEPT !.cfg.host = owner[copy.key]]
          /\ torn' = (torn \/ disk.key # copy.key)
       \/ /\ hand = "saved" /\ hand' = "idle"
          /\ disk' = [disk EXCEPT !.cfg = copy.cfg]
          /\ copy' = NoState
          /\ torn' = (torn \/ [disk.cfg EXCEPT !.host = None]
                              # [copy.cfg EXCEPT !.host = None])
    /\ UNCHANGED <<machine, image, service, server, clock, faults, refused>>

Renewer == RenewByHand \/ RenewAnswered \/ RenewSaved

-----------------------------------------------------------------------------
(* The machine, the server and time.                                       *)

\* A crash, or an exit on an error; between rounds, an ordinary shutdown.
Stop ==
    /\ pc # "off"
    /\ \/ pc = "loop" /\ UNCHANGED faults
       \/ pc # "loop" /\ Fault
    /\ pc' = "off" /\ after' = "body" /\ live' = None /\ st' = NoState
    /\ on' = FALSE /\ retry' = FALSE /\ verified' = None /\ blind' = FALSE
    /\ torn' = (torn \/ pc \in {"ident", "cert", "config"})
    /\ UNCHANGED <<machines, renewer, server, clock, refused>>

Idle == pc = "off" /\ hand = "idle"

Capture ==
    /\ Idle /\ Fault
    /\ image = NoState /\ ~torn
    /\ image' = disk
    /\ UNCHANGED <<machine, disk, service, renewer, server, clock, torn, refused>>

Deploy ==
    /\ Idle /\ image # NoState
    /\ machine' \in Machines
    /\ disk' = image /\ image' = NoState /\ torn' = FALSE
    /\ refused' = image.cfg.since
    /\ UNCHANGED <<service, renewer, server, clock, faults>>

\* The host is deleted, or enrolled from elsewhere.
Revoke ==
    /\ Fault
    /\ \E k \in bound : bound' = bound \ {k}
    /\ UNCHANGED <<machines, service, renewer, owner, made, unvouched, clock, torn, refused>>

\* Only a refusal reads the clock: between rounds is soon enough for it to move.
Tick ==
    /\ pc \in {"off", "loop"} /\ clock < MaxTime
    /\ clock' = clock + 1
    /\ UNCHANGED <<machines, service, renewer, server, faults, torn, refused>>

Agent == Start \/ Prepare \/ LocalCloneGuard \/ Round \/ NewKey \/ Enroll \/ Poll
World == Stop \/ Capture \/ Deploy \/ Revoke \/ Tick

Next == Agent \/ Renewer \/ World

Spec == Init /\ [][Next]_vars

\* The agent goes on, and a server that is asked again and again answers in the end.
Fairness == WF_vars(Agent) /\ SF_vars(Issue) /\ SF_vars(PollAccepted \/ PollUnknown)

LiveSpec == Spec /\ Fairness

-----------------------------------------------------------------------------
(* Properties.                                                             *)

\* 0001-architecture.md 4.4 and state.go:239: no poll is served as another machine,
\* whatever state directory was put on this one, unless the firmware could not be
\* read when the clone guard looked, or when the key was enrolled under the identity
\* of the machine before.
NotAsAnother ==
    pc = "applied" => blind \/ st.key \in unvouched \/ owner[st.key] = machine

\* state.go:246-250: what the server is told is applied or sent already was applied
\* or sent by the key that says so, and the certificate is that key's; unless the
\* reset of the state was cut short or a stale copy was written over it.
OwnState ==
    pc \in {"check", "poll"} =>
        torn \/ (Presentable(st) /\ st.cfg.of \in {NoKey, st.key})

\* An enrollment that works, on the machine it was made for.
Enrolled ==
    /\ disk.ident = machine
    /\ disk.cert = disk.key /\ disk.key \in bound /\ owner[disk.key] = machine

\* state.go:296: it is never replaced by a new key, which an admin would have to
\* approve: no failed reading, restart, refusal or outage does that.
KeepsEnrollment == [][Enrolled /\ pc = "key" => disk'.key = disk.key]_vars

\* facts.go:204: a certificate the server still knows is dropped only after it has
\* refused the agent for UnauthorizedGrace without a success in between, through
\* restarts, other errors and new certificates.
GraceKept ==
    [][pc = "poll" /\ pc' = "drop" /\ st.key \in bound /\ ~torn
         => clock - refused' >= Grace]_vars

\* Whatever was deployed, revoked, refused or cut off, a poll gets through again in
\* the end, unless the disk stays half reset.
GetsThrough == []<>(pc = "applied" \/ torn)

=============================================================================
