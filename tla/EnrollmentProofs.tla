--------------------------- MODULE EnrollmentProofs ---------------------------
(***************************************************************************)
(* What Enrollment's checks show on small instances, for every set of      *)
(* machines and every bound: the types, that no poll is served as another  *)
(* machine, that what a poll says is its key's own, that a working         *)
(* enrollment is kept, and the grace of a refused certificate.             *)
(*                                                                         *)
(* The steps are first described field by field (the lemmas named Moves);  *)
(* the invariant EInv then speaks of fields only.                          *)
(***************************************************************************)
EXTENDS Enrollment, TLAPS

\* What a step relies on besides the types.
Keyed ==
    /\ pc \in {"enroll", "applied", "issued", "saved"} => st.key # NoKey
    /\ pc \in {"ident", "cert", "config"} => made # 0
    /\ hand = "issued" => copy.key # NoKey

Typed == TypeOK /\ Keyed

\* What the constants are, as the provers need it.
LEMMA Constants ==
    /\ MaxKey \in Nat /\ MaxTime \in Nat /\ MaxFaults \in Nat /\ Grace \in Nat
    /\ 0 < MaxTime /\ 0 < MaxKey
    /\ None \notin Machines /\ Blank \notin Machines /\ None # Blank
    /\ NoKey = 0 /\ Never = 0 /\ Keys = 1..MaxKey
  BY EnrollmentConstants DEF NoKey, Never, Keys

-----------------------------------------------------------------------------
\* A state, field by field.
Is(s, k, i, c, h, o, t) ==
    /\ s \in States
    /\ s.key = k /\ s.ident = i /\ s.cert = c
    /\ s.cfg.host = h /\ s.cfg.of = o /\ s.cfg.since = t
Same(t, s) == Is(t, s.key, s.ident, s.cert, s.cfg.host, s.cfg.of, s.cfg.since)

\* The fields of a state.
LEMMA Fields ==
    ASSUME NEW s \in States
    PROVE  /\ s.key \in Keys \union {NoKey} /\ s.ident \in Readings \union {None}
           /\ s.cert \in Keys \union {NoKey} /\ s.cfg \in Configs
           /\ s.cfg.host \in Machines \union {None} /\ s.cfg.of \in Keys \union {NoKey}
           /\ s.cfg.since \in 0..MaxTime
           /\ Same(s, s)
  BY DEF States, Configs, Same, Is

\* An empty directory.
LEMMA Nothing ==
    /\ NoConfig \in Configs
    /\ NoConfig.host = None /\ NoConfig.of = NoKey /\ NoConfig.since = Never
    /\ Is(NoState, NoKey, None, NoKey, None, NoKey, Never)
  BY Constants DEF NoConfig, NoState, Configs, States, Is

\* A state with another key, or another certificate.
LEMMA WithKey ==
    ASSUME NEW s \in States, NEW k \in Keys \union {NoKey}
    PROVE  /\ Is([s EXCEPT !.key = k], k, s.ident, s.cert, s.cfg.host, s.cfg.of, s.cfg.since)
           /\ Is([s EXCEPT !.cert = k], s.key, s.ident, k, s.cfg.host, s.cfg.of, s.cfg.since)
  BY DEF States, Is

\* A state with another identity.
LEMMA WithIdentity ==
    ASSUME NEW s \in States, NEW i \in Readings \union {None}
    PROVE  Is([s EXCEPT !.ident = i], s.key, i, s.cert, s.cfg.host, s.cfg.of, s.cfg.since)
  BY DEF States, Is

\* A state with another config.json.
LEMMA WithConfig ==
    ASSUME NEW s \in States, NEW f \in Configs
    PROVE  Is([s EXCEPT !.cfg = f], s.key, s.ident, s.cert, f.host, f.of, f.since)
  BY DEF States, Is

\* A state with another host id.
LEMMA WithHost ==
    ASSUME NEW s \in States, NEW h \in Machines \union {None}
    PROVE  Is([s EXCEPT !.cfg.host = h], s.key, s.ident, s.cert, h, s.cfg.of, s.cfg.since)
  BY DEF States, Configs, Is

\* A state with another start of the refusals.
LEMMA WithSince ==
    ASSUME NEW s \in States, NEW t \in 0..MaxTime
    PROVE  Is([s EXCEPT !.cfg.since = t], s.key, s.ident, s.cert, s.cfg.host, s.cfg.of, t)
  BY DEF States, Configs, Is

\* What a success records.
LEMMA RecordedIs ==
    ASSUME NEW s \in States
    PROVE  Is(Recorded(s), s.key, s.ident, s.cert, s.cfg.host, s.key, Never)
<1>0. Never \in 0..MaxTime /\ s.key \in Keys \union {NoKey}
  BY Constants DEF States
<1>1. Recorded(s).key = s.key /\ Recorded(s).ident = s.ident /\ Recorded(s).cert = s.cert
  BY DEF Recorded, States
<1>2. Recorded(s).cfg = [s.cfg EXCEPT !.of = s.key, !.since = Never]
  BY DEF Recorded, States
<1>3. Recorded(s) \in States
  BY <1>0 DEF States, Recorded, Configs
<1>4. /\ Recorded(s).cfg.host = s.cfg.host /\ Recorded(s).cfg.of = s.key
      /\ Recorded(s).cfg.since = Never
  BY <1>2 DEF Configs, States
<1> QED
  BY <1>1, <1>3, <1>4 DEF Is

\* RememberIdentity, in memory.
LEMMA WithIdentityAndHost ==
    ASSUME NEW s \in States, NEW i \in Readings \union {None}, NEW h \in Machines \union {None}
    PROVE  Is([s EXCEPT !.ident = i, !.cfg.host = h],
              s.key, i, s.cert, h, s.cfg.of, s.cfg.since)
  BY DEF States, Configs, Is

\* RememberIdentity, on disk.
LEMMA WithIdentityAndConfig ==
    ASSUME NEW s \in States, NEW i \in Readings \union {None}, NEW f \in Configs
    PROVE  Is([s EXCEPT !.ident = i, !.cfg = f], s.key, i, s.cert, f.host, f.of, f.since)
  BY DEF States, Is

\* SaveIssued and DropIssued, in memory.
LEMMA WithCertAndHost ==
    ASSUME NEW s \in States, NEW k \in Keys \union {NoKey}, NEW h \in Machines \union {None}
    PROVE  Is([s EXCEPT !.cert = k, !.cfg.host = h], s.key, s.ident, k, h, s.cfg.of, s.cfg.since)
  BY DEF States, Configs, Is

-----------------------------------------------------------------------------
(* What the steps do to the states, field by field.                        *)

\* The four states there are.
LEMMA Both ==
    ASSUME TypeOK
    PROVE  disk \in States /\ image \in States /\ st \in States /\ copy \in States
  BY DEF TypeOK

\* A key stands for a machine, or for none.
LEMMA OwnerTyped ==
    ASSUME TypeOK, NEW k \in Keys
    PROVE  owner[k] \in Machines \union {None}
  BY DEF TypeOK

\* EnsureKey writes a key that was not there before.
LEMMA WriteKeyMoves ==
    ASSUME TypeOK, WriteKey
    PROVE  /\ made' = made + 1 /\ made' \in Keys
           /\ Is(disk', made', disk.ident, disk.cert, disk.cfg.host, disk.cfg.of, disk.cfg.since)
<1>1. made' = made + 1 /\ made' \in Keys
  BY Constants DEF TypeOK, WriteKey
<1> QED
  BY <1>1, Both, WithKey DEF WriteKey

\* It writes the reading the key is for.
LEMMA WriteIdentityMoves ==
    ASSUME TypeOK, WriteIdentity
    PROVE  Is(disk', disk.key, live, disk.cert, disk.cfg.host, disk.cfg.of, disk.cfg.since)
<1>1. live \in Readings \union {None}
  BY DEF TypeOK
<1> QED
  BY <1>1, Both, WithIdentity DEF WriteIdentity

\* It removes the certificate, or fails to.
LEMMA RemoveCertificateMoves ==
    ASSUME TypeOK, RemoveCertificate
    PROVE  /\ \E c \in {NoKey, disk.cert} :
                 Is(disk', disk.key, disk.ident, c, disk.cfg.host, disk.cfg.of, disk.cfg.since)
           /\ faults' \in 0..MaxFaults
<1>1. NoKey \in Keys \union {NoKey}
  OBVIOUS
<1>2. Is([disk EXCEPT !.cert = NoKey], disk.key, disk.ident, NoKey, disk.cfg.host,
         disk.cfg.of, disk.cfg.since)
  BY <1>1, Both, WithKey
<1>3. Is(disk, disk.key, disk.ident, disk.cert, disk.cfg.host, disk.cfg.of, disk.cfg.since)
  BY Both, Fields DEF Same
<1>4. faults' \in 0..MaxFaults
  BY Constants DEF TypeOK, RemoveCertificate, Fault
<1> QED
  BY <1>2, <1>3, <1>4 DEF RemoveCertificate

\* It resets config.json and takes the new key.
LEMMA ResetConfigMoves ==
    ASSUME TypeOK, ResetConfig, made # 0
    PROVE  /\ Is(st', made, live, NoKey, None, NoKey, Never)
           /\ Is(disk', disk.key, disk.ident, disk.cert, None, NoKey, Never)
<1>1. made \in Keys
  BY Constants DEF TypeOK
<1>2. live \in Readings \union {None}
  BY DEF TypeOK
<1>3. st' = [key |-> made, ident |-> live, cert |-> NoKey, cfg |-> NoConfig]
  BY DEF ResetConfig, Reset
<1>4. Is(st', made, live, NoKey, None, NoKey, Never)
  BY <1>1, <1>2, <1>3, Nothing DEF Is, States
<1>5. disk' = [disk EXCEPT !.cfg = NoConfig]
  BY <1>3 DEF ResetConfig
<1>6. Is(disk', disk.key, disk.ident, disk.cert, None, NoKey, Never)
  BY <1>5, Both, Nothing, WithConfig
<1> QED
  BY <1>4, <1>6

\* A new key is to be made, and the process goes on with p.
Rekeys(p) ==
    /\ pc' = "key" /\ after' = p /\ live' \in {machine, Blank}
    /\ \E i \in {st.ident, None} :
          Is(st', st.key, i, st.cert, st.cfg.host, st.cfg.of, st.cfg.since)
    /\ st.key = NoKey \/ st.ident # machine \/ owner[st.key] # machine

\* A reading is of this machine, or failed.
LEMMA ReadMoves ==
    ASSUME TypeOK, NEW reading, Read(reading)
    PROVE  reading \in {machine, Blank} /\ faults' \in 0..MaxFaults
  BY Constants DEF TypeOK, Read, Fault

\* EnsureKey keeps the key there is, or makes one.
LEMMA EnsureMoves ==
    ASSUME TypeOK, NEW reading, Read(reading), NEW p, EnsureKey(st, reading, p)
    PROVE  \/ /\ pc' = p /\ UNCHANGED <<after, live, st>>
              /\ st.key # NoKey /\ st.ident # None
              /\ st.ident = machine \/ reading = Blank
           \/ Rekeys(p) /\ st' = st /\ ~KeepsKey(st, reading)
<1>1. reading \in {machine, Blank}
  BY ReadMoves
<1>2. Is(st, st.key, st.ident, st.cert, st.cfg.host, st.cfg.of, st.cfg.since)
  BY Both, Fields DEF Same
<1>3. machine # Blank /\ machine # None
  BY Constants DEF TypeOK
<1>4. CASE KeepsKey(st, reading) /\ pc' = p /\ UNCHANGED <<after, live>>
  BY <1>1, <1>4 DEF EnsureKey, KeepsKey, SameMachine, Unreadable
<1>5. CASE ~KeepsKey(st, reading) /\ pc' = "key" /\ after' = p /\ live' = reading
  <2>1. st' = st
    BY DEF EnsureKey
  <2>2. st.key = NoKey \/ st.ident # machine
    BY <1>1, <1>3, <1>5 DEF KeepsKey, SameMachine, Unreadable
  <2> QED
    BY <1>1, <1>2, <1>5, <2>1, <2>2 DEF Rekeys
<1> QED
  BY <1>4, <1>5 DEF EnsureKey

\* RotateIdentity always makes one.
LEMMA RotateMoves ==
    ASSUME TypeOK, NEW reading, Read(reading), NEW p, RotateIdentity(reading, p),
           "mismatch" \in CheckIdentity(st)
    PROVE  Rekeys(p)
<1> DEFINE s == [st EXCEPT !.ident = None]
<1>1. reading \in {machine, Blank}
  BY ReadMoves
<1>2. Is(s, st.key, None, st.cert, st.cfg.host, st.cfg.of, st.cfg.since)
  BY Both, WithIdentity
<1>3. EnsureKey(s, reading, p)
  BY DEF RotateIdentity
<1>4. ~KeepsKey(s, reading)
  BY <1>2 DEF KeepsKey, Is
<1>5. st' = s /\ pc' = "key" /\ after' = p /\ live' = reading
  BY <1>3, <1>4 DEF EnsureKey
<1>6. owner[st.key] # machine
  BY DEF CheckIdentity
<1> QED
  BY <1>1, <1>2, <1>5, <1>6 DEF Rekeys

\* The server places a machine only by a certificate it knows.
LEMMA Matched ==
    ASSUME TypeOK, "matched" \in CheckIdentity(st)
    PROVE  st.cert = st.key /\ st.key \in bound /\ st.key \in Keys /\ owner[st.key] = machine
  BY DEF CheckIdentity, Presentable, TypeOK

\* The identity was settled for the directory feature with the key there was.
Settles ==
    /\ UNCHANGED <<after, live, st>> /\ pc' = "body"
    /\ st.cert = NoKey
    /\ Is(disk', disk.key, disk.ident, disk.cert, st.cfg.host, st.cfg.of, st.cfg.since)
Remembers ==
    /\ UNCHANGED <<after, live>> /\ pc' = "body"
    /\ st.cert = st.key /\ st.key \in Keys /\ owner[st.key] = machine
    /\ \E reading \in {machine, Blank} :
          /\ Is(st', st.key, reading, st.cert, machine, st.cfg.of, st.cfg.since)
          /\ Is(disk', disk.key, reading, disk.cert, machine, st.cfg.of, st.cfg.since)

\* The server agreed about the machine.
LEMMA RememberMoves ==
    ASSUME TypeOK, NEW reading, Read(reading), Remember(reading),
           "matched" \in CheckIdentity(st)
    PROVE  Remembers
<1>1. reading \in {machine, Blank} /\ reading \in Readings \union {None}
  BY ReadMoves DEF Readings, TypeOK
<1>2. /\ st.cert = st.key /\ st.key \in Keys /\ owner[st.key] = machine
      /\ machine \in Machines \union {None}
  BY Matched DEF TypeOK
<1>3. st' = [st EXCEPT !.ident = reading, !.cfg.host = machine]
  BY <1>2 DEF Remember
<1>4. Is(st', st.key, reading, st.cert, machine, st.cfg.of, st.cfg.since)
  BY <1>1, <1>2, <1>3, Both, WithIdentityAndHost
<1>5. disk' = [disk EXCEPT !.ident = reading, !.cfg = st'.cfg]
  BY DEF Remember
<1>6. st'.cfg \in Configs
  BY <1>4, Fields DEF Is
<1>7. Is(disk', disk.key, reading, disk.cert, st'.cfg.host, st'.cfg.of, st'.cfg.since)
  BY <1>1, <1>5, <1>6, Both, WithIdentityAndConfig
<1>8. Is(disk', disk.key, reading, disk.cert, machine, st.cfg.of, st.cfg.since)
  BY <1>4, <1>7 DEF Is
<1> QED
  BY <1>1, <1>2, <1>4, <1>8 DEF Remembers, Remember

\* The four ways out of the settling of the directory feature.
LEMMA PrepareMoves ==
    ASSUME TypeOK, NEW p, PrepareDirectoryIdentity(p)
    PROVE  /\ on' \in BOOLEAN /\ retry' \in BOOLEAN /\ faults' \in 0..MaxFaults
           /\ \/ pc' = p /\ UNCHANGED <<disk, after, live, st>>
              \/ Settles
              \/ Rekeys("body") /\ UNCHANGED disk
              \/ Remembers
<1>1. ASSUME NEW again \in BOOLEAN, Off(again, p)
      PROVE  /\ on' \in BOOLEAN /\ retry' \in BOOLEAN /\ faults' \in 0..MaxFaults
             /\ pc' = p /\ UNCHANGED <<disk, after, live, st>>
  BY <1>1 DEF Off, TypeOK
<1>2. ASSUME NEW reading \in Readings, Read(reading), Settle(reading),
             on' = TRUE, retry' = FALSE
      PROVE  /\ on' \in BOOLEAN /\ retry' \in BOOLEAN /\ faults' \in 0..MaxFaults
             /\ Settles \/ (Rekeys("body") /\ UNCHANGED disk) \/ Remembers
  <2>1. on' \in BOOLEAN /\ retry' \in BOOLEAN /\ faults' \in 0..MaxFaults
    BY <1>2, ReadMoves
  <2>2. CASE st.cert = NoKey /\ EnsureKey(st, reading, "body") /\ KeepsKey(st, reading)
             /\ disk' = [disk EXCEPT !.cfg = st.cfg]
    <3>1. st.cfg \in Configs
      BY Both, Fields
    <3>2. Is(disk', disk.key, disk.ident, disk.cert, st.cfg.host, st.cfg.of, st.cfg.since)
      BY <2>2, <3>1, Both, WithConfig
    <3>3. UNCHANGED <<after, live, st>> /\ pc' = "body"
      BY <2>2 DEF EnsureKey
    <3> QED
      BY <2>1, <2>2, <3>2, <3>3 DEF Settles
  <2>3. CASE st.cert = NoKey /\ EnsureKey(st, reading, "body") /\ ~KeepsKey(st, reading)
             /\ disk' = disk
    <3>1. Rekeys("body")
      <4>1. \/ /\ pc' = "body" /\ UNCHANGED <<after, live, st>>
               /\ st.key # NoKey /\ st.ident # None
               /\ st.ident = machine \/ reading = Blank
            \/ Rekeys("body")
        BY <1>2, <2>3, EnsureMoves
      <4>2. pc' = "key"
        BY <2>3 DEF EnsureKey
      <4> QED
        BY <4>1, <4>2
    <3> QED
      BY <2>1, <2>3, <3>1
  <2>4. CASE "mismatch" \in CheckIdentity(st) /\ RotateIdentity(reading, "body")
             /\ UNCHANGED disk
    BY <1>2, <2>1, <2>4, RotateMoves
  <2>5. CASE "matched" \in CheckIdentity(st) /\ HostAgrees /\ Remember(reading)
    BY <1>2, <2>1, <2>5, RememberMoves
  <2> QED
    BY <1>2, <2>2, <2>3, <2>4, <2>5 DEF Settle
<1> QED
  BY <1>1, <1>2 DEF PrepareDirectoryIdentity

\* SaveIssued writes the certificate, then config.json.
LEMMA SaveMoves ==
    ASSUME TypeOK, Save, st.key # NoKey
    PROVE  \/ /\ pc = "issued" /\ pc' = "saved" /\ UNCHANGED after
              /\ Is(disk', disk.key, disk.ident, st.key, disk.cfg.host, disk.cfg.of,
                    disk.cfg.since)
              /\ Is(st', st.key, st.ident, st.key, owner[st.key], st.cfg.of, st.cfg.since)
           \/ /\ pc = "saved" /\ pc' = after /\ after' = "body" /\ UNCHANGED st
              /\ Is(disk', disk.key, disk.ident, disk.cert, st.cfg.host, st.cfg.of,
                    st.cfg.since)
<1>1. st.key \in Keys /\ st.cfg \in Configs
  BY Both, Fields
<1>2. CASE pc = "issued" /\ disk' = [disk EXCEPT !.cert = st.key] /\ pc' = "saved"
           /\ st' = [st EXCEPT !.cert = st.key, !.cfg.host = owner[st.key]]
           /\ UNCHANGED after
  BY <1>1, <1>2, Both, OwnerTyped, WithKey, WithCertAndHost
<1>3. CASE pc = "saved" /\ disk' = [disk EXCEPT !.cfg = st.cfg] /\ pc' = after
           /\ after' = "body" /\ UNCHANGED st
  BY <1>1, <1>3, Both, WithConfig
<1> QED
  BY <1>2, <1>3 DEF Save, SaveIssued

\* A poll that was applied ends the refusals, if that is saved.
LEMMA AppliedMoves ==
    ASSUME TypeOK, Applied
    PROVE  /\ Is(st', st.key, st.ident, st.cert, st.cfg.host, st.key, Never)
           /\ \/ /\ refused' = Never
                 /\ Is(disk', disk.key, disk.ident, disk.cert, st.cfg.host, st.key, Never)
              \/ UNCHANGED <<disk, refused>>
           /\ faults' \in 0..MaxFaults
<1>1. Is(st', st.key, st.ident, st.cert, st.cfg.host, st.key, Never)
  BY Both, RecordedIs DEF Applied
<1>2. st'.cfg \in Configs
  BY <1>1, Fields DEF Is
<1>3. Is([disk EXCEPT !.cfg = st'.cfg], disk.key, disk.ident, disk.cert, st'.cfg.host,
         st'.cfg.of, st'.cfg.since)
  BY <1>2, Both, WithConfig
<1>4. Is([disk EXCEPT !.cfg = st'.cfg], disk.key, disk.ident, disk.cert, st.cfg.host,
         st.key, Never)
  BY <1>1, <1>3 DEF Is
<1>5. faults' \in 0..MaxFaults
  BY Constants DEF TypeOK, Applied, Fault
<1> QED
  BY <1>1, <1>4, <1>5 DEF Applied

\* So does one that goes on to a renewal.
LEMMA RenewMoves ==
    ASSUME TypeOK, Renew
    PROVE  /\ Is(st', st.key, st.ident, st.cert, st.cfg.host, st.key, Never)
           /\ Is(disk', disk.key, disk.ident, disk.cert, st.cfg.host, st.key, Never)
<1>1. Is(st', st.key, st.ident, st.cert, st.cfg.host, st.key, Never)
  BY Both, RecordedIs DEF Renew
<1>2. st'.cfg \in Configs
  BY <1>1, Fields DEF Is
<1>3. Is(disk', disk.key, disk.ident, disk.cert, st'.cfg.host, st'.cfg.of, st'.cfg.since)
  BY <1>2, Both, WithConfig DEF Renew
<1> QED
  BY <1>1, <1>3 DEF Is

\* The first refusal is a moment.
LEMMA FirstTyped ==
    ASSUME TypeOK, NEW t \in 0..MaxTime
    PROVE  First(t) \in 0..MaxTime /\ First(t) # Never
  BY Constants DEF TypeOK, First

\* A refusal is dated once.
LEMMA PollRefusedMoves ==
    ASSUME TypeOK, PollRefused
    PROVE  /\ refused' = First(refused) /\ refused' \in 0..MaxTime
           /\ Is(st', st.key, st.ident, st.cert, st.cfg.host, st.cfg.of, First(st.cfg.since))
           /\ \/ /\ st.cfg.since = Never
                 /\ Is(disk', disk.key, disk.ident, disk.cert, st.cfg.host, st.cfg.of,
                       First(st.cfg.since))
              \/ st.cfg.since # Never /\ UNCHANGED disk
<1>1. refused' = First(refused) /\ refused' \in 0..MaxTime
  BY FirstTyped DEF TypeOK, PollRefused
<1>2. First(st.cfg.since) \in 0..MaxTime
  BY Both, Fields, FirstTyped
<1>3. Is(st', st.key, st.ident, st.cert, st.cfg.host, st.cfg.of, First(st.cfg.since))
  BY <1>2, Both, WithSince DEF PollRefused, UnauthorizedSince
<1>4. st'.cfg \in Configs
  BY <1>3, Fields DEF Is
<1>5. Is([disk EXCEPT !.cfg = st'.cfg], disk.key, disk.ident, disk.cert, st'.cfg.host,
         st'.cfg.of, st'.cfg.since)
  BY <1>4, Both, WithConfig
<1>6. Is([disk EXCEPT !.cfg = st'.cfg], disk.key, disk.ident, disk.cert, st.cfg.host,
         st.cfg.of, First(st.cfg.since))
  BY <1>3, <1>5 DEF Is
<1> QED
  BY <1>1, <1>3, <1>6 DEF PollRefused

\* DropIssued removes the certificate, then the host id.
LEMMA DropIssuedMoves ==
    ASSUME TypeOK, DropIssued
    PROVE  \/ /\ pc = "drop" /\ pc' = "dropped" /\ UNCHANGED st
              /\ Is(disk', disk.key, disk.ident, NoKey, disk.cfg.host, disk.cfg.of,
                    disk.cfg.since)
           \/ /\ pc = "dropped" /\ pc' = "loop"
              /\ Is(st', st.key, st.ident, NoKey, None, st.cfg.of, st.cfg.since)
              /\ Is(disk', disk.key, disk.ident, disk.cert, None, st.cfg.of, st.cfg.since)
<1>1. CASE pc = "drop" /\ pc' = "dropped" /\ disk' = [disk EXCEPT !.cert = NoKey]
           /\ UNCHANGED st
  BY <1>1, Both, WithKey
<1>2. CASE /\ pc = "dropped" /\ pc' = "loop"
           /\ st' = [st EXCEPT !.cert = NoKey, !.cfg.host = None]
           /\ disk' = [disk EXCEPT !.cfg = st'.cfg]
  <2>1. Is(st', st.key, st.ident, NoKey, None, st.cfg.of, st.cfg.since)
    BY <1>2, Both, WithCertAndHost
  <2>2. st'.cfg \in Configs
    BY <2>1, Fields DEF Is
  <2>3. Is(disk', disk.key, disk.ident, disk.cert, st'.cfg.host, st'.cfg.of, st'.cfg.since)
    BY <1>2, <2>2, Both, WithConfig
  <2>4. Is(disk', disk.key, disk.ident, disk.cert, None, st.cfg.of, st.cfg.since)
    BY <2>1, <2>3 DEF Is
  <2> QED
    BY <1>2, <2>1, <2>4
<1> QED
  BY <1>1, <1>2 DEF DropIssued

\* `fog-agent renew` writes the certificate, then its copy of config.json.
LEMMA RenewSavedMoves ==
    ASSUME TypeOK, RenewSaved, hand = "issued" => copy.key # NoKey
    PROVE  \/ /\ hand' = "saved" /\ torn' = (torn \/ disk.key # copy.key)
              /\ Is(disk', disk.key, disk.ident, copy.key, disk.cfg.host, disk.cfg.of,
                    disk.cfg.since)
              /\ Is(copy', copy.key, copy.ident, copy.cert, owner[copy.key], copy.cfg.of,
                    copy.cfg.since)
           \/ /\ hand' = "idle" /\ copy' = NoState /\ torn' \in BOOLEAN
              /\ torn' \/ (~torn /\ disk.cfg.of = copy.cfg.of
                                 /\ disk.cfg.since = copy.cfg.since)
              /\ Is(disk', disk.key, disk.ident, disk.cert, copy.cfg.host, copy.cfg.of,
                    copy.cfg.since)
<1>1. CASE /\ hand = "issued" /\ hand' = "saved"
           /\ disk' = [disk EXCEPT !.cert = copy.key]
           /\ copy' = [copy EXCEPT !.cfg.host = owner[copy.key]]
           /\ torn' = (torn \/ disk.key # copy.key)
  <2>1. copy.key \in Keys
    BY <1>1, Both, Fields
  <2> QED
    BY <1>1, <2>1, Both, OwnerTyped, WithKey, WithHost
<1>2. CASE /\ hand = "saved" /\ hand' = "idle"
           /\ disk' = [disk EXCEPT !.cfg = copy.cfg]
           /\ copy' = NoState
           /\ torn' = (torn \/ [disk.cfg EXCEPT !.host = None]
                               # [copy.cfg EXCEPT !.host = None])
  <2>1. copy.cfg \in Configs /\ disk.cfg \in Configs
    BY Both, Fields
  <2>2. Is(disk', disk.key, disk.ident, disk.cert, copy.cfg.host, copy.cfg.of,
           copy.cfg.since)
    BY <1>2, <2>1, Both, WithConfig
  <2>3. ASSUME [disk.cfg EXCEPT !.host = None] = [copy.cfg EXCEPT !.host = None]
        PROVE  disk.cfg.of = copy.cfg.of /\ disk.cfg.since = copy.cfg.since
    <3>1. /\ [disk.cfg EXCEPT !.host = None].of = disk.cfg.of
          /\ [disk.cfg EXCEPT !.host = None].since = disk.cfg.since
          /\ [copy.cfg EXCEPT !.host = None].of = copy.cfg.of
          /\ [copy.cfg EXCEPT !.host = None].since = copy.cfg.since
      BY <2>1 DEF Configs
    <3> QED
      BY <2>3, <3>1
  <2>4. torn \in BOOLEAN /\ torn' \in BOOLEAN
    BY <1>2 DEF TypeOK
  <2> QED
    BY <1>2, <2>2, <2>3, <2>4
<1> QED
  BY <1>1, <1>2 DEF RenewSaved

\* The types hold at first.
LEMMA TypesStart ==
    ASSUME Init
    PROVE  Typed
<1>1. /\ disk \in States /\ image \in States /\ st \in States /\ copy \in States
      /\ live \in Readings \union {None} /\ verified \in Readings \union {None}
  BY Nothing DEF Init, Is
<1>2. owner \in [Keys -> Machines \union {None}] /\ bound \subseteq Keys
      /\ unvouched \subseteq Keys
  BY DEF Init
<1>3. /\ made \in 0..MaxKey /\ clock \in 1..MaxTime /\ faults \in 0..MaxFaults
      /\ refused \in 0..MaxTime
  BY Constants DEF Init
<1> QED
  BY <1>1, <1>2, <1>3 DEF Init, Typed, TypeOK, Keyed, Lines

\* Every step keeps them.
LEMMA TypesStep ==
    ASSUME Typed, [Next]_vars
    PROVE  Typed'
<1> USE DEF Typed
<1>1. CASE WriteKey
  BY <1>1, Constants, Nothing, WriteKeyMoves
     DEF WriteKey, renewer, TypeOK, Keyed, Lines, Is
<1>2. CASE WriteIdentity
  BY <1>2, Constants, Nothing, WriteIdentityMoves
     DEF WriteIdentity, renewer, server, TypeOK, Keyed, Lines, Is
<1>3. CASE RemoveCertificate
  BY <1>3, Constants, Nothing, RemoveCertificateMoves
     DEF RemoveCertificate, Fault, renewer, server, TypeOK, Keyed, Lines, Is
<1>4. CASE ResetConfig
  BY <1>4, Constants, Nothing, ResetConfigMoves
     DEF ResetConfig, renewer, server, TypeOK, Keyed, Lines, Is
<1>5. CASE Start
  BY <1>5, Constants, Nothing
     DEF Start, machines, renewer, server, TypeOK, Keyed, Lines, Is
<1>6. CASE Prepare
  <2>1. on' \in BOOLEAN /\ retry' \in BOOLEAN /\ faults' \in 0..MaxFaults
    BY <1>6, PrepareMoves DEF Prepare
  <2>2. st' \in States /\ disk' \in States
        /\ pc' \in {"guard", "body", "key"} /\ after' \in {"body", "enroll", "loop"}
        /\ live' \in Readings \union {None}
    BY <1>6, PrepareMoves
       DEF Prepare, Settles, Remembers, Rekeys, Is, TypeOK, Readings
  <2> QED
    BY <1>6, <2>1, <2>2 DEF Prepare, TypeOK, Keyed, Lines, renewer, server
<1>7. CASE LocalCloneGuard
  <2>1. PICK reading \in Readings : /\ Read(reading) /\ EnsureKey(st, reading, "body")
                                   /\ blind' = Unreadable(reading)
    BY <1>7 DEF LocalCloneGuard
  <2>2. /\ pc' \in {"body", "key"} /\ after' \in {"body", "enroll", "loop"}
        /\ live' \in Readings \union {None} /\ st' = st
    BY <2>1, EnsureMoves DEF Rekeys, TypeOK, Readings
  <2>3. faults' \in 0..MaxFaults /\ blind' \in BOOLEAN
    BY <2>1, ReadMoves DEF Unreadable
  <2> QED
    BY <1>7, <2>2, <2>3 DEF LocalCloneGuard, TypeOK, Keyed, Lines, machines, renewer, server
<1>8. CASE Round
  <2>1. /\ on' \in BOOLEAN /\ retry' \in BOOLEAN /\ faults' \in 0..MaxFaults
        /\ verified' \in Readings \union {None}
    BY <1>8, PrepareMoves DEF Round, TypeOK
  <2>2. st' \in States /\ disk' \in States
        /\ pc' \in {"body", "key"} /\ after' \in {"body", "enroll", "loop"}
        /\ live' \in Readings \union {None}
    BY <1>8, PrepareMoves
       DEF Round, Settles, Remembers, Rekeys, Is, TypeOK, Readings
  <2> QED
    BY <1>8, <2>1, <2>2 DEF Round, TypeOK, Keyed, Lines, renewer, server
<1>9. CASE EnrollRequest
  <2>1. PICK reading \in Readings : Read(reading) /\ EnsureKey(st, reading, "enroll")
    BY <1>9 DEF EnrollRequest
  <2>2. /\ pc' \in {"enroll", "key"} /\ after' \in {"body", "enroll", "loop"}
        /\ live' \in Readings \union {None} /\ st' = st
        /\ pc' = "enroll" => st.key # NoKey
    BY <2>1, EnsureMoves DEF Rekeys, TypeOK, Readings
  <2>3. faults' \in 0..MaxFaults
    BY <2>1, ReadMoves
  <2> QED
    BY <1>9, <2>2, <2>3 DEF EnrollRequest, TypeOK, Keyed, Lines, machines, renewer, server
<1>10. CASE Issue
  <2>1. st.key \in Keys
    BY <1>10, Both, Fields DEF Issue, Keyed
  <2>2. bound' \subseteq Keys /\ unvouched' \subseteq Keys
    BY <1>10, <2>1 DEF Issue, TypeOK
  <2>3. owner' \in [Keys -> Machines \union {None}]
    BY <1>10 DEF Issue, TypeOK
  <2> QED
    BY <1>10, <2>1, <2>2, <2>3 DEF Issue, TypeOK, Keyed, Lines, machines, renewer
<1>11. CASE Save
  BY <1>11, Constants, Nothing, SaveMoves
     DEF Save, SaveIssued, renewer, server, TypeOK, Keyed, Lines, Is
<1>12. CASE UseCertificate
  BY <1>12, Constants, Nothing
     DEF UseCertificate, machines, renewer, server, TypeOK, Keyed, Lines, Is
<1>13. CASE Check
  <2>1. PICK reading \in Readings :
           /\ Read(reading)
           /\ \/ /\ verified' = reading /\ pc' = "poll"
                 /\ UNCHANGED <<after, live, st, on, retry>>
              \/ /\ on' = FALSE /\ retry' = TRUE /\ pc' = "poll"
                 /\ UNCHANGED <<after, live, st, verified>>
              \/ /\ "mismatch" \in CheckIdentity(st) /\ RotateIdentity(reading, "body")
                 /\ verified' = None
                 /\ UNCHANGED <<on, retry>>
    BY <1>13 DEF Check
  <2>2. faults' \in 0..MaxFaults
    BY <2>1, ReadMoves
  <2>3. /\ pc' \in {"poll", "key"} /\ after' \in {"body", "enroll", "loop"}
        /\ live' \in Readings \union {None} /\ st' \in States
        /\ on' \in BOOLEAN /\ retry' \in BOOLEAN
        /\ verified' \in Readings \union {None}
    BY <2>1, RotateMoves DEF Rekeys, TypeOK, Readings, Is
  <2> QED
    BY <1>13, <2>2, <2>3 DEF Check, TypeOK, Keyed, Lines, machines, renewer, server
<1>14. CASE PollAccepted
  BY <1>14, Constants, Nothing
     DEF PollAccepted, Presentable, machines, renewer, server, TypeOK, Keyed, Lines, Is
<1>15. CASE PollFails
  BY <1>15, Constants, Nothing
     DEF PollFails, machines, renewer, server, TypeOK, Keyed, Lines, Is
<1>16. CASE PollUnknown
  BY <1>16, Constants, Nothing
     DEF PollUnknown, Presentable, machines, renewer, server, TypeOK, Keyed, Lines, Is
<1>17. CASE Applied
  BY <1>17, Constants, Nothing, AppliedMoves
     DEF Applied, Fault, renewer, server, TypeOK, Keyed, Lines, Is
<1>18. CASE Renew
  BY <1>18, Constants, Nothing, RenewMoves
     DEF Renew, renewer, server, TypeOK, Keyed, Lines, Is
<1>19. CASE PollRefused
  BY <1>19, Constants, Nothing, PollRefusedMoves
     DEF PollRefused, renewer, server, TypeOK, Keyed, Lines, Is
<1>20. CASE DropIssued
  BY <1>20, Constants, Nothing, DropIssuedMoves
     DEF DropIssued, renewer, server, TypeOK, Keyed, Lines, Is
<1>21. CASE RenewByHand
  BY <1>21, Constants, Nothing
     DEF RenewByHand, Fault, machines, service, server, TypeOK, Keyed, Lines, Is
<1>22. CASE RenewAnswered
  BY <1>22, Constants, Nothing
     DEF RenewAnswered, Presentable, machines, service, server, TypeOK, Keyed, Lines, Is
<1>23. CASE RenewSaved
  <2>1. torn' \in BOOLEAN
    BY <1>23 DEF RenewSaved
  <2>2. disk' \in States /\ copy' \in States /\ hand' \in {"saved", "idle"}
    BY <1>23, RenewSavedMoves, Nothing DEF Keyed, Is
  <2> QED
    BY <1>23, <2>1, <2>2 DEF RenewSaved, TypeOK, Keyed, service, server
<1>24. CASE Stop
  <2>1. torn' \in BOOLEAN
    BY <1>24 DEF Stop
  <2>2. faults' \in 0..MaxFaults
    BY <1>24, Constants DEF Stop, Fault, TypeOK
  <2> QED
    BY <1>24, <2>1, <2>2, Nothing DEF Stop, TypeOK, Keyed, Lines, Is, machines, renewer,
       server
<1>25. CASE Capture
  BY <1>25, Constants, Nothing
     DEF Capture, Idle, Fault, service, renewer, server, TypeOK, Keyed, Lines, Is
<1>26. CASE Deploy
  <2>1. image.cfg.since \in 0..MaxTime
    BY Both, Fields
  <2> QED
    BY <1>26, <2>1, Constants, Nothing
       DEF Deploy, Idle, TypeOK, Keyed, Is, service, renewer, server
<1>27. CASE Revoke
  BY <1>27, Constants, Nothing
     DEF Revoke, Fault, machines, service, renewer, TypeOK, Keyed, Lines, Is
<1>28. CASE Tick
  BY <1>28, Constants, Nothing
     DEF Tick, machines, service, renewer, server, TypeOK, Keyed, Lines, Is
<1>29. CASE UNCHANGED vars
  BY <1>29 DEF TypeOK, Keyed, vars, machines, service, renewer, server
<1> QED
  BY <1>29, <1>1, <1>2, <1>3, <1>4, <1>5, <1>6, <1>7, <1>8, <1>9, <1>10, <1>11, <1>12, <1>13,
     <1>14, <1>15, <1>16, <1>17, <1>18, <1>19, <1>20, <1>21, <1>22, <1>23, <1>24, <1>25,
     <1>26, <1>27, <1>28
     DEF Next, Agent, Renewer, World, NewKey, Enroll, Poll

-----------------------------------------------------------------------------
(* The steps that settle the identity, together.                           *)

Identified == Prepare \/ LocalCloneGuard \/ Round \/ EnrollRequest \/ Check

\* The key stays, and the service goes on.
GoesOn ==
    /\ UNCHANGED <<disk, after, live, st>>
    /\ \/ pc = "start" /\ pc' = "guard" /\ blind' = blind
       \/ /\ pc = "guard" /\ pc' = "body"
          /\ st.key # NoKey /\ (blind' \/ st.ident = machine)
       \/ pc = "loop" /\ pc' = "body" /\ blind' = blind
       \/ /\ pc = "body" /\ pc' = "enroll" /\ blind' = blind
          /\ st.key # NoKey /\ st.ident # None /\ st.cert = NoKey
       \/ pc = "check" /\ pc' = "poll" /\ blind' = blind

\* Every such step leaves the key and the server alone.
LEMMA IdentityMoves ==
    ASSUME Typed, Identified
    PROVE  /\ UNCHANGED <<machine, image, renewer, server, clock, torn, refused>>
           /\ pc \in {"start", "guard", "loop", "body", "check"}
           /\ \/ GoesOn
              \/ Settles /\ pc \in {"start", "loop"} /\ blind' = blind
              \/ UNCHANGED disk /\ \E p : Rekeys(p)
              \/ Remembers /\ blind' = blind
<1> USE DEF Typed
<1>1. CASE Prepare
  BY <1>1, PrepareMoves DEF Prepare, GoesOn
<1>2. CASE LocalCloneGuard
  <2>1. PICK reading \in Readings : /\ Read(reading) /\ EnsureKey(st, reading, "body")
                                   /\ blind' = Unreadable(reading)
    BY <1>2 DEF LocalCloneGuard
  <2>2. GoesOn \/ Rekeys("body")
    BY <1>2, <2>1, EnsureMoves DEF GoesOn, LocalCloneGuard, machines, Unreadable
  <2> QED
    BY <1>2, <2>2 DEF LocalCloneGuard, machines
<1>3. CASE Round
  <2>1. CASE PrepareDirectoryIdentity("body")
    BY <1>3, <2>1, PrepareMoves DEF Round, GoesOn
  <2>2. CASE pc' = "body" /\ UNCHANGED <<disk, after, live, st>>
    BY <1>3, <2>2 DEF Round, GoesOn
  <2> QED
    BY <1>3, <2>1, <2>2 DEF Round
<1>4. CASE EnrollRequest
  <2>1. PICK reading \in Readings : Read(reading) /\ EnsureKey(st, reading, "enroll")
    BY <1>4 DEF EnrollRequest
  <2>2. GoesOn \/ Rekeys("enroll")
    BY <1>4, <2>1, EnsureMoves DEF GoesOn, EnrollRequest, machines
  <2> QED
    BY <1>4, <2>2 DEF EnrollRequest, machines
<1>5. CASE Check
  <2>1. PICK reading \in Readings :
           /\ Read(reading)
           /\ \/ pc' = "poll" /\ UNCHANGED <<after, live, st>>
              \/ "mismatch" \in CheckIdentity(st) /\ RotateIdentity(reading, "body")
    BY <1>5 DEF Check
  <2>2. GoesOn \/ Rekeys("body")
    BY <1>5, <2>1, RotateMoves DEF GoesOn, Check, machines
  <2> QED
    BY <1>5, <2>2 DEF Check, machines
<1> QED
  BY <1>1, <1>2, <1>3, <1>4, <1>5 DEF Identified

-----------------------------------------------------------------------------
(* Who is who.                                                             *)

\* Where what the service holds of the key is what the disk holds.
Synced == pc \notin {"off", "key", "ident", "cert", "config"}
Making == pc \in {"ident", "cert", "config"}

\* Keys are numbered as they are made; one not approved yet stands for nobody.
Fresh ==
    /\ disk.key <= made /\ image.key <= made /\ st.key <= made
    /\ \A k \in Keys : k > made => owner[k] = None
    /\ \A k \in bound : owner[k] # None
    /\ Making => /\ made \in Keys /\ disk.key = made /\ owner[made] = None
                 /\ image.key < made

Held ==
    /\ pc = "off" => st = NoState
    /\ Synced => disk.key = st.key /\ disk.ident = st.ident
    /\ pc = "key" => disk.key = st.key
    /\ pc \in {"cert", "config"} => disk.ident = live
    /\ pc \in {"check", "poll", "applied"} => st.cert # NoKey
    /\ pc = "applied" => st.key \in Keys /\ owner[st.key] # None

\* Every step keeps the numbering of the keys.
LEMMA FreshStep ==
    ASSUME Typed, Fresh, [Next]_vars
    PROVE  Fresh'
<1>1. CASE Identified
  <2>1. st'.key = st.key /\ disk'.key = disk.key /\ ~Making'
    BY <1>1, IdentityMoves DEF GoesOn, Settles, Rekeys, Remembers, Is, Making
  <2> QED
    BY <1>1, <2>1, IdentityMoves DEF Fresh, server
<1>2. CASE WriteKey
  <2>1. made' = made + 1 /\ made' \in Keys /\ disk'.key = made'
    BY <1>2, WriteKeyMoves DEF Typed, Is
  <2>2. /\ made \in Nat /\ image.key \in Nat /\ st.key \in Nat
        /\ UNCHANGED <<image, st, owner, bound>>
    BY <1>2, Both, Fields, Constants DEF Typed, TypeOK, WriteKey
  <2>3. image.key < made' /\ st.key <= made'
    BY <2>1, <2>2 DEF Fresh
  <2>4. \A k \in Keys : k > made' => owner[k] = None
    BY <2>1, <2>2, Constants DEF Fresh
  <2>5. owner[made'] = None
    BY <2>1, <2>2 DEF Fresh
  <2> QED
    BY <2>1, <2>2, <2>3, <2>4, <2>5 DEF Fresh
<1>3. CASE WriteIdentity
  BY <1>3, Both, Fields, Constants, Nothing, WriteIdentityMoves
     DEF WriteIdentity, renewer, server, Fresh, Making, Typed, TypeOK, Keyed, Is
<1>4. CASE RemoveCertificate
  BY <1>4, Both, Fields, Constants, Nothing, RemoveCertificateMoves
     DEF RemoveCertificate, Fault, renewer, server, Fresh, Making, Typed, TypeOK, Keyed, Is
<1>5. CASE ResetConfig
  BY <1>5, Both, Fields, Constants, Nothing, ResetConfigMoves
     DEF ResetConfig, renewer, server, Fresh, Making, Typed, TypeOK, Keyed, Is
<1>6. CASE Start
  BY <1>6, Both, Fields, Constants, Nothing
     DEF Start, machines, renewer, server, Fresh, Making, Typed, TypeOK, Keyed
<1>7. CASE Issue
  BY <1>7, Both, Fields, Constants, Nothing
     DEF Issue, machines, renewer, Fresh, Making, Typed, TypeOK, Keyed
<1>8. CASE Save
  BY <1>8, Both, Fields, Constants, Nothing, SaveMoves
     DEF Save, SaveIssued, renewer, server, Fresh, Making, Typed, TypeOK, Keyed, Is
<1>9. CASE UseCertificate
  BY <1>9, Both, Fields, Constants, Nothing
     DEF UseCertificate, machines, renewer, server, Fresh, Making, Typed, TypeOK, Keyed
<1>10. CASE PollAccepted
  BY <1>10, Both, Fields, Constants, Nothing
     DEF PollAccepted, Presentable, machines, renewer, server, Fresh, Making, Typed,
         TypeOK, Keyed
<1>11. CASE PollFails
  BY <1>11, Both, Fields, Constants, Nothing
     DEF PollFails, machines, renewer, server, Fresh, Making, Typed, TypeOK, Keyed
<1>12. CASE PollUnknown
  BY <1>12, Both, Fields, Constants, Nothing
     DEF PollUnknown, Presentable, machines, renewer, server, Fresh, Making, Typed,
         TypeOK, Keyed
<1>13. CASE Applied
  BY <1>13, Both, Fields, Constants, Nothing, AppliedMoves
     DEF Applied, Fault, renewer, server, Fresh, Making, Typed, TypeOK, Keyed, Is
<1>14. CASE Renew
  BY <1>14, Both, Fields, Constants, Nothing, RenewMoves
     DEF Renew, renewer, server, Fresh, Making, Typed, TypeOK, Keyed, Is
<1>15. CASE PollRefused
  BY <1>15, Both, Fields, Constants, Nothing, PollRefusedMoves
     DEF PollRefused, renewer, server, Fresh, Making, Typed, TypeOK, Keyed, Is
<1>16. CASE DropIssued
  BY <1>16, Both, Fields, Constants, Nothing, DropIssuedMoves
     DEF DropIssued, renewer, server, Fresh, Making, Typed, TypeOK, Keyed, Is
<1>17. CASE RenewByHand
  BY <1>17, Both, Fields, Constants, Nothing
     DEF RenewByHand, Fault, machines, service, server, Fresh, Making, Typed, TypeOK, Keyed
<1>18. CASE RenewAnswered
  BY <1>18, Both, Fields, Constants, Nothing
     DEF RenewAnswered, Presentable, machines, service, server, Fresh, Making, Typed,
         TypeOK, Keyed
<1>19. CASE RenewSaved
  BY <1>19, Both, Fields, Constants, Nothing, RenewSavedMoves
     DEF RenewSaved, service, server, Fresh, Making, Typed, TypeOK, Keyed, Is
<1>20. CASE Stop
  <2>1. st'.key = 0 /\ ~Making' /\ made >= 0
    BY <1>20, Nothing, Constants DEF Stop, Is, Making, Typed, TypeOK
  <2> QED
    BY <1>20, <2>1 DEF Stop, Fresh, machines, server
<1>21. CASE Capture
  BY <1>21, Both, Fields, Constants, Nothing
     DEF Capture, Idle, Fault, service, renewer, server, Fresh, Making, Typed, TypeOK, Keyed
<1>22. CASE Deploy
  <2>1. image'.key = 0 /\ ~Making' /\ made >= 0 /\ disk' = image /\ st' = st
    BY <1>22, Nothing, Constants DEF Deploy, Idle, Is, Making, Typed, TypeOK, service
  <2> QED
    BY <1>22, <2>1 DEF Deploy, Fresh, server
<1>23. CASE Revoke
  BY <1>23, Both, Fields, Constants, Nothing
     DEF Revoke, Fault, machines, service, renewer, Fresh, Making, Typed, TypeOK, Keyed
<1>24. CASE Tick
  BY <1>24, Both, Fields, Constants, Nothing
     DEF Tick, machines, service, renewer, server, Fresh, Making, Typed, TypeOK, Keyed
<1>25. CASE UNCHANGED vars
  BY <1>25 DEF Fresh, Making, vars, machines, service, renewer, server
<1> QED
  BY <1>1, <1>2, <1>3, <1>4, <1>5, <1>6, <1>7, <1>8, <1>9, <1>10, <1>11, <1>12, <1>13,
     <1>14, <1>15, <1>16, <1>17, <1>18, <1>19, <1>20, <1>21, <1>22, <1>23, <1>24, <1>25
     DEF Next, Agent, Renewer, World, NewKey, Enroll, Poll, Identified

\* Every step keeps memory and disk together where they belong together.
LEMMA HeldStep ==
    ASSUME Typed, Fresh, Held, [Next]_vars
    PROVE  Held'
<1>1. CASE Identified
  <2>1. st.key = disk.key /\ st.ident = disk.ident
    BY <1>1, IdentityMoves DEF Held, Synced
  <2>2. /\ st'.key = disk'.key
        /\ pc' = "key" \/ (Synced' /\ st'.ident = disk'.ident)
    BY <1>1, <2>1, IdentityMoves DEF GoesOn, Settles, Rekeys, Remembers, Is, Synced
  <2>3. /\ pc' \in {"check", "poll", "applied"} => pc' = "poll" /\ pc = "check" /\ st' = st
        /\ pc' # "off"
    BY <1>1, IdentityMoves DEF GoesOn, Settles, Rekeys, Remembers
  <2> QED
    BY <1>1, <2>2, <2>3 DEF Held, Synced
<1>2. CASE WriteKey
  BY <1>2, Both, Constants, Nothing, WriteKeyMoves
     DEF WriteKey, renewer, Held, Synced, Typed, TypeOK, Keyed, Is
<1>3. CASE WriteIdentity
  BY <1>3, Both, Constants, Nothing, WriteIdentityMoves
     DEF WriteIdentity, renewer, server, Held, Synced, Typed, TypeOK, Keyed, Is
<1>4. CASE RemoveCertificate
  BY <1>4, Both, Constants, Nothing, RemoveCertificateMoves
     DEF RemoveCertificate, Fault, renewer, server, Held, Synced, Typed, TypeOK, Keyed, Is
<1>5. CASE ResetConfig
  <2>1. st'.key = made /\ st'.ident = live /\ disk'.key = disk.key /\ disk'.ident = disk.ident
    BY <1>5, ResetConfigMoves DEF Typed, Keyed, ResetConfig, Is
  <2>2. pc = "config" /\ pc' \in {"body", "enroll", "loop"}
    BY <1>5 DEF ResetConfig, Typed, TypeOK
  <2> QED
    BY <2>1, <2>2 DEF Held, Fresh, Making, Synced
<1>6. CASE Start
  BY <1>6, Both, Constants, Nothing
     DEF Start, machines, renewer, server, Held, Synced, Typed, TypeOK, Keyed
<1>7. CASE Issue
  BY <1>7, Both, Constants, Nothing
     DEF Issue, machines, renewer, Held, Synced, Typed, TypeOK, Keyed
<1>8. CASE Save
  BY <1>8, Both, Constants, Nothing, SaveMoves
     DEF Save, SaveIssued, renewer, server, Held, Synced, Typed, TypeOK, Keyed, Is
<1>9. CASE UseCertificate
  BY <1>9, Both, Constants, Nothing
     DEF UseCertificate, machines, renewer, server, Held, Synced, Typed, TypeOK, Keyed
<1>10. CASE PollAccepted
  <2>1. st.key \in Keys /\ owner[st.key] # None
    BY <1>10 DEF PollAccepted, Fresh, Typed, TypeOK
  <2> QED
    BY <1>10, <2>1 DEF PollAccepted, Held, Synced, machines, server
<1>11. CASE PollFails
  BY <1>11, Both, Constants, Nothing
     DEF PollFails, machines, renewer, server, Held, Synced, Typed, TypeOK, Keyed
<1>12. CASE PollUnknown
  BY <1>12, Both, Constants, Nothing
     DEF PollUnknown, Presentable, machines, renewer, server, Held, Synced, Typed,
         TypeOK, Keyed
<1>13. CASE Applied
  BY <1>13, Both, Constants, Nothing, AppliedMoves
     DEF Applied, Fault, renewer, server, Held, Synced, Typed, TypeOK, Keyed, Is
<1>14. CASE Renew
  BY <1>14, Both, Constants, Nothing, RenewMoves
     DEF Renew, renewer, server, Held, Synced, Typed, TypeOK, Keyed, Is
<1>15. CASE PollRefused
  BY <1>15, Both, Constants, Nothing, PollRefusedMoves
     DEF PollRefused, renewer, server, Held, Synced, Typed, TypeOK, Keyed, Is
<1>16. CASE DropIssued
  BY <1>16, Both, Constants, Nothing, DropIssuedMoves
     DEF DropIssued, renewer, server, Held, Synced, Typed, TypeOK, Keyed, Is
<1>17. CASE RenewByHand
  BY <1>17, Both, Constants, Nothing
     DEF RenewByHand, Fault, machines, service, server, Held, Synced, Typed, TypeOK, Keyed
<1>18. CASE RenewAnswered
  BY <1>18, Both, Constants, Nothing
     DEF RenewAnswered, Presentable, machines, service, server, Held, Synced, Typed,
         TypeOK, Keyed
<1>19. CASE RenewSaved
  BY <1>19, Both, Constants, Nothing, RenewSavedMoves
     DEF RenewSaved, service, server, Held, Synced, Typed, TypeOK, Keyed, Is
<1>20. CASE Stop
  BY <1>20, Both, Constants, Nothing
     DEF Stop, Fault, machines, renewer, server, Held, Synced, Typed, TypeOK, Keyed
<1>21. CASE Capture
  BY <1>21, Both, Constants, Nothing
     DEF Capture, Idle, Fault, service, renewer, server, Held, Synced, Typed, TypeOK, Keyed
<1>22. CASE Deploy
  BY <1>22, Both, Constants, Nothing
     DEF Deploy, Idle, service, renewer, server, Held, Synced, Typed, TypeOK, Keyed
<1>23. CASE Revoke
  BY <1>23, Both, Constants, Nothing
     DEF Revoke, Fault, machines, service, renewer, Held, Synced, Typed, TypeOK, Keyed
<1>24. CASE Tick
  BY <1>24, Both, Constants, Nothing
     DEF Tick, machines, service, renewer, server, Held, Synced, Typed, TypeOK, Keyed
<1>25. CASE UNCHANGED vars
  BY <1>25 DEF Held, Synced, vars, machines, service, renewer, server
<1> QED
  BY <1>1, <1>2, <1>3, <1>4, <1>5, <1>6, <1>7, <1>8, <1>9, <1>10, <1>11, <1>12, <1>13,
     <1>14, <1>15, <1>16, <1>17, <1>18, <1>19, <1>20, <1>21, <1>22, <1>23, <1>24, <1>25
     DEF Next, Agent, Renewer, World, NewKey, Enroll, Poll, Identified

\* A key approved stands for the machine whose identity is recorded beside it, unless
\* it was approved beside another's.
Vouched(s) ==
    s.key # NoKey /\ s.ident \in Machines /\ owner[s.key] # None
        => owner[s.key] = s.ident \/ s.key \in unvouched

\* An image of this key from another machine was taken beside the identity it has now.
ImageVouched ==
    image.key # NoKey /\ image.key = disk.key /\ image.ident \in Machines \ {machine}
        => disk.ident = image.ident \/ disk.key \in unvouched

AllVouched == Vouched(disk) /\ Vouched(image) /\ Vouched(st) /\ ImageVouched

\* Every step keeps approved keys beside the identities they stand for.
LEMMA VouchedStep ==
    ASSUME Typed, Fresh, Held, AllVouched, [Next]_vars
    PROVE  AllVouched'
<1>1. CASE Identified
  <2>1. /\ st'.key = st.key /\ disk'.key = disk.key /\ disk.key = st.key
        /\ disk.ident = st.ident /\ UNCHANGED <<machine, image, owner, unvouched>>
    BY <1>1, IdentityMoves
       DEF GoesOn, Settles, Rekeys, Remembers, Is, Held, Synced, server
  <2>2. CASE disk'.ident = disk.ident /\ st'.ident \in {st.ident, None}
    BY <2>1, <2>2, Constants DEF AllVouched, Vouched, ImageVouched
  <2>3. CASE Remembers
    <3>1. /\ st'.ident = disk'.ident /\ disk'.ident \in {machine, Blank}
          /\ owner[st.key] = machine
      BY <2>3 DEF Remembers, Is
    <3>2. Vouched(disk)' /\ Vouched(st)' /\ Vouched(image)'
      BY <2>1, <3>1, Constants DEF AllVouched, Vouched
    <3>3. ImageVouched'
      BY <2>1, <3>1, Constants DEF AllVouched, Vouched, ImageVouched, Typed, TypeOK
    <3> QED
      BY <3>2, <3>3 DEF AllVouched
  <2> QED
    BY <1>1, <2>2, <2>3, IdentityMoves DEF GoesOn, Settles, Rekeys, Is
<1>2. CASE WriteKey
  <2>1. /\ disk'.key = made + 1 /\ made + 1 \in Keys /\ made \in Nat
        /\ UNCHANGED <<machine, image, st, owner, unvouched>>
    BY <1>2, WriteKeyMoves DEF Typed, TypeOK, Is, WriteKey
  <2>2. owner[disk'.key] = None
    BY <2>1 DEF Fresh
  <2>3. image.key # disk'.key
    BY <2>1, Both, Fields, Constants DEF Fresh, Typed
  <2> QED
    BY <2>1, <2>2, <2>3 DEF AllVouched, Vouched, ImageVouched
<1>3. CASE WriteIdentity
  <2>1. /\ disk'.key = disk.key /\ owner[disk.key] = None
        /\ UNCHANGED <<machine, image, st, owner, unvouched>>
    BY <1>3, WriteIdentityMoves DEF Typed, Is, WriteIdentity, Fresh, Making, server
  <2>2. image.key # disk'.key
    BY <1>3, <2>1, Both, Fields, Constants DEF Fresh, Typed, Making, WriteIdentity, TypeOK
  <2> QED
    BY <2>1, <2>2 DEF AllVouched, Vouched, ImageVouched
<1>4. CASE RemoveCertificate
  BY <1>4, Both, Constants, Nothing, RemoveCertificateMoves
     DEF RemoveCertificate, Fault, renewer, server, AllVouched, Vouched, ImageVouched,
         Typed, Is
<1>5. CASE ResetConfig
  <2>1. /\ disk'.key = disk.key /\ disk'.ident = disk.ident /\ st'.key = made
        /\ owner[made] = None
        /\ UNCHANGED <<machine, image, owner, unvouched>>
    BY <1>5, ResetConfigMoves
       DEF Typed, Keyed, Is, ResetConfig, Fresh, Making, server
  <2> QED
    BY <2>1 DEF AllVouched, Vouched, ImageVouched
<1>6. CASE Start
  BY <1>6, Both, Constants, Nothing
     DEF Start, machines, renewer, server, AllVouched, Vouched, ImageVouched, Typed
<1>7. CASE Issue
  <2>1. /\ st.key \in Keys /\ disk.key = st.key /\ disk.ident = st.ident
        /\ UNCHANGED <<disk, image, st, machine>>
    BY <1>7, Both, Fields DEF Issue, Typed, Keyed, Held, Synced, machines
  <2>2. /\ owner' = [owner EXCEPT ![st.key] = machine]
        /\ unvouched' = IF st.ident \in {machine, Blank} THEN unvouched
                                                        ELSE unvouched \union {st.key}
    BY <1>7 DEF Issue
  <2>3. \A k \in Keys : owner'[k] = IF k = st.key THEN machine ELSE owner[k]
    BY <2>1, <2>2 DEF Typed, TypeOK
  <2>4. Vouched(disk)' /\ Vouched(st)' 
    BY <2>1, <2>2, <2>3, Constants DEF Vouched
  <2>5. ImageVouched'
    BY <2>1, <2>2 DEF AllVouched, ImageVouched
  <2>6. Vouched(image)'
    <3>1. CASE image.key # st.key
      <4>1. image.key \in Keys \union {NoKey}
        BY Both, Fields DEF Typed
      <4> QED
        BY <2>1, <2>2, <2>3, <3>1, <4>1 DEF AllVouched, Vouched
    <3>2. CASE image.key = st.key
      BY <2>1, <2>2, <2>3, <3>2, Constants DEF AllVouched, Vouched, ImageVouched
    <3> QED
      BY <3>1, <3>2
  <2> QED
    BY <2>4, <2>5, <2>6 DEF AllVouched
<1>8. CASE Save
  <2>1. /\ disk'.key = disk.key /\ disk'.ident = disk.ident /\ st'.key = st.key
        /\ st'.ident = st.ident /\ UNCHANGED <<machine, image, owner, unvouched>>
    BY <1>8, SaveMoves DEF Typed, Keyed, Is, Save, SaveIssued, server
  <2> QED
    BY <2>1 DEF AllVouched, Vouched, ImageVouched
<1>9. CASE UseCertificate
  BY <1>9, Both, Constants, Nothing
     DEF UseCertificate, machines, renewer, server, AllVouched, Vouched, ImageVouched, Typed
<1>10. CASE PollAccepted
  BY <1>10, Both, Constants, Nothing
     DEF PollAccepted, Presentable, machines, renewer, server, AllVouched, Vouched,
         ImageVouched, Typed
<1>11. CASE PollFails
  BY <1>11, Both, Constants, Nothing
     DEF PollFails, machines, renewer, server, AllVouched, Vouched, ImageVouched, Typed
<1>12. CASE PollUnknown
  BY <1>12, Both, Constants, Nothing
     DEF PollUnknown, Presentable, machines, renewer, server, AllVouched, Vouched,
         ImageVouched, Typed
<1>13. CASE Applied
  BY <1>13, Both, Constants, Nothing, AppliedMoves
     DEF Applied, Fault, renewer, server, AllVouched, Vouched, ImageVouched, Typed, Is
<1>14. CASE Renew
  BY <1>14, Both, Constants, Nothing, RenewMoves
     DEF Renew, renewer, server, AllVouched, Vouched, ImageVouched, Typed, Is
<1>15. CASE PollRefused
  BY <1>15, Both, Constants, Nothing, PollRefusedMoves
     DEF PollRefused, renewer, server, AllVouched, Vouched, ImageVouched, Typed, Is
<1>16. CASE DropIssued
  BY <1>16, Both, Constants, Nothing, DropIssuedMoves
     DEF DropIssued, renewer, server, AllVouched, Vouched, ImageVouched, Typed, Is
<1>17. CASE RenewByHand
  BY <1>17, Both, Constants, Nothing
     DEF RenewByHand, Fault, machines, service, server, AllVouched, Vouched,
         ImageVouched, Typed
<1>18. CASE RenewAnswered
  BY <1>18, Both, Constants, Nothing
     DEF RenewAnswered, Presentable, machines, service, server, AllVouched, Vouched,
         ImageVouched, Typed
<1>19. CASE RenewSaved
  <2>1. /\ disk'.key = disk.key /\ disk'.ident = disk.ident
        /\ UNCHANGED <<machine, image, st, owner, unvouched>>
    BY <1>19, RenewSavedMoves DEF Typed, Keyed, Is, RenewSaved, service, server
  <2> QED
    BY <2>1 DEF AllVouched, Vouched, ImageVouched
<1>20. CASE Stop
  <2>1. st'.key = NoKey /\ UNCHANGED <<machine, disk, image, owner, unvouched>>
    BY <1>20, Nothing DEF Is, Stop, machines, server
  <2> QED
    BY <2>1 DEF AllVouched, Vouched, ImageVouched
<1>21. CASE Capture
  BY <1>21, Both, Constants, Nothing
     DEF Capture, Idle, Fault, service, renewer, server, AllVouched, Vouched,
         ImageVouched, Typed
<1>22. CASE Deploy
  <2>1. image'.key = NoKey /\ disk' = image /\ UNCHANGED <<st, owner, unvouched>>
    BY <1>22, Nothing DEF Is, Deploy, service, server
  <2> QED
    BY <2>1 DEF AllVouched, Vouched, ImageVouched
<1>23. CASE Revoke
  BY <1>23, Both, Constants, Nothing
     DEF Revoke, Fault, machines, service, renewer, AllVouched, Vouched, ImageVouched, Typed
<1>24. CASE Tick
  BY <1>24, Both, Constants, Nothing
     DEF Tick, machines, service, renewer, server, AllVouched, Vouched, ImageVouched, Typed
<1>25. CASE UNCHANGED vars
  BY <1>25 DEF AllVouched, Vouched, ImageVouched, vars, machines, service, renewer, server
<1> QED
  BY <1>1, <1>2, <1>3, <1>4, <1>5, <1>6, <1>7, <1>8, <1>9, <1>10, <1>11, <1>12, <1>13,
     <1>14, <1>15, <1>16, <1>17, <1>18, <1>19, <1>20, <1>21, <1>22, <1>23, <1>24, <1>25
     DEF Next, Agent, Renewer, World, NewKey, Enroll, Poll, Identified

\* Past the clone guard, an approved key stands for this machine.
Guarded ==
    /\ pc \in Lines \ {"off", "start", "guard", "key", "ident", "cert", "config"}
    /\ st.key # NoKey /\ owner[st.key] # None
    /\ st.cert # NoKey \/ pc \in {"issued", "saved"}
    => blind \/ st.key \in unvouched \/ owner[st.key] = machine

\* Nothing goes past the clone guard with another machine's approved key.
LEMMA GuardedStep ==
    ASSUME Typed, Fresh, Held, AllVouched, Guarded, [Next]_vars
    PROVE  Guarded'
<1>1. CASE Identified
  <2>1. /\ st'.key = st.key /\ UNCHANGED <<machine, owner, unvouched>>
        /\ st'.cert = st.cert /\ pc' \notin {"issued", "saved"}
    BY <1>1, IdentityMoves DEF GoesOn, Settles, Rekeys, Remembers, Is, server
  <2>2. CASE Remembers
    BY <2>1, <2>2 DEF Guarded, Remembers
  <2>3. CASE Settles
    BY <2>1, <2>3 DEF Guarded, Settles
  <2>4. CASE pc' = "key"
    BY <2>4 DEF Guarded
  <2>5. CASE GoesOn
    <3>1. CASE pc = "guard"
      BY <2>1, <2>5, <3>1 DEF GoesOn, Guarded, AllVouched, Vouched, Typed, TypeOK
    <3>2. CASE pc # "guard"
      BY <2>1, <2>5, <3>2 DEF GoesOn, Guarded, Lines
    <3> QED
      BY <3>1, <3>2
  <2> QED
    BY <1>1, <2>2, <2>3, <2>4, <2>5, IdentityMoves DEF Rekeys
<1>2. CASE WriteKey
  BY <1>2, Both, Constants, Nothing, WriteKeyMoves
     DEF WriteKey, renewer, Guarded, Typed, TypeOK, Lines, Is
<1>3. CASE WriteIdentity
  BY <1>3, Both, Constants, Nothing, WriteIdentityMoves
     DEF WriteIdentity, renewer, server, Guarded, Typed, TypeOK, Lines, Is
<1>4. CASE RemoveCertificate
  BY <1>4, Both, Constants, Nothing, RemoveCertificateMoves
     DEF RemoveCertificate, Fault, renewer, server, Guarded, Typed, TypeOK, Lines, Is
<1>5. CASE ResetConfig
  <2>1. st'.cert = NoKey /\ pc' \in {"body", "enroll", "loop"}
    BY <1>5, ResetConfigMoves DEF Typed, TypeOK, Keyed, Is, ResetConfig
  <2> QED
    BY <2>1 DEF Guarded
<1>6. CASE Start
  BY <1>6, Both, Constants, Nothing
     DEF Start, machines, renewer, server, Guarded, Typed, TypeOK, Lines
<1>7. CASE Issue
  <2>1. st.key \in Keys /\ owner'[st.key] = machine /\ UNCHANGED <<st, machine>>
    BY <1>7, Both, Fields DEF Issue, Typed, TypeOK, Keyed, machines
  <2> QED
    BY <2>1 DEF Guarded
<1>8. CASE Save
  <2>1. /\ pc \in {"issued", "saved"} /\ st'.key = st.key
        /\ UNCHANGED <<machine, owner, unvouched, blind>>
    BY <1>8, SaveMoves DEF Typed, Keyed, Is, Save, SaveIssued, server
  <2> QED
    BY <2>1 DEF Guarded, Lines
<1>9. CASE UseCertificate
  BY <1>9, Both, Constants, Nothing
     DEF UseCertificate, machines, renewer, server, Guarded, Typed, TypeOK, Lines
<1>10. CASE PollAccepted
  BY <1>10, Both, Constants, Nothing
     DEF PollAccepted, Presentable, machines, renewer, server, Guarded, Typed, TypeOK, Lines
<1>11. CASE PollFails
  BY <1>11, Both, Constants, Nothing
     DEF PollFails, machines, renewer, server, Guarded, Typed, TypeOK, Lines
<1>12. CASE PollUnknown
  BY <1>12, Both, Constants, Nothing
     DEF PollUnknown, Presentable, machines, renewer, server, Guarded, Typed, TypeOK, Lines
<1>13. CASE Applied
  BY <1>13, Both, Constants, Nothing, AppliedMoves
     DEF Applied, Fault, renewer, server, Guarded, Typed, TypeOK, Lines, Is
<1>14. CASE Renew
  <2>1. /\ pc = "applied" /\ st'.key = st.key
        /\ UNCHANGED <<machine, owner, unvouched, blind>>
    BY <1>14, RenewMoves DEF Typed, Is, Renew, server
  <2> QED
    BY <2>1 DEF Guarded, Held, Lines
<1>15. CASE PollRefused
  BY <1>15, Both, Constants, Nothing, PollRefusedMoves
     DEF PollRefused, renewer, server, Guarded, Typed, TypeOK, Lines, Is
<1>16. CASE DropIssued
  BY <1>16, Both, Constants, Nothing, DropIssuedMoves
     DEF DropIssued, renewer, server, Guarded, Typed, TypeOK, Lines, Is
<1>17. CASE RenewByHand
  BY <1>17, Both, Constants, Nothing
     DEF RenewByHand, Fault, machines, service, server, Guarded, Typed, TypeOK, Lines
<1>18. CASE RenewAnswered
  BY <1>18, Both, Constants, Nothing
     DEF RenewAnswered, Presentable, machines, service, server, Guarded, Typed, TypeOK,
         Lines
<1>19. CASE RenewSaved
  BY <1>19, Both, Constants, Nothing, RenewSavedMoves
     DEF RenewSaved, service, server, Guarded, Typed, TypeOK, Lines, Is
<1>20. CASE Stop
  BY <1>20, Both, Constants, Nothing
     DEF Stop, Fault, machines, renewer, server, Guarded, Typed, TypeOK, Lines
<1>21. CASE Capture
  BY <1>21, Both, Constants, Nothing
     DEF Capture, Idle, Fault, service, renewer, server, Guarded, Typed, TypeOK, Lines
<1>22. CASE Deploy
  BY <1>22, Both, Constants, Nothing
     DEF Deploy, Idle, service, renewer, server, Guarded, Typed, TypeOK, Lines
<1>23. CASE Revoke
  BY <1>23, Both, Constants, Nothing
     DEF Revoke, Fault, machines, service, renewer, Guarded, Typed, TypeOK, Lines
<1>24. CASE Tick
  BY <1>24, Both, Constants, Nothing
     DEF Tick, machines, service, renewer, server, Guarded, Typed, TypeOK, Lines
<1>25. CASE UNCHANGED vars
  BY <1>25 DEF Guarded, vars, machines, service, renewer, server
<1> QED
  BY <1>1, <1>2, <1>3, <1>4, <1>5, <1>6, <1>7, <1>8, <1>9, <1>10, <1>11, <1>12, <1>13,
     <1>14, <1>15, <1>16, <1>17, <1>18, <1>19, <1>20, <1>21, <1>22, <1>23, <1>24, <1>25
     DEF Next, Agent, Renewer, World, NewKey, Enroll, Poll, Identified

-----------------------------------------------------------------------------
(* Whose certificate, facts and revision.                                  *)

Clean(s) == s.cert \in {NoKey, s.key} /\ s.cfg.of \in {NoKey, s.key}

Owned ==
    /\ torn \/ Making \/ Clean(disk)
    /\ torn \/ Clean(st)
    /\ Clean(image)

\* Every step keeps certificate and config.json with their key, or tears the disk.
LEMMA OwnedStep ==
    ASSUME Typed, Fresh, Held, Owned, [Next]_vars
    PROVE  Owned'
<1>1. CASE Identified
  <2>1. /\ st'.key = st.key /\ disk'.key = disk.key /\ disk.key = st.key
        /\ st'.cert = st.cert /\ disk'.cert = disk.cert
        /\ st'.cfg.of = st.cfg.of /\ disk'.cfg.of \in {disk.cfg.of, st.cfg.of}
        /\ UNCHANGED <<image, torn>> /\ ~Making
    BY <1>1, IdentityMoves
       DEF GoesOn, Settles, Rekeys, Remembers, Is, Held, Synced, Making
  <2> QED
    BY <2>1 DEF Owned, Clean
<1>2. CASE WriteKey
  BY <1>2, Both, Constants, Nothing, WriteKeyMoves
     DEF WriteKey, renewer, Owned, Clean, Making, Held, Synced, Typed, TypeOK, Keyed, Is
<1>3. CASE WriteIdentity
  BY <1>3, Both, Constants, Nothing, WriteIdentityMoves
     DEF WriteIdentity, renewer, server, Owned, Clean, Making, Held, Synced, Typed,
         TypeOK, Keyed, Is
<1>4. CASE RemoveCertificate
  BY <1>4, Both, Constants, Nothing, RemoveCertificateMoves
     DEF RemoveCertificate, Fault, renewer, server, Owned, Clean, Making, Held, Synced,
         Typed, TypeOK, Keyed, Is
<1>5. CASE ResetConfig
  BY <1>5, Both, Constants, Nothing, ResetConfigMoves
     DEF ResetConfig, renewer, server, Owned, Clean, Making, Held, Synced, Typed, TypeOK,
         Keyed, Is
<1>6. CASE Start
  BY <1>6, Both, Constants, Nothing
     DEF Start, machines, renewer, server, Owned, Clean, Making, Held, Synced, Typed,
         TypeOK, Keyed
<1>7. CASE Issue
  BY <1>7, Both, Constants, Nothing
     DEF Issue, machines, renewer, Owned, Clean, Making, Held, Synced, Typed, TypeOK, Keyed
<1>8. CASE Save
  BY <1>8, Both, Constants, Nothing, SaveMoves
     DEF Save, SaveIssued, renewer, server, Owned, Clean, Making, Held, Synced, Typed,
         TypeOK, Keyed, Is
<1>9. CASE UseCertificate
  BY <1>9, Both, Constants, Nothing
     DEF UseCertificate, machines, renewer, server, Owned, Clean, Making, Held, Synced,
         Typed, TypeOK, Keyed
<1>10. CASE PollAccepted
  BY <1>10, Both, Constants, Nothing
     DEF PollAccepted, Presentable, machines, renewer, server, Owned, Clean, Making,
         Held, Synced, Typed, TypeOK, Keyed
<1>11. CASE PollFails
  BY <1>11, Both, Constants, Nothing
     DEF PollFails, machines, renewer, server, Owned, Clean, Making, Held, Synced, Typed,
         TypeOK, Keyed
<1>12. CASE PollUnknown
  BY <1>12, Both, Constants, Nothing
     DEF PollUnknown, Presentable, machines, renewer, server, Owned, Clean, Making, Held,
         Synced, Typed, TypeOK, Keyed
<1>13. CASE Applied
  BY <1>13, Both, Constants, Nothing, AppliedMoves
     DEF Applied, Fault, renewer, server, Owned, Clean, Making, Held, Synced, Typed,
         TypeOK, Keyed, Is
<1>14. CASE Renew
  BY <1>14, Both, Constants, Nothing, RenewMoves
     DEF Renew, renewer, server, Owned, Clean, Making, Held, Synced, Typed, TypeOK,
         Keyed, Is
<1>15. CASE PollRefused
  BY <1>15, Both, Constants, Nothing, PollRefusedMoves
     DEF PollRefused, renewer, server, Owned, Clean, Making, Held, Synced, Typed, TypeOK,
         Keyed, Is
<1>16. CASE DropIssued
  BY <1>16, Both, Constants, Nothing, DropIssuedMoves
     DEF DropIssued, renewer, server, Owned, Clean, Making, Held, Synced, Typed, TypeOK,
         Keyed, Is
<1>17. CASE RenewByHand
  BY <1>17, Both, Constants, Nothing
     DEF RenewByHand, Fault, machines, service, server, Owned, Clean, Making, Held,
         Synced, Typed, TypeOK, Keyed
<1>18. CASE RenewAnswered
  BY <1>18, Both, Constants, Nothing
     DEF RenewAnswered, Presentable, machines, service, server, Owned, Clean, Making,
         Held, Synced, Typed, TypeOK, Keyed
<1>19. CASE RenewSaved
  BY <1>19, Both, Constants, Nothing, RenewSavedMoves
     DEF RenewSaved, service, server, Owned, Clean, Making, Held, Synced, Typed, TypeOK,
         Keyed, Is
<1>20. CASE Stop
  <2>1. /\ torn' = (torn \/ Making) /\ UNCHANGED <<disk, image>> /\ ~Making'
        /\ st'.key = NoKey /\ st'.cert = NoKey /\ st'.cfg.of = NoKey
    BY <1>20, Nothing DEF Is, Stop, Making, machines
  <2> QED
    BY <2>1 DEF Owned, Clean
<1>21. CASE Capture
  BY <1>21, Both, Constants, Nothing
     DEF Capture, Idle, Fault, service, renewer, server, Owned, Clean, Making, Held,
         Synced, Typed, TypeOK, Keyed
<1>22. CASE Deploy
  <2>1. /\ UNCHANGED st /\ disk' = image /\ ~Making'
        /\ image'.key = NoKey /\ image'.cert = NoKey /\ image'.cfg.of = NoKey
        /\ st.cert = NoKey /\ st.cfg.of = NoKey
    BY <1>22, Nothing DEF Is, Deploy, Idle, Held, Making, service
  <2> QED
    BY <2>1 DEF Owned, Clean
<1>23. CASE Revoke
  BY <1>23, Both, Constants, Nothing
     DEF Revoke, Fault, machines, service, renewer, Owned, Clean, Making, Held, Synced,
         Typed, TypeOK, Keyed
<1>24. CASE Tick
  BY <1>24, Both, Constants, Nothing
     DEF Tick, machines, service, renewer, server, Owned, Clean, Making, Held, Synced,
         Typed, TypeOK, Keyed
<1>25. CASE UNCHANGED vars
  BY <1>25 DEF Owned, Clean, Making, vars, machines, service, renewer, server
<1> QED
  BY <1>1, <1>2, <1>3, <1>4, <1>5, <1>6, <1>7, <1>8, <1>9, <1>10, <1>11, <1>12, <1>13,
     <1>14, <1>15, <1>16, <1>17, <1>18, <1>19, <1>20, <1>21, <1>22, <1>23, <1>24, <1>25
     DEF Next, Agent, Renewer, World, NewKey, Enroll, Poll, Identified

-----------------------------------------------------------------------------
(* When a key is replaced.                                                 *)

Replaceable ==
    pc = "key" => disk.ident # machine \/ disk.key = NoKey \/ owner[disk.key] # machine

\* Only an enrollment that does not work comes to be replaced.
LEMMA ReplaceableStep ==
    ASSUME Typed, Held, Replaceable, [Next]_vars
    PROVE  Replaceable'
<1>1. CASE Identified
  <2>1. UNCHANGED <<machine, owner>>
    BY <1>1, IdentityMoves DEF server
  <2>2. CASE pc' # "key"
    BY <2>2 DEF Replaceable
  <2>3. CASE UNCHANGED disk /\ \E p : Rekeys(p)
    <3>1. disk.key = st.key /\ disk.ident = st.ident
      BY <1>1, IdentityMoves DEF Held, Synced
    <3> QED
      BY <2>1, <2>3, <3>1 DEF Replaceable, Rekeys
  <2> QED
    BY <1>1, <2>2, <2>3, IdentityMoves DEF GoesOn, Settles, Remembers
<1>2. CASE WriteKey
  BY <1>2, Both, Constants, Nothing, WriteKeyMoves
     DEF WriteKey, renewer, Replaceable, Typed, TypeOK, Is
<1>3. CASE WriteIdentity
  BY <1>3, Both, Constants, Nothing, WriteIdentityMoves
     DEF WriteIdentity, renewer, server, Replaceable, Typed, TypeOK, Is
<1>4. CASE RemoveCertificate
  BY <1>4, Both, Constants, Nothing, RemoveCertificateMoves
     DEF RemoveCertificate, Fault, renewer, server, Replaceable, Typed, TypeOK, Is
<1>5. CASE ResetConfig
  BY <1>5, Both, Constants, Nothing, ResetConfigMoves
     DEF ResetConfig, renewer, server, Replaceable, Typed, TypeOK, Is
<1>6. CASE Start
  BY <1>6, Both, Constants, Nothing
     DEF Start, machines, renewer, server, Replaceable, Typed, TypeOK
<1>7. CASE Issue
  BY <1>7, Both, Constants, Nothing
     DEF Issue, machines, renewer, Replaceable, Typed, TypeOK
<1>8. CASE Save
  <2>1. pc' # "key"
    BY <1>8, SaveMoves DEF Typed, TypeOK, Keyed, Save, SaveIssued
  <2> QED
    BY <2>1 DEF Replaceable
<1>9. CASE UseCertificate
  BY <1>9, Both, Constants, Nothing
     DEF UseCertificate, machines, renewer, server, Replaceable, Typed, TypeOK
<1>10. CASE PollAccepted
  BY <1>10, Both, Constants, Nothing
     DEF PollAccepted, Presentable, machines, renewer, server, Replaceable, Typed, TypeOK
<1>11. CASE PollFails
  BY <1>11, Both, Constants, Nothing
     DEF PollFails, machines, renewer, server, Replaceable, Typed, TypeOK
<1>12. CASE PollUnknown
  BY <1>12, Both, Constants, Nothing
     DEF PollUnknown, Presentable, machines, renewer, server, Replaceable, Typed, TypeOK
<1>13. CASE Applied
  BY <1>13, Both, Constants, Nothing, AppliedMoves
     DEF Applied, Fault, renewer, server, Replaceable, Typed, TypeOK, Is
<1>14. CASE Renew
  BY <1>14, Both, Constants, Nothing, RenewMoves
     DEF Renew, renewer, server, Replaceable, Typed, TypeOK, Is
<1>15. CASE PollRefused
  BY <1>15, Both, Constants, Nothing, PollRefusedMoves
     DEF PollRefused, renewer, server, Replaceable, Typed, TypeOK, Is
<1>16. CASE DropIssued
  BY <1>16, Both, Constants, Nothing, DropIssuedMoves
     DEF DropIssued, renewer, server, Replaceable, Typed, TypeOK, Is
<1>17. CASE RenewByHand
  BY <1>17, Both, Constants, Nothing
     DEF RenewByHand, Fault, machines, service, server, Replaceable, Typed, TypeOK
<1>18. CASE RenewAnswered
  BY <1>18, Both, Constants, Nothing
     DEF RenewAnswered, Presentable, machines, service, server, Replaceable, Typed, TypeOK
<1>19. CASE RenewSaved
  <2>1. disk'.key = disk.key /\ disk'.ident = disk.ident
        /\ UNCHANGED <<pc, machine, owner>>
    BY <1>19, RenewSavedMoves DEF Typed, Keyed, RenewSaved, service, server, Is
  <2> QED
    BY <2>1 DEF Replaceable
<1>20. CASE Stop
  BY <1>20, Both, Constants, Nothing
     DEF Stop, Fault, machines, renewer, server, Replaceable, Typed, TypeOK
<1>21. CASE Capture
  BY <1>21, Both, Constants, Nothing
     DEF Capture, Idle, Fault, service, renewer, server, Replaceable, Typed, TypeOK
<1>22. CASE Deploy
  BY <1>22, Both, Constants, Nothing
     DEF Deploy, Idle, service, renewer, server, Replaceable, Typed, TypeOK
<1>23. CASE Revoke
  BY <1>23, Both, Constants, Nothing
     DEF Revoke, Fault, machines, service, renewer, Replaceable, Typed, TypeOK
<1>24. CASE Tick
  BY <1>24, Both, Constants, Nothing
     DEF Tick, machines, service, renewer, server, Replaceable, Typed, TypeOK
<1>25. CASE UNCHANGED vars
  BY <1>25 DEF Replaceable, vars, machines, service, renewer, server
<1> QED
  BY <1>1, <1>2, <1>3, <1>4, <1>5, <1>6, <1>7, <1>8, <1>9, <1>10, <1>11, <1>12, <1>13,
     <1>14, <1>15, <1>16, <1>17, <1>18, <1>19, <1>20, <1>21, <1>22, <1>23, <1>24, <1>25
     DEF Next, Agent, Renewer, World, NewKey, Enroll, Poll, Identified

-----------------------------------------------------------------------------
(* Since when the agent has been refused.                                  *)

Counted(s) == s.cfg.since # Never => refused # Never /\ refused <= s.cfg.since

Graced ==
    /\ refused <= clock
    /\ disk.cfg.since <= clock /\ image.cfg.since <= clock
    /\ st.cfg.since <= clock /\ copy.cfg.since <= clock
    /\ torn \/ (Counted(disk) /\ Counted(st))

\* Every step keeps the start of the refusals honest.
LEMMA GracedStep ==
    ASSUME Typed, Held, Graced, [Next]_vars
    PROVE  Graced'
<1>1. CASE Identified
  <2>1. /\ st'.cfg.since = st.cfg.since
        /\ disk'.cfg.since \in {disk.cfg.since, st.cfg.since}
        /\ UNCHANGED <<image, copy, torn, refused, clock>>
    BY <1>1, IdentityMoves DEF GoesOn, Settles, Rekeys, Remembers, Is, renewer
  <2> QED
    BY <2>1 DEF Graced, Counted
<1>2. CASE WriteKey
  BY <1>2, Both, Fields, Constants, Nothing, WriteKeyMoves
     DEF WriteKey, renewer, Graced, Counted, Typed, TypeOK, Keyed, Is
<1>3. CASE WriteIdentity
  BY <1>3, Both, Fields, Constants, Nothing, WriteIdentityMoves
     DEF WriteIdentity, renewer, server, Graced, Counted, Typed, TypeOK, Keyed, Is
<1>4. CASE RemoveCertificate
  BY <1>4, Both, Fields, Constants, Nothing, RemoveCertificateMoves
     DEF RemoveCertificate, Fault, renewer, server, Graced, Counted, Typed, TypeOK,
         Keyed, Is
<1>5. CASE ResetConfig
  BY <1>5, Both, Fields, Constants, Nothing, ResetConfigMoves
     DEF ResetConfig, renewer, server, Graced, Counted, Typed, TypeOK, Keyed, Is
<1>6. CASE Start
  BY <1>6, Both, Fields, Constants, Nothing
     DEF Start, machines, renewer, server, Graced, Counted, Typed, TypeOK, Keyed
<1>7. CASE Issue
  BY <1>7, Both, Fields, Constants, Nothing
     DEF Issue, machines, renewer, Graced, Counted, Typed, TypeOK, Keyed
<1>8. CASE Save
  BY <1>8, Both, Fields, Constants, Nothing, SaveMoves
     DEF Save, SaveIssued, renewer, server, Graced, Counted, Typed, TypeOK, Keyed, Is
<1>9. CASE UseCertificate
  BY <1>9, Both, Fields, Constants, Nothing
     DEF UseCertificate, machines, renewer, server, Graced, Counted, Typed, TypeOK, Keyed
<1>10. CASE PollAccepted
  BY <1>10, Both, Fields, Constants, Nothing
     DEF PollAccepted, Presentable, machines, renewer, server, Graced, Counted, Typed,
         TypeOK, Keyed
<1>11. CASE PollFails
  BY <1>11, Both, Fields, Constants, Nothing
     DEF PollFails, machines, renewer, server, Graced, Counted, Typed, TypeOK, Keyed
<1>12. CASE PollUnknown
  BY <1>12, Both, Fields, Constants, Nothing
     DEF PollUnknown, Presentable, machines, renewer, server, Graced, Counted, Typed,
         TypeOK, Keyed
<1>13. CASE Applied
  BY <1>13, Both, Fields, Constants, Nothing, AppliedMoves
     DEF Applied, Fault, renewer, server, Graced, Counted, Typed, TypeOK, Keyed, Is
<1>14. CASE Renew
  BY <1>14, Both, Fields, Constants, Nothing, RenewMoves
     DEF Renew, renewer, server, Graced, Counted, Typed, TypeOK, Keyed, Is
<1>15. CASE PollRefused
  <2>1. /\ refused' = First(refused) /\ UNCHANGED <<image, copy, clock, torn>>
        /\ st'.cfg.since = First(st.cfg.since)
        /\ \/ st.cfg.since = Never /\ disk'.cfg.since = First(st.cfg.since)
           \/ disk' = disk
    BY <1>15, PollRefusedMoves DEF Typed, Is, PollRefused, renewer
  <2>2. /\ clock \in Nat /\ clock # Never /\ refused \in Nat
        /\ st.cfg.since \in Nat /\ disk.cfg.since \in Nat
    BY Both, Fields, Constants DEF Typed, TypeOK
  <2>3. First(refused) <= clock /\ First(st.cfg.since) <= clock
    BY <2>2 DEF First, Graced
  <2>4. ASSUME Counted(st)
        PROVE  First(refused) # Never /\ First(refused) <= First(st.cfg.since)
    BY <2>2, <2>4 DEF First, Counted, Graced
  <2>5. ASSUME Counted(disk), disk.cfg.since # Never
        PROVE  First(refused) # Never /\ First(refused) <= disk.cfg.since
    BY <2>2, <2>5 DEF First, Counted
  <2> QED
    BY <2>1, <2>3, <2>4, <2>5 DEF Graced, Counted
<1>16. CASE DropIssued
  BY <1>16, Both, Fields, Constants, Nothing, DropIssuedMoves
     DEF DropIssued, renewer, server, Graced, Counted, Typed, TypeOK, Keyed, Is
<1>17. CASE RenewByHand
  BY <1>17, Both, Fields, Constants, Nothing
     DEF RenewByHand, Fault, machines, service, server, Graced, Counted, Typed, TypeOK,
         Keyed
<1>18. CASE RenewAnswered
  <2>1. /\ copy' = copy \/ copy'.cfg.since = 0
        /\ UNCHANGED <<disk, image, st, torn, refused, clock>> /\ clock >= 0
    BY <1>18, Nothing, Constants DEF Is, RenewAnswered, machines, service, Typed, TypeOK
  <2> QED
    BY <2>1 DEF Graced, Counted
<1>19. CASE RenewSaved
  <2>1. /\ disk'.cfg.since \in {disk.cfg.since, copy.cfg.since}
        /\ copy'.cfg.since \in {copy.cfg.since, 0}
        /\ torn' \/ (~torn /\ disk'.cfg.since = disk.cfg.since)
        /\ UNCHANGED <<image, st, refused, clock>> /\ clock >= 0
    BY <1>19, RenewSavedMoves, Nothing, Constants
       DEF Typed, TypeOK, Keyed, Is, RenewSaved, service
  <2> QED
    BY <2>1 DEF Graced, Counted
<1>20. CASE Stop
  <2>1. /\ (torn => torn') /\ st'.cfg.since = Never /\ Never <= clock
        /\ UNCHANGED <<disk, image, copy, refused, clock>>
    BY <1>20, Nothing, Constants DEF Is, Stop, machines, renewer, Typed, TypeOK
  <2> QED
    BY <2>1 DEF Graced, Counted
<1>21. CASE Capture
  BY <1>21, Both, Fields, Constants, Nothing
     DEF Capture, Idle, Fault, service, renewer, server, Graced, Counted, Typed, TypeOK,
         Keyed
<1>22. CASE Deploy
  <2>1. /\ disk' = image /\ refused' = image.cfg.since /\ image'.cfg.since = Never
        /\ UNCHANGED <<st, copy, clock>> /\ st.cfg.since = Never /\ Never <= clock
        /\ image.cfg.since \in Nat
    BY <1>22, Both, Fields, Nothing, Constants
       DEF Is, Deploy, Idle, service, renewer, Held, Typed, TypeOK
  <2> QED
    BY <2>1 DEF Graced, Counted
<1>23. CASE Revoke
  BY <1>23, Both, Fields, Constants, Nothing
     DEF Revoke, Fault, machines, service, renewer, Graced, Counted, Typed, TypeOK, Keyed
<1>24. CASE Tick
  BY <1>24, Both, Fields, Constants, Nothing
     DEF Tick, machines, service, renewer, server, Graced, Counted, Typed, TypeOK, Keyed
<1>25. CASE UNCHANGED vars
  BY <1>25 DEF Graced, Counted, vars, machines, service, renewer, server
<1> QED
  BY <1>1, <1>2, <1>3, <1>4, <1>5, <1>6, <1>7, <1>8, <1>9, <1>10, <1>11, <1>12, <1>13,
     <1>14, <1>15, <1>16, <1>17, <1>18, <1>19, <1>20, <1>21, <1>22, <1>23, <1>24, <1>25
     DEF Next, Agent, Renewer, World, NewKey, Enroll, Poll, Identified

-----------------------------------------------------------------------------
(* The invariant, and what it gives.                                       *)

EInv == /\ Typed /\ Fresh /\ Held /\ AllVouched /\ Guarded
        /\ Owned /\ Replaceable /\ Graced

\* The invariant holds at first.
LEMMA EStart ==
    ASSUME Init
    PROVE  EInv
<1>1. Typed
  BY TypesStart
<1>2. /\ disk.key = 0 /\ image.key = 0 /\ st.key = 0 /\ made = 0
      /\ disk.ident = None /\ image.ident = None /\ st.ident = None
      /\ disk.cert = NoKey /\ image.cert = NoKey /\ st.cert = NoKey
      /\ disk.cfg.of = NoKey /\ image.cfg.of = NoKey /\ st.cfg.of = NoKey
      /\ disk.cfg.since = 0 /\ image.cfg.since = 0 /\ st.cfg.since = 0
      /\ copy.cfg.since = 0
  BY Nothing, Constants DEF Init, Is
<1>3. Fresh /\ Held
  BY <1>2 DEF Init, Fresh, Held, Making, Synced
<1>4. AllVouched /\ Guarded /\ Replaceable
  BY <1>2, Constants DEF Init, AllVouched, Vouched, ImageVouched, Guarded, Replaceable
<1>5. Owned
  BY <1>2 DEF Init, Owned, Clean
<1>6. Graced
  BY <1>2, Constants DEF Init, Graced, Counted
<1> QED
  BY <1>1, <1>3, <1>4, <1>5, <1>6 DEF EInv

\* Every step keeps it.
LEMMA EStep ==
    ASSUME EInv, [Next]_vars
    PROVE  EInv'
  BY TypesStep, FreshStep, HeldStep, VouchedStep, GuardedStep, OwnedStep, ReplaceableStep,
     GracedStep
     DEF EInv

\* The inductive invariant of enrollment, on which the theorems below rest.
THEOREM EAlways == Spec => []EInv
<1>1. Init => EInv
  BY EStart
<1>2. EInv /\ [Next]_vars => EInv'
  BY EStep
<1> QED
  BY <1>1, <1>2, PTL DEF Spec

\* Enrollment.TypeOK: every state directory, image and copy is one the code can write,
\* and every counter stays within its bound.
THEOREM TypeCorrect == Spec => []TypeOK
<1>1. EInv => TypeOK
  BY DEF EInv, Typed
<1> QED
  BY <1>1, EAlways, PTL

\* NotAsAnother: no poll is served as another machine, however often images are taken
\* and deployed, the firmware fails to be read and the service is cut off.
THEOREM NeverAsAnother == Spec => []NotAsAnother
<1>1. ASSUME EInv PROVE NotAsAnother
  <2>1. SUFFICES ASSUME pc = "applied"
                 PROVE  blind \/ st.key \in unvouched \/ owner[st.key] = machine
    BY DEF NotAsAnother
  <2>2. st.cert # NoKey /\ st.key # NoKey /\ owner[st.key] # None
    BY <1>1, <2>1 DEF EInv, Held, Typed, Keyed
  <2> QED
    BY <1>1, <2>1, <2>2 DEF EInv, Guarded, Lines
<1> QED
  BY <1>1, EAlways, PTL

\* OwnState: what a poll says is applied or sent already was applied or sent by the key
\* the poll is signed with.
THEOREM AlwaysOwnState == Spec => []OwnState
<1>1. ASSUME EInv PROVE OwnState
  BY <1>1 DEF EInv, OwnState, Owned, Clean, Held, Presentable
<1> QED
  BY <1>1, EAlways, PTL

\* KeepsEnrollment: an enrollment that works is never given up for a new key.
THEOREM EnrollmentKept == Spec => KeepsEnrollment
<1>1. ASSUME EInv PROVE ~(Enrolled /\ pc = "key")
  <2>1. ASSUME Enrolled PROVE disk.key # NoKey
    BY <1>1, <2>1, Constants DEF Enrolled, EInv, Typed, TypeOK
  <2> QED
    BY <1>1, <2>1 DEF EInv, Replaceable, Enrolled
<1>2. ASSUME EInv, [Next]_vars
      PROVE  [Enrolled /\ pc = "key" => disk'.key = disk.key]_vars
  BY <1>1, <1>2
<1> QED
  BY <1>2, EAlways, PTL DEF KeepsEnrollment, Spec

\* GraceKept: a certificate the server knows is dropped only after the grace.
THEOREM GraceAlwaysKept == Spec => GraceKept
<1>1. ASSUME EInv, [Next]_vars
      PROVE  [pc = "poll" /\ pc' = "drop" /\ st.key \in bound /\ ~torn
                => clock - refused' >= Grace]_vars
  <2>1. SUFFICES ASSUME Next, pc = "poll", pc' = "drop", st.key \in bound, ~torn
                 PROVE  clock - refused' >= Grace
    BY <1>1
  <2>2. PollRefused
    <3>1. ~Identified
      BY <1>1, <2>1, IdentityMoves DEF EInv, GoesOn, Settles, Rekeys, Remembers
    <3>2. ~NewKey /\ ~Issue /\ ~Save
      BY <2>1 DEF NewKey, WriteKey, WriteIdentity, RemoveCertificate, ResetConfig, Issue,
                  Save, SaveIssued
    <3>3. ~Renewer
      BY <2>1 DEF Renewer, RenewByHand, RenewAnswered, RenewSaved, service
    <3>4. ~World
      BY <2>1 DEF World, Stop, Capture, Deploy, Revoke, Tick, service
    <3>5. /\ ~Start /\ ~UseCertificate /\ ~PollAccepted /\ ~PollFails /\ ~PollUnknown
          /\ ~Applied /\ ~Renew /\ ~DropIssued
      BY <2>1 DEF Start, UseCertificate, PollAccepted, PollFails, PollUnknown, Applied,
                  Renew, DropIssued
    <3> QED
      BY <2>1, <3>1, <3>2, <3>3, <3>4, <3>5 DEF Next, Agent, Enroll, Poll, Identified
  <2>3. /\ clock \in Nat /\ refused \in Nat /\ st.cfg.since \in Nat
        /\ Grace \in Nat /\ Grace # 0
    BY <1>1, Both, Fields, EnrollmentConstants DEF EInv, Typed, TypeOK
  <2>4. refused' = First(refused) /\ clock - First(st.cfg.since) >= Grace
    BY <2>1, <2>2 DEF PollRefused, UnauthorizedTooLong, UnauthorizedSince
  <2>5. st.cfg.since # Never
    BY <2>3, <2>4 DEF First
  <2>6. refused # Never /\ refused <= st.cfg.since
    BY <1>1, <2>1, <2>5 DEF EInv, Graced, Counted
  <2> QED
    BY <2>3, <2>4, <2>5, <2>6 DEF First
<1> QED
  BY <1>1, EAlways, PTL DEF GraceKept, Spec

=============================================================================
