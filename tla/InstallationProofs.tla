-------------------------- MODULE InstallationProofs --------------------------
(***************************************************************************)
(* Theorems about Installation, for any servers, CAs, command lines and    *)
(* number of faults.                                                       *)
(*                                                                         *)
(* A command's step decides on up to three writes at once and does them    *)
(* one by one, so what the steps keep is said of the disk as it is and of  *)
(* Target, the disk once they are all done.  Every step has a lemma that   *)
(* tells its writes and where it goes (Goes, Gone); Settled then says what *)
(* holds of a disk nobody is at work on, Aboard what a client verifies     *)
(* with, Anchored what a new key can take away, and Planned what setup is  *)
(* after at each step: the trust of `before`, or one to settle.            *)
(***************************************************************************)
EXTENDS Installation, SequenceTheorems, TLAPS

-----------------------------------------------------------------------------
(* Types.                                                                  *)

Writes == [file : {"ca"}, value : Cas \cup {None}] \cup [file : {"conf"}, value : Config]
          \cup [file : {"cert"}, value : Trusts \cup {None}]
Flags == [server : Servers \cup {None}, ca : Cas \cup {None}, fingerprint : Cas \cup {None},
          token : BOOLEAN, console : {"nobody", "yes", "no"}]
Places == {"idle", "check", "open", "writing", "restore", "reopen", "drop", "token", "key",
           "enroll", "register", "failed", "start", "run", "fatal"}
Processes ==
    [by : {"nobody", "setup", "install", "service"}, pc : Places, flags : Flags,
     todo : Seq(Writes), onward : Places, otherwise : Places, forgot : BOOLEAN,
     checked : BOOLEAN, trust : Trusts \cup {None}, before : Disk]

\* What the constants are, as the provers need it.
LEMMA Constants ==
    /\ None \notin Servers /\ None \notin Cas /\ None # "public" /\ None # "system"
    /\ "public" \notin Cas /\ "system" \notin Cas /\ InStore \subseteq Cas
    /\ CommandLines \subseteq Flags
  BY InstallationAssumption DEF Flags

-----------------------------------------------------------------------------
(* Files.                                                                  *)

Is(d, conf, ca, cert) == d \in Disk /\ d.conf = conf /\ d.ca = ca /\ d.cert = cert
Apply(d, w) == [d EXCEPT ![w.file] = w.value]

\* The files of a state directory, one by one.
LEMMA DiskFields ==
    ASSUME NEW d \in Disk
    PROVE  /\ d.conf \in Config /\ d.ca \in Cas \cup {None} /\ d.cert \in Trusts \cup {None}
           /\ d.conf.server \in Servers \cup {None} /\ d.conf.system \in BOOLEAN
           /\ d.conf.token \in BOOLEAN
           /\ Is(d, d.conf, d.ca, d.cert)
  BY DEF Disk, Config, Is

\* config.json with another server.
LEMMA ConfigServer ==
    ASSUME NEW f \in Config, NEW s \in Servers \cup {None}
    PROVE  /\ [f EXCEPT !.server = s] \in Config
           /\ [f EXCEPT !.server = s].server = s
           /\ [f EXCEPT !.server = s].system = f.system
           /\ [f EXCEPT !.server = s].token = f.token
  BY DEF Config

\* config.json with another trust or token field.
LEMMA ConfigWith ==
    ASSUME NEW f \in Config, NEW b \in BOOLEAN
    PROVE  /\ [f EXCEPT !.system = b] \in Config
           /\ [f EXCEPT !.system = b].server = f.server
           /\ [f EXCEPT !.system = b].system = b
           /\ [f EXCEPT !.system = b].token = f.token
           /\ [f EXCEPT !.token = b] \in Config
           /\ [f EXCEPT !.token = b].server = f.server
           /\ [f EXCEPT !.token = b].system = f.system
           /\ [f EXCEPT !.token = b].token = b
  BY DEF Config

\* The writes a command makes, by file.
LEMMA WriteIs ==
    /\ \A c \in Cas \cup {None} : SetCa(c) \in Writes /\ SetCa(c).file = "ca" /\ SetCa(c).value = c
    /\ \A f \in Config :
          SetConf(f) \in Writes /\ SetConf(f).file = "conf" /\ SetConf(f).value = f
    /\ \A c \in Trusts \cup {None} :
          SetCert(c) \in Writes /\ SetCert(c).file = "cert" /\ SetCert(c).value = c
  BY DEF SetCa, SetConf, SetCert, Writes

\* One write changes its file and nothing else.
LEMMA ApplyIs ==
    ASSUME NEW d \in Disk, NEW w \in Writes
    PROVE  /\ w.file = "ca" => Is(Apply(d, w), d.conf, w.value, d.cert)
           /\ w.file = "conf" => Is(Apply(d, w), w.value, d.ca, d.cert)
           /\ w.file = "cert" => Is(Apply(d, w), d.conf, d.ca, w.value)
           /\ Apply(d, w) \in Disk
<1>1. CASE w \in [file : {"ca"}, value : Cas \cup {None}]
  BY <1>1 DEF Disk, Is, Apply
<1>2. CASE w \in [file : {"conf"}, value : Config]
  BY <1>2 DEF Disk, Is, Apply
<1>3. CASE w \in [file : {"cert"}, value : Trusts \cup {None}]
  BY <1>3 DEF Disk, Is, Apply
<1> QED
  BY <1>1, <1>2, <1>3 DEF Writes

\* The disk once every write of todo is done.
After(d, todo) ==
    IF Len(todo) = 0 THEN d
    ELSE IF Len(todo) = 1 THEN Apply(d, todo[1])
    ELSE IF Len(todo) = 2 THEN Apply(Apply(d, todo[1]), todo[2])
    ELSE Apply(Apply(Apply(d, todo[1]), todo[2]), todo[3])

\* A list of one write.
LEMMA OneWrite ==
    ASSUME NEW u \in Writes, NEW d
    PROVE  /\ <<u>> \in Seq(Writes) /\ Len(<<u>>) = 1 /\ <<u>> # <<>>
           /\ <<u>>[1] = u /\ After(d, <<u>>) = Apply(d, u)
  BY DEF After

\* A list of two writes.
LEMMA TwoWrites ==
    ASSUME NEW u \in Writes, NEW v \in Writes, NEW d
    PROVE  /\ <<u, v>> \in Seq(Writes) /\ Len(<<u, v>>) = 2 /\ <<u, v>> # <<>>
           /\ <<u, v>>[1] = u /\ <<u, v>>[2] = v
           /\ After(d, <<u, v>>) = Apply(Apply(d, u), v)
  BY DEF After

\* A list of three writes.
LEMMA ThreeWrites ==
    ASSUME NEW u \in Writes, NEW v \in Writes, NEW w \in Writes, NEW d
    PROVE  /\ <<u, v, w>> \in Seq(Writes) /\ Len(<<u, v, w>>) = 3 /\ <<u, v, w>> # <<>>
           /\ <<u, v, w>>[1] = u /\ <<u, v, w>>[2] = v /\ <<u, v, w>>[3] = w
           /\ After(d, <<u, v, w>>) = Apply(Apply(Apply(d, u), v), w)
  BY DEF After

\* Lists of writes joined, as the lists they are.
LEMMA Joined ==
    ASSUME NEW u \in Writes, NEW v \in Writes, NEW w \in Writes
    PROVE  /\ <<u>> \o <<v>> = <<u, v>> /\ <<u, v>> \o <<w>> = <<u, v, w>>
           /\ <<u>> \o <<>> = <<u>>
<1>1. /\ <<u>> \in Seq(Writes) /\ <<v>> \in Seq(Writes) /\ <<w>> \in Seq(Writes)
      /\ <<u, v>> \in Seq(Writes) /\ <<u, v, w>> \in Seq(Writes)
      /\ Len(<<u>>) = 1 /\ Len(<<v>>) = 1 /\ Len(<<w>>) = 1
      /\ Len(<<u, v>>) = 2 /\ Len(<<u, v, w>>) = 3
      /\ <<u>>[1] = u /\ <<v>>[1] = v /\ <<w>>[1] = w
      /\ <<u, v>>[1] = u /\ <<u, v>>[2] = v
      /\ <<u, v, w>>[1] = u /\ <<u, v, w>>[2] = v /\ <<u, v, w>>[3] = w
  OBVIOUS
<1>2. <<u>> \o <<v>> = <<u, v>>
  <2> DEFINE a == <<u>>
             b == <<v>>
             c == <<u, v>>
  <2>1. /\ a \o b \in Seq(Writes) /\ Len(a \o b) = 2
        /\ (a \o b)[1] = u /\ (a \o b)[2] = v
    <3> HIDE DEF a, b
    <3>1. a \in Seq(Writes) /\ b \in Seq(Writes) /\ Len(a) = 1 /\ Len(b) = 1
          /\ a[1] = u /\ b[1] = v
      BY <1>1 DEF a, b
    <3> QED
      BY <3>1, ConcatProperties
  <2>2. c \in Seq(Writes) /\ Len(c) = 2 /\ c[1] = u /\ c[2] = v
    BY <1>1
  <2> HIDE DEF a, b, c
  <2>3. a \o b = c
    BY <2>1, <2>2, SeqEqual
  <2> QED
    BY <2>3 DEF a, b, c
<1>3. <<u, v>> \o <<w>> = <<u, v, w>>
  <2> DEFINE a == <<u, v>>
             b == <<w>>
             c == <<u, v, w>>
  <2>1. /\ a \o b \in Seq(Writes) /\ Len(a \o b) = 3
        /\ (a \o b)[1] = u /\ (a \o b)[2] = v /\ (a \o b)[3] = w
    <3> HIDE DEF a, b
    <3>1. a \in Seq(Writes) /\ b \in Seq(Writes) /\ Len(a) = 2 /\ Len(b) = 1
          /\ a[1] = u /\ a[2] = v /\ b[1] = w
      BY <1>1 DEF a, b
    <3>2. /\ a \o b \in Seq(Writes) /\ Len(a \o b) = Len(a) + Len(b)
          /\ \A i \in 1..Len(a) + Len(b) :
                (a \o b)[i] = IF i <= Len(a) THEN a[i] ELSE b[i - Len(a)]
      BY <3>1, ConcatProperties, Zenon
    <3> DEFINE ab == a \o b
    <3> HIDE DEF ab
    <3>3. /\ ab \in Seq(Writes) /\ Len(ab) = 3
          /\ \A i \in 1..3 : ab[i] = IF i <= 2 THEN a[i] ELSE b[i - 2]
      BY <3>1, <3>2 DEF ab
    <3>4. ab[1] = u /\ ab[2] = v /\ ab[3] = w
      BY <3>1, <3>3
    <3> QED
      BY <3>3, <3>4 DEF ab
  <2>2. c \in Seq(Writes) /\ Len(c) = 3 /\ c[1] = u /\ c[2] = v /\ c[3] = w
    BY <1>1
  <2> HIDE DEF a, b, c
  <2>3. a \o b = c
    BY <2>1, <2>2, SeqEqual
  <2> QED
    BY <2>3 DEF a, b, c
<1>4. <<u>> \o <<>> = <<u>>
  BY <1>1, ConcatEmptySeq
<1> QED
  BY <1>2, <1>3, <1>4

\* SaveCA and a last write, as the list it is.
LEMMA SaveCaIs ==
    ASSUME NEW f \in Config, NEW ca \in Cas \cup {None}, NEW w \in Writes
    PROVE  /\ f.system => SaveCA(f, ca) \o <<w>>
                          = <<SetCa(ca), SetConf([f EXCEPT !.system = FALSE]), w>>
           /\ ~f.system => SaveCA(f, ca) \o <<w>> = <<SetCa(ca), w>>
<1>1. SetCa(ca) \in Writes /\ SetConf([f EXCEPT !.system = FALSE]) \in Writes
  BY WriteIs, ConfigWith
<1>2. ASSUME f.system
      PROVE  SaveCA(f, ca) = <<SetCa(ca), SetConf([f EXCEPT !.system = FALSE])>>
  BY <1>1, <1>2, Joined DEF SaveCA
<1>3. ASSUME ~f.system PROVE SaveCA(f, ca) = <<SetCa(ca)>>
  BY <1>1, <1>3, Joined DEF SaveCA
<1> QED
  BY <1>1, <1>2, <1>3, Joined

\* One write done, the rest leads to the same disk.
LEMMA AfterTail ==
    ASSUME NEW d, NEW todo \in Seq(Writes), NEW rest \in Seq(Writes), NEW h \in Writes,
           Len(todo) \in 1..3, h = todo[1],
           Len(rest) = Len(todo) - 1, \A i \in 1..Len(rest) : rest[i] = todo[i + 1]
    PROVE  After(Apply(d, h), rest) = After(d, todo)
<1>1. CASE Len(todo) = 1
  BY <1>1 DEF After
<1>2. CASE Len(todo) = 2
  <2>1. Len(rest) = 1 /\ rest[1] = todo[2]
    BY <1>2
  <2> DEFINE e == Apply(d, h)
  <2>2. After(e, rest) = Apply(e, rest[1])
    <3> HIDE DEF e
    <3>1. Len(rest) # 0 /\ Len(rest) = 1
      BY ONLY <2>1
    <3> QED
      BY ONLY <3>1 DEF After
  <2>3. After(d, todo) = Apply(Apply(d, todo[1]), todo[2])
    BY <1>2 DEF After
  <2> QED
    BY <2>1, <2>2, <2>3
<1>3. CASE Len(todo) = 3
  <2>1. rest[1] = todo[2] /\ rest[2] = todo[3] /\ Len(rest) = 2
    BY <1>3
  <2>2. After(Apply(d, h), rest) = Apply(Apply(Apply(d, h), rest[1]), rest[2])
    BY <2>1 DEF After
  <2>3. After(d, todo) = Apply(Apply(Apply(d, todo[1]), todo[2]), todo[3])
    BY <1>3 DEF After
  <2> QED
    BY <2>1, <2>2, <2>3
<1> QED
  BY <1>1, <1>2, <1>3

\* The same, for the head and the tail of a list.
LEMMA AfterStep ==
    ASSUME NEW d, NEW todo \in Seq(Writes), Len(todo) \in 1..3
    PROVE  /\ After(Apply(d, Head(todo)), Tail(todo)) = After(d, todo)
           /\ Head(todo) = todo[1] /\ Head(todo) \in Writes
           /\ Tail(todo) \in Seq(Writes) /\ Len(Tail(todo)) = Len(todo) - 1
           /\ \A i \in 1..Len(Tail(todo)) : Tail(todo)[i] = todo[i + 1]
<1>1. /\ Head(todo) = todo[1] /\ Head(todo) \in Writes
      /\ Tail(todo) \in Seq(Writes) /\ Len(Tail(todo)) = Len(todo) - 1
      /\ \A i \in 1..Len(Tail(todo)) : Tail(todo)[i] = todo[i + 1]
  BY HeadTailProperties, EmptySeq
<1> DEFINE h == Head(todo)
           rest == Tail(todo)
<1>2. /\ h \in Writes /\ rest \in Seq(Writes)
      /\ h = todo[1] /\ Len(rest) = Len(todo) - 1
      /\ \A i \in 1..Len(rest) : rest[i] = todo[i + 1]
  BY <1>1
<1> HIDE DEF h, rest
<1>3. After(Apply(d, h), rest) = After(d, todo)
  BY <1>2, AfterTail
<1> QED
  BY <1>1, <1>2, <1>3 DEF h, rest

-----------------------------------------------------------------------------
(* What is written, and what it comes to.                                  *)

NoCert(todo) == \A i \in 1..Len(todo) : todo[i].file # "cert"
TokensAre(todo, b) ==
    \A i \in 1..Len(todo) : todo[i].file = "conf" => todo[i].value.token = b
Outcome(todo, d, conf, ca, cert) ==
    /\ todo \in Seq(Writes) /\ todo # <<>> /\ Len(todo) \in 1..3
    /\ Is(After(d, todo), conf, ca, cert)

\* config.json alone.
LEMMA ConfOutcome ==
    ASSUME NEW d \in Disk, NEW f \in Config
    PROVE  /\ Outcome(<<SetConf(f)>>, d, f, d.ca, d.cert)
           /\ NoCert(<<SetConf(f)>>) /\ TokensAre(<<SetConf(f)>>, f.token)
           /\ <<SetConf(f)>>[1] = SetConf(f) /\ Len(<<SetConf(f)>>) = 1
<1> DEFINE u == SetConf(f)
<1>1. u \in Writes /\ u.file = "conf" /\ u.value = f
  BY WriteIs
<1> HIDE DEF u
<1>2. /\ <<u>> \in Seq(Writes) /\ Len(<<u>>) = 1 /\ <<u>> # <<>> /\ <<u>>[1] = u
      /\ After(d, <<u>>) = Apply(d, u)
  BY <1>1, OneWrite
<1>3. Is(Apply(d, u), f, d.ca, d.cert)
  BY <1>1, ApplyIs
<1> DEFINE w == <<u>>
<1>4. /\ w \in Seq(Writes) /\ Len(w) = 1 /\ w # <<>> /\ w[1] = u
      /\ Is(After(d, w), f, d.ca, d.cert)
  BY <1>2, <1>3
<1> HIDE DEF w
<1>5. NoCert(w) /\ TokensAre(w, f.token)
  BY <1>1, <1>4 DEF NoCert, TokensAre
<1>6. Outcome(w, d, f, d.ca, d.cert)
  BY <1>4 DEF Outcome
<1> QED
  BY <1>4, <1>5, <1>6 DEF w, u

\* config.json, and config.json again.
LEMMA ConfConfOutcome ==
    ASSUME NEW d \in Disk, NEW f \in Config, NEW g \in Config
    PROVE  Outcome(<<SetConf(f), SetConf(g)>>, d, g, d.ca, d.cert)
<1> DEFINE u == SetConf(f)
           v == SetConf(g)
<1>1. /\ u \in Writes /\ u.file = "conf" /\ u.value = f
      /\ v \in Writes /\ v.file = "conf" /\ v.value = g
  BY WriteIs
<1> HIDE DEF u, v
<1>2. /\ <<u, v>> \in Seq(Writes) /\ Len(<<u, v>>) = 2 /\ <<u, v>> # <<>>
      /\ After(d, <<u, v>>) = Apply(Apply(d, u), v)
  BY <1>1, TwoWrites
<1>3. Is(Apply(d, u), f, d.ca, d.cert)
  BY <1>1, ApplyIs
<1>4. Is(Apply(Apply(d, u), v), g, d.ca, d.cert)
  BY <1>1, <1>3, ApplyIs DEF Is
<1> DEFINE w == <<u, v>>
<1>5. w \in Seq(Writes) /\ Len(w) \in 1..3 /\ w # <<>> /\ Is(After(d, w), g, d.ca, d.cert)
  BY <1>2, <1>4
<1> HIDE DEF w
<1>6. Outcome(w, d, g, d.ca, d.cert)
  BY <1>5 DEF Outcome
<1> QED
  BY <1>6 DEF w, u, v

\* ca.pem, then config.json.
LEMMA CaConfOutcome ==
    ASSUME NEW d \in Disk, NEW f \in Config, NEW ca \in Cas \cup {None}
    PROVE  /\ Outcome(<<SetCa(ca), SetConf(f)>>, d, f, ca, d.cert)
           /\ NoCert(<<SetCa(ca), SetConf(f)>>)
           /\ TokensAre(<<SetCa(ca), SetConf(f)>>, f.token)
<1> DEFINE u == SetCa(ca)
           v == SetConf(f)
<1>1. /\ u \in Writes /\ u.file = "ca" /\ u.value = ca
      /\ v \in Writes /\ v.file = "conf" /\ v.value = f
  BY WriteIs
<1> HIDE DEF u, v
<1>0. /\ <<u, v>> \in Seq(Writes) /\ Len(<<u, v>>) = 2 /\ <<u, v>> # <<>>
      /\ <<u, v>>[1] = u /\ <<u, v>>[2] = v
      /\ After(d, <<u, v>>) = Apply(Apply(d, u), v)
  BY <1>1, TwoWrites
<1> DEFINE w == <<u, v>>
<1>2. /\ w \in Seq(Writes) /\ Len(w) = 2 /\ w # <<>> /\ w[1] = u /\ w[2] = v
      /\ After(d, w) = Apply(Apply(d, u), v)
  BY <1>0
<1>3. Is(Apply(d, u), d.conf, ca, d.cert)
  BY <1>1, ApplyIs
<1>4. Is(Apply(Apply(d, u), v), f, ca, d.cert)
  BY <1>1, <1>3, ApplyIs DEF Is
<1> HIDE DEF w
<1>5. NoCert(w) /\ TokensAre(w, f.token)
  <2>1. \A i \in 1..Len(w) : i = 1 \/ i = 2
    BY <1>2
  <2> QED
    BY <1>1, <1>2, <2>1 DEF NoCert, TokensAre
<1>6. Outcome(w, d, f, ca, d.cert)
  BY <1>2, <1>4 DEF Outcome
<1> QED
  BY <1>5, <1>6 DEF w, u, v

\* ca.pem, then config.json twice.
LEMMA CaConfConfOutcome ==
    ASSUME NEW d \in Disk, NEW g \in Config, NEW f \in Config, g.token = f.token,
           NEW ca \in Cas \cup {None}
    PROVE  /\ Outcome(<<SetCa(ca), SetConf(g), SetConf(f)>>, d, f, ca, d.cert)
           /\ NoCert(<<SetCa(ca), SetConf(g), SetConf(f)>>)
           /\ TokensAre(<<SetCa(ca), SetConf(g), SetConf(f)>>, f.token)
<1> DEFINE u == SetCa(ca)
           v == SetConf(g)
           x == SetConf(f)
<1>1. /\ u \in Writes /\ u.file = "ca" /\ u.value = ca
      /\ v \in Writes /\ v.file = "conf" /\ v.value = g
      /\ x \in Writes /\ x.file = "conf" /\ x.value = f
  BY WriteIs
<1> HIDE DEF u, v, x
<1>0. /\ <<u, v, x>> \in Seq(Writes) /\ Len(<<u, v, x>>) = 3 /\ <<u, v, x>> # <<>>
      /\ <<u, v, x>>[1] = u /\ <<u, v, x>>[2] = v /\ <<u, v, x>>[3] = x
      /\ After(d, <<u, v, x>>) = Apply(Apply(Apply(d, u), v), x)
  BY <1>1, ThreeWrites
<1> DEFINE w == <<u, v, x>>
<1>2. /\ w \in Seq(Writes) /\ Len(w) = 3 /\ w # <<>> /\ w[1] = u /\ w[2] = v /\ w[3] = x
      /\ After(d, w) = Apply(Apply(Apply(d, u), v), x)
  BY <1>0
<1>3. Is(Apply(d, u), d.conf, ca, d.cert)
  BY <1>1, ApplyIs
<1>4. Is(Apply(Apply(d, u), v), g, ca, d.cert)
  BY <1>1, <1>3, ApplyIs DEF Is
<1>5. Is(Apply(Apply(Apply(d, u), v), x), f, ca, d.cert)
  BY <1>1, <1>4, ApplyIs DEF Is
<1> HIDE DEF w
<1>6. NoCert(w) /\ TokensAre(w, f.token)
  <2>1. \A i \in 1..Len(w) : i = 1 \/ i = 2 \/ i = 3
    BY <1>2
  <2> QED
    BY <1>1, <1>2, <2>1 DEF NoCert, TokensAre
<1>7. Outcome(w, d, f, ca, d.cert)
  BY <1>2, <1>5 DEF Outcome
<1> QED
  BY <1>6, <1>7 DEF w, u, v, x

\* A certificate, then config.json.
LEMMA CertConfOutcome ==
    ASSUME NEW d \in Disk, NEW f \in Config, NEW cert \in Trusts \cup {None}
    PROVE  LET w == <<SetCert(cert), SetConf(f)>>
           IN  /\ Outcome(w, d, f, d.ca, cert)
               /\ Len(w) = 2 /\ w[1].file = "cert" /\ w[1].value = cert
               /\ w[2].file = "conf" /\ w[2].value = f
<1> DEFINE u == SetCert(cert)
           v == SetConf(f)
<1>1. /\ u \in Writes /\ u.file = "cert" /\ u.value = cert
      /\ v \in Writes /\ v.file = "conf" /\ v.value = f
  BY WriteIs
<1> HIDE DEF u, v
<1>0. /\ <<u, v>> \in Seq(Writes) /\ Len(<<u, v>>) = 2 /\ <<u, v>> # <<>>
      /\ <<u, v>>[1] = u /\ <<u, v>>[2] = v
      /\ After(d, <<u, v>>) = Apply(Apply(d, u), v)
  BY <1>1, TwoWrites
<1> DEFINE w == <<u, v>>
<1>2. /\ w \in Seq(Writes) /\ Len(w) = 2 /\ w # <<>> /\ w[1] = u /\ w[2] = v
      /\ After(d, w) = Apply(Apply(d, u), v)
  BY <1>0
<1>3. Is(Apply(d, u), d.conf, d.ca, cert)
  BY <1>1, ApplyIs
<1>4. Is(Apply(Apply(d, u), v), f, d.ca, cert)
  BY <1>1, <1>3, ApplyIs DEF Is
<1> HIDE DEF w
<1>5. Outcome(w, d, f, d.ca, cert)
  BY <1>2, <1>4 DEF Outcome
<1> QED
  BY <1>1, <1>2, <1>5 DEF w, u, v

\* SaveCA, then config.json.
LEMMA SaveCaOutcome ==
    ASSUME NEW d \in Disk, NEW g \in Config, NEW f \in Config, g.token = f.token,
           NEW ca \in Cas \cup {None}
    PROVE  LET w == SaveCA(g, ca) \o <<SetConf(f)>>
           IN  Outcome(w, d, f, ca, d.cert) /\ NoCert(w) /\ TokensAre(w, f.token)
<1>1. SetConf(f) \in Writes
  BY WriteIs
<1>2. CASE g.system
  <2>1. [g EXCEPT !.system = FALSE] \in Config
        /\ [g EXCEPT !.system = FALSE].token = f.token
    BY ConfigWith
  <2>2. SaveCA(g, ca) \o <<SetConf(f)>>
           = <<SetCa(ca), SetConf([g EXCEPT !.system = FALSE]), SetConf(f)>>
    BY <1>1, <1>2, SaveCaIs
  <2> QED
    BY <2>1, <2>2, CaConfConfOutcome
<1>3. CASE ~g.system
  <2>1. SaveCA(g, ca) \o <<SetConf(f)>> = <<SetCa(ca), SetConf(f)>>
    BY <1>1, <1>3, SaveCaIs
  <2> QED
    BY <2>1, CaConfOutcome
<1> QED
  BY <1>2, <1>3

\* UseSystemTrust and ForgetTrust.
LEMMA SystemOutcome ==
    ASSUME NEW d \in Disk, NEW f \in Config
    PROVE  /\ Outcome(UseSystemTrust(f), d, [f EXCEPT !.system = TRUE], None, d.cert)
           /\ NoCert(UseSystemTrust(f)) /\ TokensAre(UseSystemTrust(f), f.token)
           /\ Outcome(ForgetTrust(f), d, [f EXCEPT !.system = FALSE], None, d.cert)
           /\ NoCert(ForgetTrust(f)) /\ TokensAre(ForgetTrust(f), f.token)
<1> DEFINE g == [f EXCEPT !.system = TRUE]
           h == [f EXCEPT !.system = FALSE]
<1>1. /\ g \in Config /\ g.token = f.token /\ h \in Config /\ h.token = f.token
      /\ None \in Cas \cup {None}
  BY ConfigWith
<1>2. UseSystemTrust(f) = <<SetCa(None), SetConf(g)>>
      /\ ForgetTrust(f) = <<SetCa(None), SetConf(h)>>
  BY DEF UseSystemTrust, ForgetTrust
<1> HIDE DEF g, h
<1>3. /\ Outcome(<<SetCa(None), SetConf(g)>>, d, g, None, d.cert)
      /\ NoCert(<<SetCa(None), SetConf(g)>>)
      /\ TokensAre(<<SetCa(None), SetConf(g)>>, g.token)
  BY <1>1, CaConfOutcome
<1>4. /\ Outcome(<<SetCa(None), SetConf(h)>>, d, h, None, d.cert)
      /\ NoCert(<<SetCa(None), SetConf(h)>>)
      /\ TokensAre(<<SetCa(None), SetConf(h)>>, h.token)
  BY <1>1, CaConfOutcome
<1>5. /\ Outcome(UseSystemTrust(f), d, g, None, d.cert)
      /\ NoCert(UseSystemTrust(f)) /\ TokensAre(UseSystemTrust(f), f.token)
      /\ Outcome(ForgetTrust(f), d, h, None, d.cert)
      /\ NoCert(ForgetTrust(f)) /\ TokensAre(ForgetTrust(f), f.token)
  BY <1>1, <1>2, <1>3, <1>4
<1> QED
  BY <1>5 DEF g, h

\* What openState writes, and the disk it comes to.
Opens(todo, d, f, ca, flags) ==
    /\ f \in Config /\ ca \in Cas \cup {None}
    /\ Outcome(todo, d, f, ca, d.cert) /\ NoCert(todo) /\ TokensAre(todo, d.conf.token)
    /\ f.token = d.conf.token
    /\ f.server = IF flags.server # None THEN flags.server ELSE d.conf.server
    /\ f.server # None
    /\ f.system \/ ca # None
    /\ flags.ca # None => ~f.system /\ ca = flags.ca
    /\ flags.ca = None /\ HasTrust(d) => /\ ca = d.ca /\ f.system = d.conf.system
                                         /\ todo = <<SetConf(f)>>
    /\ flags.ca = None /\ ~HasTrust(d) => (f.system <=> ca = None)
    /\ flags.ca = None /\ ~HasTrust(d) /\ f.system => todo = <<SetCa(None), SetConf(f)>>
    /\ flags.ca = None /\ ~HasTrust(d) /\ flags.fingerprint = None /\ flags.console # "yes" =>
          f.system

\* What openState answers and writes.
LEMMA OpenedIs ==
    ASSUME chain \in [Servers -> Cas \cup {"public"}], NEW d \in Disk, NEW flags \in Flags,
           NEW answers \in BOOLEAN, NEW o, o = Opened(d, flags, answers)
    PROVE  \/ o.trust = None /\ o.writes = <<>>
           \/ /\ o.trust # None
              /\ \E f, ca : /\ Opens(o.writes, d, f, ca, flags)
                            /\ o.trust = IF f.system THEN "system" ELSE ca
<1>1. PICK server : server = IF flags.server # None THEN flags.server ELSE d.conf.server
  OBVIOUS
<1>2. PICK conf : conf = [d.conf EXCEPT !.server = server]
  OBVIOUS
<1>3. PICK plain : plain = [conf EXCEPT !.system = FALSE]
  OBVIOUS
<1>4. PICK sys : sys = [conf EXCEPT !.system = TRUE]
  OBVIOUS
<1>5. server \in Servers \cup {None} /\ flags.ca \in Cas \cup {None} /\ d.conf \in Config
  BY <1>1, DiskFields DEF Flags
<1>6. /\ conf \in Config /\ conf.server = server /\ conf.system = d.conf.system
      /\ conf.token = d.conf.token
  <2>1. PICK old \in Config : old = d.conf
    BY <1>5
  <2>2. conf = [old EXCEPT !.server = server]
    BY <1>2, <2>1
  <2> QED
    BY <1>5, <2>1, <2>2, ConfigServer
<1>7. /\ plain \in Config /\ plain.server = server /\ plain.system = FALSE
      /\ plain.token = d.conf.token
      /\ sys \in Config /\ sys.server = server /\ sys.system = TRUE
      /\ sys.token = d.conf.token
  BY <1>3, <1>4, <1>6, ConfigWith
<1>8. /\ o.trust = None => o.writes = <<>>
      /\ o.trust # None =>
            /\ server # None
            /\ flags.ca # None => /\ o.writes = SaveCA(conf, flags.ca) \o <<SetConf(plain)>>
                                  /\ o.trust = flags.ca
            /\ flags.ca = None /\ HasTrust(d) => /\ o.writes = <<SetConf(conf)>>
                                                 /\ o.trust = TrustOf(d)
            /\ flags.ca = None /\ ~HasTrust(d) =>
                  /\ o.trust = Acquire(flags, server)
                  /\ o.trust = "system" => o.writes = UseSystemTrust(conf)
                  /\ o.trust # "system" => o.writes = SaveCA(conf, o.trust) \o <<SetConf(conf)>>
  <2> DEFINE taken == IF server = None THEN None
                      ELSE IF flags.ca # None THEN flags.ca
                      ELSE IF HasTrust(d) THEN TrustOf(d)
                      ELSE IF answers THEN Acquire(flags, server)
                      ELSE None
             written == IF taken = None THEN <<>>
                        ELSE IF flags.ca # None
                        THEN SaveCA(conf, taken) \o <<SetConf(plain)>>
                        ELSE IF HasTrust(d) THEN <<SetConf(conf)>>
                        ELSE IF taken = "system" THEN UseSystemTrust(conf)
                        ELSE SaveCA(conf, taken) \o <<SetConf(conf)>>
  <2>1. o = [trust |-> taken, writes |-> written]
    BY <1>1, <1>2, <1>3 DEF Opened
  <2>2. o.trust = taken /\ o.writes = written
    BY <2>1
  <2> QED
    BY <2>2
<1>9. SUFFICES ASSUME o.trust # None
               PROVE  \E f, ca : /\ Opens(o.writes, d, f, ca, flags)
                                 /\ o.trust = IF f.system THEN "system" ELSE ca
  BY <1>8
<1>10. CASE flags.ca # None
  <2>1. /\ Outcome(o.writes, d, plain, flags.ca, d.cert) /\ NoCert(o.writes)
        /\ TokensAre(o.writes, plain.token)
    BY <1>5, <1>6, <1>7, <1>8, <1>9, <1>10, SaveCaOutcome
  <2>2. Opens(o.writes, d, plain, flags.ca, flags)
    BY <1>1, <1>5, <1>7, <1>8, <1>9, <1>10, <2>1 DEF Opens
  <2> QED
    BY <1>7, <1>8, <1>9, <1>10, <2>2
<1>11. CASE flags.ca = None /\ HasTrust(d)
  <2>1. /\ Outcome(o.writes, d, conf, d.ca, d.cert) /\ NoCert(o.writes)
        /\ TokensAre(o.writes, conf.token) /\ o.writes = <<SetConf(conf)>>
    BY <1>6, <1>8, <1>9, <1>11, ConfOutcome
  <2>2. d.ca \in Cas \cup {None} /\ (d.conf.system \/ d.ca # None)
    BY <1>11, DiskFields DEF HasTrust
  <2>3. Opens(o.writes, d, conf, d.ca, flags)
    BY <1>1, <1>6, <1>8, <1>9, <1>11, <2>1, <2>2 DEF Opens
  <2>4. o.trust = IF conf.system THEN "system" ELSE d.ca
    BY <1>6, <1>8, <1>9, <1>11 DEF TrustOf
  <2> QED
    BY <2>3, <2>4
<1>12. CASE flags.ca = None /\ ~HasTrust(d)
  <2>1. o.trust = Acquire(flags, server) /\ server \in Servers
    BY <1>5, <1>8, <1>9, <1>12
  <2>2. o.trust \in Cas \cup {"system"}
    BY <1>9, <2>1 DEF Acquire
  <2>0. flags.fingerprint = None /\ flags.console # "yes" => o.trust = "system"
    BY <1>9, <2>1, Constants DEF Acquire
  <2>3. CASE o.trust = "system"
    <3>1. /\ Outcome(o.writes, d, sys, None, d.cert) /\ NoCert(o.writes)
          /\ TokensAre(o.writes, conf.token)
      BY <1>4, <1>6, <1>8, <1>9, <1>12, <2>3, SystemOutcome
    <3>2. o.writes = <<SetCa(None), SetConf(sys)>>
      BY <1>4, <1>8, <1>9, <1>12, <2>3 DEF UseSystemTrust
    <3>3. Opens(o.writes, d, sys, None, flags)
      BY <1>1, <1>6, <1>7, <1>8, <1>9, <1>12, <3>1, <3>2 DEF Opens
    <3> QED
      BY <1>7, <2>3, <3>3
  <2>4. CASE o.trust \in Cas
    <3>1. /\ Outcome(o.writes, d, conf, o.trust, d.cert) /\ NoCert(o.writes)
          /\ TokensAre(o.writes, conf.token)
      <4>1. PICK ca \in Cas \cup {None} : ca = o.trust
        BY <2>4
      <4>2. o.writes = SaveCA(conf, ca) \o <<SetConf(conf)>>
        BY <1>8, <1>9, <1>12, <2>4, <4>1, Constants
      <4> QED
        BY <1>6, <4>1, <4>2, SaveCaOutcome
    <3>2. conf.system = FALSE
      BY <1>6, <1>12, DiskFields DEF HasTrust
    <3>3. Opens(o.writes, d, conf, o.trust, flags)
      BY <1>1, <1>6, <1>8, <1>9, <1>12, <2>0, <2>4, <3>1, <3>2, Constants DEF Opens
    <3> QED
      BY <3>2, <3>3
  <2> QED
    BY <2>2, <2>3, <2>4
<1> QED
  BY <1>10, <1>11, <1>12

-----------------------------------------------------------------------------
(* The process.                                                            *)

\* q is p at another step.
Moved(q, p) ==
    /\ q \in Processes /\ q.by = p.by /\ q.flags = p.flags /\ q.forgot = p.forgot
    /\ q.before = p.before /\ q.trust = p.trust

\* The fields of a process, one by one.
LEMMA ProcessFields ==
    ASSUME NEW p \in Processes
    PROVE  /\ p.by \in {"nobody", "setup", "install", "service"} /\ p.pc \in Places
           /\ p.flags \in Flags /\ p.todo \in Seq(Writes) /\ p.onward \in Places
           /\ p.otherwise \in Places /\ p.forgot \in BOOLEAN /\ p.checked \in BOOLEAN
           /\ p.trust \in Trusts \cup {None} /\ p.before \in Disk /\ Moved(p, p)
  BY DEF Processes, Moved

\* Go changes the step and nothing else.
LEMMA GoIs ==
    ASSUME NEW p \in Processes, NEW pc \in Places
    PROVE  Moved(Go(p, pc), p) /\ Go(p, pc).pc = pc /\ Go(p, pc).todo = p.todo
  BY DEF Go, Processes, Moved

\* Do goes on, or is to write first.
LEMMA DoIs ==
    ASSUME NEW p \in Processes, p.todo = <<>>, NEW todo \in Seq(Writes),
           NEW a \in Places, NEW b \in Places
    PROVE  LET q == Do(p, todo, a, b)
           IN  /\ Moved(q, p) /\ q.todo = todo
               /\ \/ todo = <<>> /\ q.pc = a
                  \/ todo # <<>> /\ q.pc = "writing" /\ q.onward = a /\ q.otherwise = b
<1>1. CASE todo = <<>>
  BY <1>1, GoIs DEF Do
<1>2. CASE todo # <<>>
  <2> DEFINE q == [p EXCEPT !.pc = "writing", !.todo = todo, !.onward = a, !.otherwise = b]
  <2>1. "writing" \in Places
    BY DEF Places
  <2>2. /\ q \in Processes /\ q.by = p.by /\ q.flags = p.flags /\ q.forgot = p.forgot
        /\ q.before = p.before /\ q.trust = p.trust /\ q.todo = todo
        /\ q.pc = "writing" /\ q.onward = a /\ q.otherwise = b
    BY <2>1 DEF Processes
  <2>3. Do(p, todo, a, b) = q
    BY <1>2 DEF Do
  <2> HIDE DEF q
  <2> QED
    BY <1>2, <2>2, <2>3 DEF Moved
<1> QED
  BY <1>1, <1>2

\* The process goes to step a with nothing to write.
Gone(p, a) == Moved(proc', p) /\ proc'.todo = <<>> /\ proc'.pc = a

\* The process writes its way to step a, or to b if a write fails.
Onto(todo, a, b, f, ca, cert) ==
    /\ proc'.todo = todo /\ proc'.pc = "writing" /\ proc'.onward = a /\ proc'.otherwise = b
    /\ Outcome(todo, disk, f, ca, cert)
Goes(p, todo, a, b, f, ca, cert) == Moved(proc', p) /\ Onto(todo, a, b, f, ca, cert)

\* A step that goes on without writing.
LEMMA GoGone ==
    ASSUME NEW p \in Processes, p.todo = <<>>, NEW a \in Places, proc' = Go(p, a)
    PROVE  Gone(p, a)
  BY GoIs DEF Gone

\* A step that finds nothing to write.
LEMMA DoGone ==
    ASSUME NEW p \in Processes, p.todo = <<>>, NEW a \in Places, NEW b \in Places,
           proc' = Do(p, <<>>, a, b)
    PROVE  Gone(p, a)
<1>1. proc' = Go(p, a)
  BY DEF Do
<1> QED
  BY <1>1, GoGone

\* A step that writes.
LEMMA DoGoes ==
    ASSUME NEW p \in Processes, p.todo = <<>>, NEW todo, NEW a \in Places, NEW b \in Places,
           NEW f, NEW ca, NEW cert, Outcome(todo, disk, f, ca, cert),
           proc' = Do(p, todo, a, b)
    PROVE  Goes(p, todo, a, b, f, ca, cert)
<1>1. todo \in Seq(Writes) /\ todo # <<>>
  BY DEF Outcome
<1>2. /\ Moved(proc', p) /\ proc'.todo = todo /\ proc'.pc = "writing"
      /\ proc'.onward = a /\ proc'.otherwise = b
  BY <1>1, DoIs
<1> QED
  BY <1>2 DEF Goes, Onto

-----------------------------------------------------------------------------
(* The steps, by what they do to the disk, the process and the history.    *)

Writing == proc.pc = "writing"
Typed ==
    /\ TypeOK /\ proc \in Processes
    /\ Writing => Len(proc.todo) \in 1..3
    /\ ~Writing => proc.todo = <<>>

\* The variables Typed speaks of, one by one.
LEMMA TypedFields ==
    ASSUME Typed
    PROVE  /\ chain \in [Servers -> Cas \cup {"public"}] /\ disk \in Disk /\ proc \in Processes
           /\ settled \in [trust : Trusts \cup {None}, server : Servers \cup {None}]
           /\ torn \in BOOLEAN /\ kept \in BOOLEAN /\ lost \in BOOLEAN /\ owed \in BOOLEAN
           /\ key \in BOOLEAN
  BY DEF Typed, TypeOK

\* Places of the program, one by one.
LEMMA PlaceIs ==
    /\ "idle" \in Places /\ "check" \in Places /\ "open" \in Places /\ "writing" \in Places
    /\ "restore" \in Places /\ "reopen" \in Places /\ "drop" \in Places /\ "token" \in Places
    /\ "key" \in Places /\ "enroll" \in Places /\ "register" \in Places /\ "failed" \in Places
    /\ "start" \in Places /\ "run" \in Places /\ "fatal" \in Places
  BY DEF Places

\* What no process looks like.
LEMMA IdleIs ==
    /\ Idle \in Processes /\ Idle.by = "nobody" /\ Idle.pc = "idle" /\ Idle.todo = <<>>
    /\ Idle.before \in Disk
    /\ [Idle EXCEPT !.by = "service", !.pc = "start"] \in Processes
    /\ [Idle EXCEPT !.by = "service", !.pc = "start"].by = "service"
    /\ [Idle EXCEPT !.by = "service", !.pc = "start"].pc = "start"
    /\ [Idle EXCEPT !.by = "service", !.pc = "start"].todo = <<>>
<1>1. NoFlags \in Flags
  BY DEF NoFlags, Flags
<1>2. Idle.before \in Disk
  BY DEF Idle, Disk, Config
<1>3. <<>> \in Seq(Writes)
  OBVIOUS
<1> QED
  BY <1>1, <1>2, <1>3 DEF Idle, Processes, Places

\* Setup begins where the last process left the disk.
LEMMA SetupMoves ==
    ASSUME Typed, NEW by \in {"setup", "install"}, Setup(by)
    PROVE  /\ ~Setting /\ ~Writing /\ UNCHANGED <<disk, settled, torn, kept, lost, owed>>
           /\ proc' \in Processes /\ proc'.by = by /\ proc'.pc = "check" /\ proc'.todo = <<>>
           /\ proc'.forgot = FALSE /\ proc'.before = disk
<1>1. PICK flags \in Flags :
         proc' = [Idle EXCEPT !.by = by, !.pc = "check", !.flags = flags, !.before = disk]
  <2>1. PICK line \in CommandLines : \E flags \in Asked(line) :
           proc' = [Idle EXCEPT !.by = by, !.pc = "check", !.flags = flags, !.before = disk]
    BY DEF Setup
  <2>2. line \in Flags
    BY Constants
  <2>3. Asked(line) \subseteq Flags
    <3>0. PICK tokens : tokens = {line.token, TRUE}
      OBVIOUS
    <3> DEFINE asked(s, t) == [line EXCEPT !.server = s, !.token = t]
               both == {asked(s, t) : s \in Servers, t \in tokens}
    <3>1. \A s \in Servers : \A t \in tokens : asked(s, t) \in Flags
      BY <2>2, <3>0 DEF Flags
    <3>2. Asked(line) \in {{line}, both}
      BY <3>0 DEF Asked
    <3>3. both \subseteq Flags
      <4> HIDE DEF asked, both
      <4> SUFFICES ASSUME NEW x \in both PROVE x \in Flags
        OBVIOUS
      <4>1. \E s \in Servers : \E t \in tokens : x = asked(s, t)
        BY DEF both
      <4> QED
        BY <3>1, <4>1
    <3> HIDE DEF both
    <3> QED
      BY <2>2, <3>2, <3>3
  <2> QED
    BY <2>1, <2>3
<1>2. disk \in Disk
  BY TypedFields
<1>3. /\ proc' \in Processes /\ proc'.by = by /\ proc'.pc = "check" /\ proc'.todo = <<>>
      /\ proc'.before = disk /\ proc'.forgot = FALSE
  <2>1. Idle \in Processes /\ "check" \in Places /\ Idle.todo = <<>> /\ Idle.forgot = FALSE
    BY IdleIs, PlaceIs DEF Idle
  <2> QED
    BY <1>1, <1>2, <2>1 DEF Processes
<1> QED
  BY <1>3 DEF Setup, Writing, history

\* Only a trust that is there is forgotten.
LEMMA CheckMoves ==
    ASSUME Typed, NEW answers \in BOOLEAN, Check(answers)
    PROVE  /\ Setting /\ proc.pc = "check" /\ UNCHANGED <<disk, settled, torn, kept, lost, owed>>
           /\ proc' \in Processes /\ proc'.by = proc.by /\ proc'.flags = proc.flags
           /\ proc'.before = proc.before
           /\ \/ Gone(proc, "open")
              \/ /\ HasTrust(disk) /\ proc'.forgot
                 /\ \E todo, f, ca :
                       /\ Onto(todo, "open", "failed", f, ca, disk.cert)
                       /\ NoCert(todo) /\ TokensAre(todo, disk.conf.token)
                       /\ ~f.system
<1>1. disk \in Disk /\ proc \in Processes /\ proc.flags \in Flags
  BY TypedFields, ProcessFields
<1>2. proc.pc = "check" /\ proc.todo = <<>>
  BY DEF Check, Typed, Writing
<1>3. PICK server : server = Server(disk)
  OBVIOUS
<1>4. PICK stale : stale = (/\ HasTrust(disk) /\ server # None /\ answers
                           /\ ~Verifies(TrustOf(disk), server))
  OBVIOUS
<1>5. server \in Servers \cup {None}
  BY <1>1, <1>3, DiskFields DEF Server, Flags
<1>6. proc' = IF stale THEN Do([proc EXCEPT !.forgot = TRUE],
                               ForgetTrust([disk.conf EXCEPT !.server = server]), "open", "failed")
              ELSE Go(proc, "open")
  BY <1>3, <1>4 DEF Check
<1>7. CASE ~stale
  <2>1. Gone(proc, "open")
    BY <1>1, <1>2, <1>6, <1>7, GoGone, PlaceIs
  <2> QED
    BY <1>2, <2>1 DEF Check, history, Gone, Moved
<1>8. CASE stale
  <2>1. PICK p : p = [proc EXCEPT !.forgot = TRUE]
    OBVIOUS
  <2>2. /\ p \in Processes /\ p.forgot /\ p.todo = <<>> /\ p.by = proc.by
        /\ p.flags = proc.flags /\ p.before = proc.before
    BY <1>1, <1>2, <2>1 DEF Processes
  <2>3. PICK old : old = disk.conf
    OBVIOUS
  <2>4. PICK f : f = [old EXCEPT !.server = server]
    OBVIOUS
  <2>5. f \in Config /\ f.token = disk.conf.token
    BY <1>1, <1>5, <2>3, <2>4, DiskFields, ConfigServer
  <2>6. PICK todo : todo = ForgetTrust(f)
    OBVIOUS
  <2>7. /\ Outcome(todo, disk, [f EXCEPT !.system = FALSE], None, disk.cert)
        /\ NoCert(todo) /\ TokensAre(todo, disk.conf.token)
        /\ ~[f EXCEPT !.system = FALSE].system
    BY <1>1, <2>5, <2>6, SystemOutcome, ConfigWith
  <2>8. proc' = Do(p, todo, "open", "failed")
    BY <1>6, <1>8, <2>1, <2>3, <2>4, <2>6
  <2>9. Goes(p, todo, "open", "failed", [f EXCEPT !.system = FALSE], None, disk.cert)
    BY <2>2, <2>7, <2>8, DoGoes, PlaceIs
  <2>10. /\ Onto(todo, "open", "failed", [f EXCEPT !.system = FALSE], None, disk.cert)
         /\ proc' \in Processes /\ proc'.by = proc.by /\ proc'.flags = proc.flags
         /\ proc'.before = proc.before /\ proc'.forgot
    BY <2>2, <2>9 DEF Goes, Moved
  <2>11. HasTrust(disk)
    BY <1>4, <1>8
  <2> QED
    BY <1>2, <2>7, <2>10, <2>11 DEF Check, history
<1> QED
  BY <1>7, <1>8

\* What of the history most steps leave alone.
Recalled == UNCHANGED <<disk, settled, torn, kept, lost, owed>>

\* openState, in setup: an error, or writes to the trust it takes.
LEMMA OpenMoves ==
    ASSUME Typed, NEW answers \in BOOLEAN, Open(answers)
    PROVE  /\ Setting /\ proc.pc = "open" /\ UNCHANGED <<disk, settled, torn, lost, owed>>
           /\ kept' \in BOOLEAN /\ (kept => kept')
           /\ \/ proc.forgot /\ Gone(proc, "restore")
              \/ ~proc.forgot /\ Gone(proc, "failed")
              \/ \E todo, f, ca :
                    /\ Opens(todo, disk, f, ca, proc.flags)
                    /\ Goes(proc, todo, "drop", IF proc.forgot THEN "restore" ELSE "failed",
                            f, ca, disk.cert)
                    /\ \/ proc.forgot \/ kept'
                       \/ disk.cert \in {None, IF f.system THEN "system" ELSE ca}
<1>1. disk \in Disk /\ proc \in Processes /\ proc.flags \in Flags /\ proc.forgot \in BOOLEAN
  BY TypedFields, ProcessFields
<1>2. proc.todo = <<>>
  BY DEF Open, Typed, Writing
<1>3. PICK o : o = Opened(disk, proc.flags, answers)
  OBVIOUS
<1>4. PICK undone : undone = IF proc.forgot THEN "restore" ELSE "failed"
  OBVIOUS
<1>5. /\ proc' = IF o.trust = None THEN Go(proc, undone) ELSE Do(proc, o.writes, "drop", undone)
      /\ Setting /\ proc.pc = "open" /\ UNCHANGED <<disk, settled, torn, lost, owed>>
      /\ kept' = (kept \/ (disk.cert # None /\ ~proc.forgot /\ o.trust \notin {None, disk.cert}))
  BY <1>3, <1>4 DEF Open
<1>6. undone \in Places
  BY <1>4, PlaceIs
<1>7. kept' \in BOOLEAN /\ (kept => kept')
  BY <1>5, TypedFields
<1>8. CASE o.trust = None
  <2>1. Gone(proc, undone)
    BY <1>1, <1>2, <1>5, <1>6, <1>8, GoGone
  <2> QED
    BY <1>1, <1>4, <1>5, <1>7, <2>1
<1>9. CASE o.trust # None
  <2>1. PICK f, ca : /\ Opens(o.writes, disk, f, ca, proc.flags)
                     /\ o.trust = IF f.system THEN "system" ELSE ca
    BY <1>1, <1>3, <1>9, OpenedIs, TypedFields
  <2>2. Outcome(o.writes, disk, f, ca, disk.cert)
    BY <2>1 DEF Opens
  <2>3. Goes(proc, o.writes, "drop", undone, f, ca, disk.cert)
    BY <1>1, <1>2, <1>5, <1>6, <1>9, <2>2, DoGoes, PlaceIs
  <2>4. \/ proc.forgot \/ kept'
        \/ disk.cert \in {None, IF f.system THEN "system" ELSE ca}
    BY <1>5, <1>9, <2>1
  <2> QED
    BY <1>4, <1>5, <1>7, <2>1, <2>3, <2>4
<1> QED
  BY <1>8, <1>9

\* The service's openState, and the client it builds: the store, when there was
\* nothing to trust.
LEMMA OpenAloneMoves ==
    ASSUME Typed, NEW answers \in BOOLEAN, OpenAlone(answers)
    PROVE  /\ Serving /\ proc.pc = "start" /\ Recalled
           /\ \/ Gone(proc, "fatal")
              \/ \E todo, f, ca, p :
                    /\ Opens(todo, disk, f, ca, NoFlags)
                    /\ p \in Processes /\ p.by = proc.by
                    /\ p.trust = IF f.system THEN "system" ELSE ca
                    /\ Goes(p, todo, "key", "fatal", f, ca, disk.cert)
<1>1. disk \in Disk /\ proc \in Processes
  BY TypedFields
<1>2. proc.todo = <<>>
  BY DEF OpenAlone, Typed, Writing
<1>3. PICK o : o = Opened(disk, NoFlags, answers)
  OBVIOUS
<1>4. PICK p : p = [proc EXCEPT !.trust = o.trust]
  OBVIOUS
<1>5. /\ proc' = IF o.trust = None THEN Go(proc, "fatal") ELSE Do(p, o.writes, "key", "fatal")
      /\ Serving /\ proc.pc = "start" /\ Recalled
  BY <1>3, <1>4 DEF OpenAlone, Recalled, history
<1>6. NoFlags \in Flags
  BY DEF NoFlags, Flags
<1>7. CASE o.trust = None
  <2>1. Gone(proc, "fatal")
    BY <1>1, <1>2, <1>5, <1>7, GoGone, PlaceIs
  <2> QED
    BY <1>5, <2>1
<1>8. CASE o.trust # None
  <2>1. PICK f, ca : /\ Opens(o.writes, disk, f, ca, NoFlags)
                     /\ o.trust = IF f.system THEN "system" ELSE ca
    BY <1>1, <1>3, <1>6, <1>8, OpenedIs, TypedFields
  <2>2. Outcome(o.writes, disk, f, ca, disk.cert) /\ ca \in Cas \cup {None}
    BY <2>1 DEF Opens
  <2>3. o.trust \in Trusts \cup {None}
    BY <2>1, <2>2 DEF Trusts
  <2>4. p \in Processes /\ p.by = proc.by /\ p.trust = o.trust /\ p.todo = <<>>
    BY <1>1, <1>2, <1>4, <2>3 DEF Processes
  <2>5. Goes(p, o.writes, "key", "fatal", f, ca, disk.cert)
    BY <1>5, <1>8, <2>2, <2>4, DoGoes, PlaceIs
  <2> QED
    BY <1>5, <2>1, <2>4, <2>5
<1> QED
  BY <1>7, <1>8

\* What was trusted goes back, with its address.
LEMMA RestoreMoves ==
    ASSUME Typed, Restore
    PROVE  /\ Setting /\ proc.pc = "restore" /\ Recalled
           /\ \E todo, f, ca, onward :
                 /\ onward \in {"failed", "reopen"}
                 /\ onward = "reopen" => proc.flags.ca = None
                 /\ Goes(proc, todo, onward, "failed", f, ca, disk.cert)
                 /\ NoCert(todo) /\ TokensAre(todo, disk.conf.token)
                 /\ f.server = proc.before.conf.server
                 /\ f.system = proc.before.conf.system
                 /\ IF f.system THEN ca = None ELSE ca = proc.before.ca
<1>1. disk \in Disk /\ proc \in Processes /\ proc.before \in Disk
  BY TypedFields, ProcessFields
<1>2. proc.todo = <<>>
  BY DEF Restore, Typed, Writing
<1>3. PICK old : old = proc.before
  OBVIOUS
<1>4. PICK was : was = disk.conf
  OBVIOUS
<1>5. PICK conf : conf = [was EXCEPT !.server = old.conf.server]
  OBVIOUS
<1>6. PICK plain : plain = [conf EXCEPT !.system = FALSE]
  OBVIOUS
<1>7. PICK onward : onward = IF proc.flags.fingerprint # None \/ proc.flags.ca # None
                             THEN "failed" ELSE "reopen"
  OBVIOUS
<1>8. PICK todo : todo = IF old.conf.system THEN UseSystemTrust(conf)
                         ELSE SaveCA(conf, old.ca) \o <<SetConf(plain)>>
  OBVIOUS
<1>9. /\ old \in Disk /\ old.ca \in Cas \cup {None} /\ old.conf.system \in BOOLEAN
      /\ old.conf.server \in Servers \cup {None}
      /\ was \in Config /\ was.token = disk.conf.token
  BY <1>1, <1>3, <1>4, DiskFields
<1>10. /\ conf \in Config /\ conf.server = old.conf.server /\ conf.token = disk.conf.token
  BY <1>5, <1>9, ConfigServer
<1>11. /\ plain \in Config /\ plain.server = old.conf.server /\ plain.system = FALSE
       /\ plain.token = disk.conf.token
  BY <1>6, <1>10, ConfigWith
<1>12. /\ proc' = Do(proc, todo, onward, "failed")
       /\ Setting /\ proc.pc = "restore" /\ Recalled
  BY <1>3, <1>4, <1>5, <1>6, <1>7, <1>8 DEF Restore, Recalled, history
<1>13. /\ onward \in {"failed", "reopen"} /\ onward \in Places
       /\ onward = "reopen" => proc.flags.ca = None
  BY <1>7, PlaceIs
<1>14. CASE old.conf.system
  <2>1. PICK sys : sys = [conf EXCEPT !.system = TRUE]
    OBVIOUS
  <2>2. sys.server = old.conf.server /\ sys.system = TRUE
    BY <1>10, <2>1, ConfigWith
  <2>3. /\ Outcome(todo, disk, sys, None, disk.cert)
        /\ NoCert(todo) /\ TokensAre(todo, disk.conf.token)
    BY <1>1, <1>8, <1>10, <1>14, <2>1, SystemOutcome
  <2>4. Goes(proc, todo, onward, "failed", sys, None, disk.cert)
    BY <1>1, <1>2, <1>12, <1>13, <2>3, DoGoes, PlaceIs
  <2> QED
    BY <1>3, <1>12, <1>13, <1>14, <2>2, <2>3, <2>4
<1>15. CASE ~old.conf.system
  <2>1. /\ Outcome(todo, disk, plain, old.ca, disk.cert)
        /\ NoCert(todo) /\ TokensAre(todo, disk.conf.token)
    BY <1>1, <1>8, <1>9, <1>10, <1>11, <1>15, SaveCaOutcome
  <2>2. Goes(proc, todo, onward, "failed", plain, old.ca, disk.cert)
    BY <1>1, <1>2, <1>12, <1>13, <2>1, DoGoes, PlaceIs
  <2> QED
    BY <1>3, <1>9, <1>11, <1>12, <1>13, <1>15, <2>1, <2>2
<1> QED
  BY <1>14, <1>15

\* openState on the trust put back.
LEMMA ReopenMoves ==
    ASSUME Typed, Reopen
    PROVE  /\ Setting /\ proc.pc = "reopen" /\ Recalled
           /\ \/ Gone(proc, "token")
              \/ \E todo, f, ca :
                    /\ Opens(todo, disk, f, ca, proc.flags)
                    /\ Goes(proc, todo, "token", "failed", f, ca, disk.cert)
<1>1. disk \in Disk /\ proc \in Processes /\ proc.flags \in Flags /\ FALSE \in BOOLEAN
  BY TypedFields, ProcessFields
<1>2. proc.todo = <<>>
  BY DEF Reopen, Typed, Writing
<1>3. PICK o : o = Opened(disk, proc.flags, FALSE)
  OBVIOUS
<1>4. /\ proc' = Do(proc, o.writes, "token", "failed")
      /\ Setting /\ proc.pc = "reopen" /\ Recalled
  BY <1>3 DEF Reopen, Recalled, history
<1>5. CASE o.trust = None
  <2>1. o.writes = <<>>
    BY <1>1, <1>3, <1>5, OpenedIs, TypedFields
  <2>2. Gone(proc, "token")
    BY <1>1, <1>2, <1>4, <2>1, DoGone, PlaceIs
  <2> QED
    BY <1>4, <2>2
<1>6. CASE o.trust # None
  <2>1. PICK f, ca : Opens(o.writes, disk, f, ca, proc.flags)
    BY <1>1, <1>3, <1>6, OpenedIs, TypedFields
  <2>2. Outcome(o.writes, disk, f, ca, disk.cert)
    BY <2>1 DEF Opens
  <2>3. Goes(proc, o.writes, "token", "failed", f, ca, disk.cert)
    BY <1>1, <1>2, <1>4, <2>2, DoGoes, PlaceIs
  <2> QED
    BY <1>4, <2>1, <2>3
<1> QED
  BY <1>5, <1>6

\* A certificate then another then config.json.
CertThenConf(todo, cert, f) ==
    /\ Len(todo) = 2 /\ todo[1].file = "cert" /\ todo[1].value = cert
    /\ todo[2].file = "conf" /\ todo[2].value = f

\* A certificate from before a trust that has changed is dropped.
LEMMA DropMoves ==
    ASSUME Typed, DropStale
    PROVE  /\ Setting /\ proc.pc = "drop" /\ Recalled
           /\ \/ /\ ~proc.forgot \/ disk.cert = None \/ TrustOf(disk) = TrustOf(proc.before)
                 /\ Gone(proc, "token")
              \/ \E todo :
                    /\ Goes(proc, todo, "token", "failed", disk.conf, disk.ca, None)
                    /\ CertThenConf(todo, None, disk.conf)
<1>1. disk \in Disk /\ proc \in Processes /\ disk.conf \in Config
  BY TypedFields, DiskFields
<1>2. proc.todo = <<>>
  BY DEF DropStale, Typed, Writing
<1>3. PICK stale : stale = (proc.forgot /\ disk.cert # None
                            /\ TrustOf(disk) # TrustOf(proc.before))
  OBVIOUS
<1>4. /\ proc' = Do(proc, IF stale THEN DropIssued(disk.conf) ELSE <<>>, "token", "failed")
      /\ Setting /\ proc.pc = "drop" /\ Recalled
  BY <1>3 DEF DropStale, Recalled, history
<1>5. CASE ~stale
  <2>1. Gone(proc, "token")
    BY <1>1, <1>2, <1>4, <1>5, DoGone, PlaceIs
  <2> QED
    BY <1>3, <1>4, <1>5, <2>1
<1>6. CASE stale
  <2>1. PICK todo : todo = <<SetCert(None), SetConf(disk.conf)>>
    OBVIOUS
  <2>2. /\ Outcome(todo, disk, disk.conf, disk.ca, None)
        /\ CertThenConf(todo, None, disk.conf)
    BY <1>1, <2>1, CertConfOutcome DEF CertThenConf
  <2>3. proc' = Do(proc, todo, "token", "failed")
    BY <1>4, <1>6, <2>1 DEF DropIssued
  <2>4. Goes(proc, todo, "token", "failed", disk.conf, disk.ca, None)
    BY <1>1, <1>2, <2>2, <2>3, DoGoes, PlaceIs
  <2> QED
    BY <1>4, <2>2, <2>4
<1> QED
  BY <1>5, <1>6

\* The token is kept, once the trust is settled, and the client built on it.
LEMMA KeepMoves ==
    ASSUME Typed, KeepToken
    PROVE  /\ Setting /\ proc.pc = "token" /\ UNCHANGED <<disk, torn, kept, owed>>
           /\ settled' = Current /\ lost' = FALSE
           /\ \/ Gone(proc, "register")
              \/ \E p :
                    /\ p \in Processes /\ p.by = proc.by /\ p.flags = proc.flags
                    /\ p.trust = TrustOf(disk)
                    /\ \/ ~p.flags.token /\ Gone(p, "key")
                       \/ \E todo, f :
                             /\ f.server = disk.conf.server /\ f.system = disk.conf.system
                             /\ f.token
                             /\ Goes(p, todo, "key", "failed", f, disk.ca, disk.cert)
                             /\ Len(todo) = 1 /\ todo[1].file = "conf" /\ todo[1].value = f
<1>1. disk \in Disk /\ proc \in Processes /\ TrustOf(disk) \in Trusts \cup {None}
  BY TypedFields, DiskFields DEF TrustOf, Trusts
<1>2. proc.todo = <<>>
  BY DEF KeepToken, Typed, Writing
<1>3. PICK old : old = disk.conf
  OBVIOUS
<1>4. PICK f : f = [old EXCEPT !.token = TRUE]
  OBVIOUS
<1>5. f \in Config /\ f.server = old.server /\ f.system = old.system /\ f.token = TRUE
  <2>1. old \in Config
    BY <1>1, <1>3, DiskFields
  <2> QED
    BY <1>4, <2>1, ConfigWith
<1>6. PICK todo : todo = <<SetConf(f)>>
  OBVIOUS
<1>7. PICK p : p = [proc EXCEPT !.trust = TrustOf(disk)]
  OBVIOUS
<1>8. /\ p \in Processes /\ p.by = proc.by /\ p.flags = proc.flags /\ p.trust = TrustOf(disk)
      /\ p.todo = <<>>
  BY <1>1, <1>2, <1>7 DEF Processes
<1>9. /\ proc' = IF disk.cert # None THEN Go(proc, "register")
                 ELSE Do(p, IF proc.flags.token THEN todo ELSE <<>>, "key", "failed")
      /\ Setting /\ proc.pc = "token" /\ UNCHANGED <<disk, torn, kept, owed>>
      /\ settled' = Current /\ lost' = FALSE
  BY <1>3, <1>4, <1>6, <1>7 DEF KeepToken
<1>10. CASE disk.cert # None
  <2>1. Gone(proc, "register")
    BY <1>1, <1>2, <1>9, <1>10, GoGone, PlaceIs
  <2> QED
    BY <1>9, <2>1
<1>11. CASE disk.cert = None /\ ~proc.flags.token
  <2>1. Gone(p, "key")
    BY <1>8, <1>9, <1>11, DoGone, PlaceIs
  <2> QED
    BY <1>8, <1>9, <1>11, <2>1
<1>12. CASE disk.cert = None /\ proc.flags.token
  <2>1. Outcome(todo, disk, f, disk.ca, disk.cert)
    BY <1>1, <1>5, <1>6, ConfOutcome
  <2>2. Goes(p, todo, "key", "failed", f, disk.ca, disk.cert)
    BY <1>8, <1>9, <1>12, <2>1, DoGoes, PlaceIs
  <2>3. Len(todo) = 1 /\ todo[1].file = "conf" /\ todo[1].value = f
    BY <1>5, <1>6, WriteIs
  <2> QED
    BY <1>3, <1>5, <1>8, <1>9, <2>2, <2>3
<1> QED
  BY <1>10, <1>11, <1>12

\* The directory is not locked down, after the trust is settled.
LEMMA ProtectMoves ==
    ASSUME Typed, ProtectFails
    PROVE  /\ Setting /\ proc.pc = "token" /\ UNCHANGED <<disk, torn, kept, owed>>
           /\ settled' = Current /\ lost' = FALSE /\ Gone(proc, "failed")
<1>1. proc \in Processes /\ proc.todo = <<>>
  BY DEF Typed, ProtectFails, Writing
<1> QED
  BY <1>1, GoGone, PlaceIs DEF ProtectFails

\* config.json, once or twice, as a new key writes it.
Resets(todo, f, g) ==
    \/ Len(todo) = 1 /\ todo[1].file = "conf" /\ todo[1].value = f
    \/ /\ Len(todo) = 2 /\ todo[1].file = "conf" /\ todo[1].value = f
       /\ todo[2].file = "conf" /\ todo[2].value = g

\* The key: nothing to do, or a config.json that says nothing of the store, and
\* says it again where the server offers the directory features.
LEMMA KeyMoves ==
    ASSUME Typed, NEW offered \in BOOLEAN, EnsureKey(offered)
    PROVE  /\ proc.pc = "key" /\ UNCHANGED <<disk, settled, torn, kept, owed>>
           /\ key' = TRUE /\ lost' = (lost \/ (~key /\ disk.conf.system)) /\ lost' \in BOOLEAN
           /\ \/ Serving /\ Gone(proc, "run")
              \/ Gone(proc, "enroll")
              \/ \E todo, f, g, h, onward :
                    /\ ~key /\ onward \in {"enroll", "run"} /\ (onward = "run" => Serving)
                    /\ f.server = disk.conf.server /\ f.system = FALSE
                    /\ f.token = disk.conf.token /\ g = disk.conf
                    /\ Resets(todo, f, g)
                    /\ h.token = disk.conf.token
                    /\ Goes(proc, todo, onward, IF Setting THEN "failed" ELSE "fatal",
                            h, disk.ca, disk.cert)
<1>1. /\ disk \in Disk /\ proc \in Processes /\ lost \in BOOLEAN /\ key \in BOOLEAN
      /\ disk.conf \in Config /\ disk.conf.system \in BOOLEAN
  BY TypedFields, DiskFields
<1>2. proc.todo = <<>>
  BY DEF EnsureKey, Typed, Writing
<1>3. PICK g : g = disk.conf
  OBVIOUS
<1>4. PICK f : f = [g EXCEPT !.system = FALSE]
  OBVIOUS
<1>5. /\ f \in Config /\ f.server = disk.conf.server /\ f.system = FALSE
      /\ f.token = disk.conf.token /\ g \in Config
  <2>1. g \in Config
    BY <1>1, <1>3
  <2>2. f \in Config /\ f.server = g.server /\ f.system = FALSE /\ f.token = g.token
    BY <1>4, <2>1, ConfigWith
  <2> QED
    BY <1>3, <2>1, <2>2
<1>6. PICK onward : onward = IF Serving /\ disk.cert # None THEN "run" ELSE "enroll"
  OBVIOUS
<1>7. PICK todo : todo = IF offered THEN <<SetConf(f), SetConf(g)>> ELSE <<SetConf(f)>>
  OBVIOUS
<1>8. /\ proc' = IF key THEN Go(proc, onward) ELSE Do(proc, todo, onward, Undone)
      /\ proc.pc = "key" /\ UNCHANGED <<disk, settled, torn, kept, owed>>
      /\ key' = TRUE /\ lost' = (lost \/ (~key /\ disk.conf.system))
  BY <1>3, <1>4, <1>6, <1>7 DEF EnsureKey
<1>9. lost' \in BOOLEAN
  BY <1>1, <1>8
<1>10. onward \in {"enroll", "run"} /\ (onward = "run" => Serving) /\ onward \in Places
  BY <1>6, PlaceIs
<1>11. Undone = (IF Setting THEN "failed" ELSE "fatal") /\ Undone \in Places
  BY PlaceIs DEF Undone
<1>12. CASE key
  <2>1. Gone(proc, onward)
    BY <1>1, <1>2, <1>8, <1>10, <1>12, GoGone
  <2> QED
    BY <1>8, <1>9, <1>10, <2>1
<1>13. CASE ~key
  <2>1. \E h : h.token = disk.conf.token /\ Outcome(todo, disk, h, disk.ca, disk.cert)
    BY <1>1, <1>3, <1>5, <1>7, ConfOutcome, ConfConfOutcome
  <2>2. PICK h : h.token = disk.conf.token /\ Outcome(todo, disk, h, disk.ca, disk.cert)
    BY <2>1
  <2>3. Goes(proc, todo, onward, IF Setting THEN "failed" ELSE "fatal", h, disk.ca, disk.cert)
    BY <1>1, <1>2, <1>8, <1>10, <1>11, <1>13, <2>2, DoGoes
  <2>4. Resets(todo, f, g)
    BY <1>5, <1>7, WriteIs DEF Resets
  <2> QED
    BY <1>3, <1>5, <1>8, <1>9, <1>10, <1>13, <2>2, <2>3, <2>4
<1> QED
  BY <1>12, <1>13

\* The key that cannot be written.
LEMMA KeyFailsMoves ==
    ASSUME Typed, KeyFails
    PROVE  /\ proc.pc = "key" /\ Recalled
           /\ \/ Setting /\ Gone(proc, "failed")
              \/ ~Setting /\ Gone(proc, "fatal")
<1>1. proc \in Processes /\ proc.todo = <<>> /\ proc.pc = "key"
  BY DEF Typed, KeyFails, Writing
<1>2. Recalled /\ proc' = Go(proc, Undone)
  BY DEF KeyFails, Recalled, history
<1> QED
  BY <1>1, <1>2, GoGone, PlaceIs DEF Undone

\* An enrollment: nothing, or a certificate for the client and the end of the token.
LEMMA EnrollMoves ==
    ASSUME Typed, NEW issued \in BOOLEAN, Enroll(issued)
    PROVE  /\ proc.pc = "enroll" /\ UNCHANGED <<disk, settled, torn, kept, lost>>
           /\ owed' = (owed \/ (Setting /\ proc.flags.token)) /\ owed' \in BOOLEAN
           /\ \/ Setting /\ Gone(proc, "register")
              \/ \E todo, f :
                    /\ f.server = disk.conf.server /\ f.system = disk.conf.system
                    /\ Goes(proc, todo, IF Setting THEN "register" ELSE "run",
                            IF Setting THEN "register" ELSE "fatal", f, disk.ca, proc.trust)
                    /\ CertThenConf(todo, proc.trust, f)
<1>1. disk \in Disk /\ proc \in Processes /\ proc.trust \in Trusts \cup {None} /\ owed \in BOOLEAN
  BY TypedFields, ProcessFields
<1>2. proc.todo = <<>>
  BY DEF Enroll, Typed, Writing
<1>3. PICK onward : onward = IF Setting THEN "register" ELSE "run"
  OBVIOUS
<1>4. PICK otherwise : otherwise = IF Setting THEN "register" ELSE "fatal"
  OBVIOUS
<1>5. PICK old : old = disk.conf
  OBVIOUS
<1>6. PICK f : f = [old EXCEPT !.token = FALSE]
  OBVIOUS
<1>7. f \in Config /\ f.server = old.server /\ f.system = old.system
  <2>1. old \in Config
    BY <1>1, <1>5, DiskFields
  <2> QED
    BY <1>6, <2>1, ConfigWith
<1>8. PICK todo : todo = <<SetCert(proc.trust), SetConf(f)>>
  OBVIOUS
<1>9. /\ proc' = IF issued THEN Do(proc, todo, onward, otherwise) ELSE Go(proc, onward)
      /\ proc.pc = "enroll" /\ UNCHANGED <<disk, settled, torn, kept, lost>>
      /\ owed' = (owed \/ (Setting /\ proc.flags.token))
      /\ issued \/ Setting
  BY <1>3, <1>4, <1>5, <1>6, <1>8 DEF Enroll, SaveIssued
<1>10. owed' \in BOOLEAN
  BY <1>9
<1>11. onward \in Places /\ otherwise \in Places
  BY <1>3, <1>4, PlaceIs
<1>12. CASE ~issued
  <2>1. Gone(proc, onward)
    BY <1>1, <1>2, <1>9, <1>11, <1>12, GoGone
  <2> QED
    BY <1>3, <1>9, <1>10, <1>12, <2>1
<1>13. CASE issued
  <2>1. /\ Outcome(todo, disk, f, disk.ca, proc.trust)
        /\ CertThenConf(todo, proc.trust, f)
    BY <1>1, <1>7, <1>8, CertConfOutcome DEF CertThenConf
  <2>2. Goes(proc, todo, onward, otherwise, f, disk.ca, proc.trust)
    BY <1>1, <1>2, <1>9, <1>11, <1>13, <2>1, DoGoes
  <2> QED
    BY <1>3, <1>4, <1>5, <1>7, <1>9, <1>10, <2>1, <2>2
<1> QED
  BY <1>12, <1>13

\* Where the process is, or is writing its way to.
Where == IF Writing THEN proc.onward ELSE proc.pc
Target == After(disk, proc.todo)

\* What a process writes leads to a step that is not writing.
Routed ==
    /\ ~Setting => /\ Where \in {"idle", "start", "key", "enroll", "run", "fatal"}
                   /\ Writing => proc.otherwise = "fatal"
    /\ Setting => Where \in {"check", "open", "restore", "reopen", "drop", "token", "key",
                             "enroll", "register", "failed"}
    /\ Setting /\ Writing =>
          /\ Where \notin {"check", "restore"}
          /\ Where = "register" => proc.otherwise = "register"
          /\ Where = "drop" /\ proc.forgot => proc.otherwise = "restore"
          /\ Where # "register" /\ ~(Where = "drop" /\ proc.forgot) => proc.otherwise = "failed"

\* One file is written.
LEMMA WriteMoves ==
    ASSUME Typed, Routed, Write
    PROVE  /\ Writing /\ UNCHANGED <<settled, torn, kept, lost>>
           /\ Len(proc.todo) \in 1..3 /\ proc.todo[1] \in Writes
           /\ disk' = Apply(disk, proc.todo[1]) /\ disk' \in Disk
           /\ owed' = (owed /\ proc.todo[1].file # "cert") /\ owed' \in BOOLEAN
           /\ Moved(proc', proc) /\ Where' = Where /\ Target' = Target
           /\ Len(proc'.todo) = Len(proc.todo) - 1
           /\ \A i \in 1..Len(proc'.todo) : proc'.todo[i] = proc.todo[i + 1]
           /\ \/ ~Writing' /\ proc'.todo = <<>> /\ proc'.pc = proc.onward
              \/ /\ Writing' /\ Len(proc'.todo) \in 1..2
                 /\ proc'.onward = proc.onward /\ proc'.otherwise = proc.otherwise
<1>1. /\ disk \in Disk /\ proc \in Processes /\ Writing /\ Len(proc.todo) \in 1..3
      /\ proc.todo \in Seq(Writes) /\ proc.onward \in Places /\ owed \in BOOLEAN
  BY TypedFields, ProcessFields DEF Typed, Write, Writing
<1>2. proc.onward # "writing"
  BY <1>1 DEF Routed, Where
<1>3. /\ After(Apply(disk, Head(proc.todo)), Tail(proc.todo)) = After(disk, proc.todo)
      /\ Head(proc.todo) = proc.todo[1] /\ Head(proc.todo) \in Writes
      /\ Tail(proc.todo) \in Seq(Writes) /\ Len(Tail(proc.todo)) = Len(proc.todo) - 1
      /\ \A i \in 1..Len(Tail(proc.todo)) : Tail(proc.todo)[i] = proc.todo[i + 1]
  BY <1>1, AfterStep
<1>4. /\ disk' = Apply(disk, proc.todo[1])
      /\ owed' = (owed /\ proc.todo[1].file # "cert")
      /\ UNCHANGED <<settled, torn, kept, lost>>
      /\ proc' = IF Len(proc.todo) = 1 THEN [Go(proc, proc.onward) EXCEPT !.todo = <<>>]
                                       ELSE [proc EXCEPT !.todo = Tail(@)]
  BY <1>3 DEF Write, Apply
<1>5. disk' \in Disk /\ owed' \in BOOLEAN
  BY <1>1, <1>3, <1>4, ApplyIs
<1>6. CASE Len(proc.todo) = 1
  <2>1. PICK q : q = Go(proc, proc.onward)
    OBVIOUS
  <2>2. Moved(q, proc) /\ q.pc = proc.onward
    BY <1>1, <2>1, GoIs
  <2>3. <<>> \in Seq(Writes)
    OBVIOUS
  <2>4. proc' = [q EXCEPT !.todo = <<>>]
    BY <1>4, <1>6, <2>1
  <2>5. Moved(proc', proc) /\ proc'.pc = proc.onward /\ proc'.todo = <<>>
    BY <2>2, <2>3, <2>4 DEF Moved, Processes
  <2>6. Tail(proc.todo) = <<>>
    <3>1. PICK rest : rest = Tail(proc.todo)
      OBVIOUS
    <3>2. rest \in Seq(Writes) /\ Len(rest) = Len(proc.todo) - 1
      BY <1>3, <3>1
    <3>3. Len(rest) = 0
      BY <1>6, <3>2
    <3>4. rest = <<>>
      BY <3>2, <3>3, EmptySeq
    <3> QED
      BY <3>1, <3>4
  <2>7. After(disk', proc'.todo) = After(disk, proc.todo)
    BY <1>3, <1>4, <2>5, <2>6
  <2>8. ~Writing' /\ Len(proc'.todo) = 0
    BY <1>2, <2>5 DEF Writing
  <2> QED
    BY <1>1, <1>3, <1>4, <1>5, <1>6, <2>5, <2>7, <2>8 DEF Where, Target, Writing
<1>7. CASE Len(proc.todo) # 1
  <2>1. PICK rest : rest = Tail(proc.todo)
    OBVIOUS
  <2>2. proc' = [proc EXCEPT !.todo = rest] /\ rest \in Seq(Writes)
    BY <1>3, <1>4, <1>7, <2>1
  <2>3. /\ Moved(proc', proc) /\ proc'.pc = proc.pc /\ proc'.todo = rest
        /\ proc'.onward = proc.onward /\ proc'.otherwise = proc.otherwise
    BY <1>1, <2>2 DEF Moved, Processes
  <2>4. /\ After(disk', proc'.todo) = After(disk, proc.todo)
        /\ Len(proc'.todo) = Len(proc.todo) - 1
        /\ \A i \in 1..Len(proc'.todo) : proc'.todo[i] = proc.todo[i + 1]
    BY <1>3, <1>4, <2>1, <2>3
  <2>5. Len(proc'.todo) \in 1..2
    BY <1>1, <1>7, <2>4
  <2> QED
    BY <1>1, <1>3, <1>4, <1>5, <2>3, <2>4, <2>5 DEF Where, Target, Writing
<1> QED
  BY <1>6, <1>7

\* A write that fails.
LEMMA WriteFailsMoves ==
    ASSUME Typed, WriteFails
    PROVE  /\ Writing /\ UNCHANGED <<disk, settled, kept, lost, owed>>
           /\ Gone(proc, proc.otherwise)
           /\ torn' = (torn \/ (proc.otherwise = "failed" /\ (~Held \/ Both)))
           /\ torn' \in BOOLEAN
<1>1. proc \in Processes /\ proc.otherwise \in Places /\ torn \in BOOLEAN
  BY TypedFields, ProcessFields
<1>2. PICK q : q = Go(proc, proc.otherwise)
  OBVIOUS
<1>3. Moved(q, proc) /\ q.pc = proc.otherwise
  BY <1>1, <1>2, GoIs
<1>4. proc' = [q EXCEPT !.todo = <<>>] /\ <<>> \in Seq(Writes)
  BY <1>2 DEF WriteFails
<1>5. Gone(proc, proc.otherwise)
  BY <1>3, <1>4 DEF Gone, Moved, Processes
<1> QED
  BY <1>1, <1>5 DEF WriteFails, Writing

\* The process ends, or the service starts: all its disk work is behind it.
Leaves == \/ SetupFails \/ Register \/ Start \/ Recover
          \/ ExitFailure \/ Stop \/ Crash \/ Uninstall

\* Such a step leaves the disk and the history, and setup has no write pending.
LEMMA LeavesMoves ==
    ASSUME Typed, Routed, Leaves
    PROVE  /\ Recalled /\ proc' \in Processes /\ proc'.by \in {"nobody", "service"}
           /\ proc'.pc \in {"idle", "start"} /\ proc'.todo = <<>>
           /\ Setting => ~Writing /\ proc.pc \in {"failed", "register"}
<1> DEFINE served == [Idle EXCEPT !.by = "service", !.pc = "start"]
<1>1. proc' = Idle \/ proc' = served
  BY DEF Leaves, SetupFails, Register, Start, Recover, ExitFailure, Stop, Crash, Uninstall
<1>2. /\ Idle \in Processes /\ Idle.by = "nobody" /\ Idle.pc = "idle" /\ Idle.todo = <<>>
      /\ served \in Processes /\ served.by = "service" /\ served.pc = "start"
      /\ served.todo = <<>>
  BY IdleIs
<1>3. Recalled
  BY DEF Recalled, history, Leaves, SetupFails, Register, Start, Recover, ExitFailure, Stop,
         Crash, Uninstall
<1>4. Setting => ~Writing /\ proc.pc \in {"failed", "register"}
  BY DEF Leaves, SetupFails, Register, Start, Recover, ExitFailure, Stop, Crash, Uninstall,
         Setting, Serving, Writing
<1> HIDE DEF served
<1> QED
  BY <1>1, <1>2, <1>3, <1>4

\* Setup is cut.
LEMMA CutMoves ==
    ASSUME Typed, Cut
    PROVE  /\ Setting /\ UNCHANGED <<disk, settled, kept, lost, owed>>
           /\ torn' = (torn \/ ~Held \/ Both) /\ torn' \in BOOLEAN
           /\ proc' \in Processes /\ proc'.by = "nobody" /\ proc'.pc = "idle"
           /\ proc'.todo = <<>>
  BY IdleIs, TypedFields DEF Cut

\* The service manager, the admin and the servers leave disk and process alone.
Beside == EnsureRecovery \/ EnsureFails \/ Tune \/ Rebuild \/ UNCHANGED vars

\* Such a step changes what the process checked, at most.
LEMMA BesideMoves ==
    ASSUME Typed, Beside
    PROVE  /\ Recalled /\ Moved(proc', proc) /\ proc'.pc = proc.pc /\ proc'.todo = proc.todo
           /\ proc'.onward = proc.onward /\ proc'.otherwise = proc.otherwise
<1>1. Recalled /\ (proc' = proc \/ proc' = [proc EXCEPT !.checked = TRUE])
  BY DEF Beside, Recalled, history, vars, EnsureRecovery, EnsureFails, Tune, Rebuild
<1>2. proc \in Processes
  BY TypedFields
<1>3. PICK q : q = [proc EXCEPT !.checked = TRUE]
  OBVIOUS
<1>4. /\ Moved(q, proc) /\ q.pc = proc.pc /\ q.todo = proc.todo
      /\ q.onward = proc.onward /\ q.otherwise = proc.otherwise
  BY <1>2, <1>3 DEF Processes, Moved
<1> QED
  BY <1>1, <1>2, <1>3, <1>4 DEF Moved

-----------------------------------------------------------------------------
(* The types, and the route.                                               *)

\* The steps of Next, in the groups the lemmas above describe.
LEMMA NextCases ==
    ASSUME [Next]_vars
    PROVE  \/ \E by \in {"setup", "install"} : Setup(by)
           \/ \E answers \in BOOLEAN : Check(answers)
           \/ \E answers \in BOOLEAN : Open(answers)
           \/ \E answers \in BOOLEAN : OpenAlone(answers)
           \/ \E offered \in BOOLEAN : EnsureKey(offered)
           \/ \E issued \in BOOLEAN : Enroll(issued)
           \/ KeyFails
           \/ Restore \/ Reopen \/ DropStale \/ KeepToken \/ ProtectFails \/ Cut
           \/ Write \/ WriteFails \/ Leaves \/ Beside
  BY DEF Next, Leaves, Beside

\* Fields that the trust's story leaves alone.
LEMMA RestTyped ==
    ASSUME Typed, Routed, [Next]_vars
    PROVE  /\ chain' \in [Servers -> Cas \cup {"public"}]
           /\ service' \in [registered : BOOLEAN, restarts : BOOLEAN, onExit : BOOLEAN,
                            repaired : BOOLEAN]
           /\ exit' \in {"none", "stopped", "failure", "crash"}
           /\ key' \in BOOLEAN
<1>1. /\ key \in BOOLEAN
      /\ chain \in [Servers -> Cas \cup {"public"}]
      /\ service \in [registered : BOOLEAN, restarts : BOOLEAN, onExit : BOOLEAN,
                      repaired : BOOLEAN]
      /\ exit \in {"none", "stopped", "failure", "crash"}
  BY DEF Typed, TypeOK
<1>2. chain' \in [Servers -> Cas \cup {"public"}]
  <2>1. CASE Rebuild
    BY <1>1, <2>1 DEF Rebuild
  <2>2. CASE ~Rebuild
    <3>1. chain' = chain
      BY <2>2 DEF Next, vars, Setup, Check, Open, OpenAlone, Enroll, Restore, Reopen,
                  DropStale, KeepToken, EnsureKey, KeyFails, ProtectFails, SetupFails, Register,
                  Cut, Write, WriteFails, Start, Recover, EnsureRecovery, EnsureFails, Tune,
                  ExitFailure, Stop, Crash, Uninstall
    <3> QED
      BY <1>1, <3>1
  <2> QED
    BY <2>1, <2>2
<1>3. service' \in [registered : BOOLEAN, restarts : BOOLEAN, onExit : BOOLEAN,
                    repaired : BOOLEAN]
  <2> DEFINE entries == [registered : BOOLEAN, restarts : BOOLEAN, onExit : BOOLEAN,
                         repaired : BOOLEAN]
  <2>0. \A a, b \in BOOLEAN : [NotRegistered EXCEPT !.registered = a, !.restarts = b] \in entries
    BY DEF NotRegistered
  <2>1. CASE Register
    <3>1. [NotRegistered EXCEPT !.registered = TRUE] \in entries
      BY DEF NotRegistered
    <3>2. [registered |-> TRUE, restarts |-> TRUE, onExit |-> TRUE, repaired |-> TRUE]
             \in entries
      OBVIOUS
    <3>3. \/ service' = [NotRegistered EXCEPT !.registered = TRUE]
          \/ service' = [registered |-> TRUE, restarts |-> TRUE, onExit |-> TRUE,
                         repaired |-> TRUE]
          \/ \E actions \in BOOLEAN :
                service' = [NotRegistered EXCEPT !.registered = TRUE, !.restarts = actions]
      BY <2>1 DEF Register
    <3> QED
      BY <2>0, <3>1, <3>2, <3>3
  <2>2. CASE EnsureRecovery \/ EnsureFails \/ Tune
    <3>1. CASE EnsureRecovery
      BY <1>1, <3>1 DEF EnsureRecovery
    <3>2. CASE EnsureFails
      <4>1. PICK actions \in {service.restarts, TRUE} :
               service' = [service EXCEPT !.restarts = actions]
        BY <3>2 DEF EnsureFails
      <4>2. actions \in BOOLEAN
        BY <1>1
      <4> QED
        BY <1>1, <4>1, <4>2
    <3>3. CASE Tune
      BY <1>1, <3>3 DEF Tune
    <3> QED
      BY <2>2, <3>1, <3>2, <3>3
  <2>3. CASE Uninstall
    BY <2>3 DEF Uninstall, NotRegistered
  <2>4. CASE ~Register /\ ~EnsureRecovery /\ ~EnsureFails /\ ~Tune /\ ~Uninstall
    <3>1. service' = service
      BY <2>4 DEF Next, vars, Setup, Check, Open, OpenAlone, Enroll, Restore, Reopen,
                  DropStale, KeepToken, EnsureKey, KeyFails, ProtectFails, SetupFails, Cut, Write,
                  WriteFails,
                  Start, Recover, ExitFailure, Stop, Crash, Rebuild
    <3> QED
      BY <1>1, <3>1
  <2> QED
    BY <2>1, <2>2, <2>3, <2>4
<1>4. exit' \in {"none", "stopped", "failure", "crash"}
  BY <1>1 DEF Next, vars, Setup, Check, Open, OpenAlone, Enroll, Restore, Reopen, DropStale,
              KeepToken, EnsureKey, KeyFails, ProtectFails, SetupFails, Register, Cut, Write,
              WriteFails, Start,
              Recover, EnsureRecovery, EnsureFails, Tune, ExitFailure, Stop, Crash, Uninstall,
              Rebuild
<1>5. key' \in BOOLEAN
  BY <1>1 DEF Next, vars, Setup, Check, Open, OpenAlone, Enroll, Restore, Reopen, DropStale,
              KeepToken, EnsureKey, KeyFails, ProtectFails, SetupFails, Register, Cut, Write,
              WriteFails, Start, Recover, EnsureRecovery, EnsureFails, Tune, ExitFailure, Stop,
              Crash, Uninstall, Rebuild
<1> QED
  BY <1>2, <1>3, <1>4, <1>5

\* What is on disk is of the right type.
LEMMA CurrentTyped ==
    ASSUME Typed
    PROVE  Current \in [trust : Trusts \cup {None}, server : Servers \cup {None}]
  BY TypedFields, DiskFields DEF Current, TrustOf, Trusts

\* A process at a step, and one writing its way to one.
LEMMA GoneAt ==
    ASSUME NEW p, NEW a \in Places \ {"writing"}, Gone(p, a)
    PROVE  /\ proc' \in Processes /\ proc'.by = p.by /\ proc'.flags = p.flags
           /\ proc'.forgot = p.forgot /\ proc'.before = p.before /\ proc'.trust = p.trust
           /\ ~Writing' /\ proc'.todo = <<>> /\ Len(proc'.todo) = 0
           /\ Where' = a /\ Target' = disk'
<1>1. proc'.todo = <<>> /\ proc'.pc = a /\ Moved(proc', p)
  BY DEF Gone
<1>2. Len(proc'.todo) = 0
  BY <1>1
<1>3. After(disk', proc'.todo) = disk'
  BY <1>2 DEF After
<1> QED
  BY <1>1, <1>2, <1>3 DEF Moved, Writing, Where, Target

\* A process on its way, and the disk it is to leave.
LEMMA OntoAt ==
    ASSUME NEW todo, NEW a, NEW b, NEW f, NEW ca, NEW cert, disk' = disk,
           Onto(todo, a, b, f, ca, cert)
    PROVE  /\ Writing' /\ proc'.todo = todo /\ Len(todo) \in 1..3 /\ todo \in Seq(Writes)
           /\ proc'.otherwise = b /\ Where' = a /\ Is(Target', f, ca, cert)
  BY DEF Onto, Outcome, Writing, Where, Target

\* The same, with what it keeps of the process it was.
LEMMA GoesAt ==
    ASSUME NEW p, NEW todo, NEW a, NEW b, NEW f, NEW ca, NEW cert, disk' = disk,
           Goes(p, todo, a, b, f, ca, cert)
    PROVE  /\ proc' \in Processes /\ proc'.by = p.by /\ proc'.flags = p.flags
           /\ proc'.forgot = p.forgot /\ proc'.before = p.before /\ proc'.trust = p.trust
           /\ Writing' /\ proc'.todo = todo /\ Len(todo) \in 1..3 /\ todo \in Seq(Writes)
           /\ proc'.otherwise = b /\ Where' = a /\ Is(Target', f, ca, cert)
  BY OntoAt DEF Goes, Moved

\* Types, and the route, hold at first.
LEMMA RoutedStart ==
    ASSUME Init
    PROVE  Typed /\ Routed
<1>1. /\ Idle \in Processes /\ Idle.by = "nobody" /\ Idle.pc = "idle" /\ Idle.todo = <<>>
      /\ Idle.before \in Disk
  BY IdleIs
<1>2. proc = Idle /\ disk = Idle.before
  BY DEF Init
<1>3. service \in [registered : BOOLEAN, restarts : BOOLEAN, onExit : BOOLEAN, repaired : BOOLEAN]
  BY DEF Init, NotRegistered
<1>4. settled \in [trust : Trusts \cup {None}, server : Servers \cup {None}]
  BY DEF Init, Nowhere
<1>5. Idle.flags \in Flags /\ Idle.trust \in Trusts \cup {None}
  BY <1>1, ProcessFields
<1>6. TypeOK
  BY <1>1, <1>2, <1>3, <1>4, <1>5 DEF Init, TypeOK, Flags
<1> QED
  BY <1>1, <1>2, <1>6 DEF Typed, Routed, Writing, Where, Setting

\* A step that leaves a typed disk, process and history.
LEMMA TypedAfter ==
    ASSUME Typed, Routed, [Next]_vars,
           disk' \in Disk, proc' \in Processes,
           settled' \in [trust : Trusts \cup {None}, server : Servers \cup {None}],
           torn' \in BOOLEAN, kept' \in BOOLEAN, lost' \in BOOLEAN, owed' \in BOOLEAN,
           Writing' => Len(proc'.todo) \in 1..3, ~Writing' => proc'.todo = <<>>
    PROVE  Typed'
<1>1. /\ proc'.by \in {"nobody", "setup", "install", "service"} /\ proc'.flags \in Flags
      /\ proc'.before \in Disk /\ proc'.trust \in Trusts \cup {None}
  BY ProcessFields
<1>2. TypeOK'
  BY <1>1, RestTyped DEF TypeOK, Flags
<1> QED
  BY <1>2 DEF Typed

\* Every step keeps the types, and the route.
LEMMA RoutedStep ==
    ASSUME Typed, Routed, [Next]_vars
    PROVE  Typed' /\ Routed'
<1> DEFINE Kept == /\ settled' \in [trust : Trusts \cup {None}, server : Servers \cup {None}]
                   /\ torn' \in BOOLEAN /\ kept' \in BOOLEAN /\ lost' \in BOOLEAN
                   /\ owed' \in BOOLEAN
                   /\ disk' \in Disk
<1>0. /\ disk \in Disk /\ proc \in Processes /\ torn \in BOOLEAN /\ kept \in BOOLEAN
      /\ lost \in BOOLEAN /\ owed \in BOOLEAN
      /\ settled \in [trust : Trusts \cup {None}, server : Servers \cup {None}]
  BY TypedFields
<1>1. ASSUME NEW by \in {"setup", "install"}, Setup(by)
      PROVE  Typed' /\ Routed'
  <2>1. Kept
    BY <1>0, <1>1, SetupMoves
  <2>2. /\ proc' \in Processes /\ proc'.by = by /\ proc'.pc = "check" /\ proc'.todo = <<>>
    BY <1>1, SetupMoves
  <2>3. Routed'
    BY <2>2 DEF Routed, Where, Writing, Setting
  <2> QED
    BY <2>1, <2>2, <2>3, TypedAfter DEF Writing
<1>2. ASSUME NEW answers \in BOOLEAN, Check(answers)
      PROVE  Typed' /\ Routed'
  <2>1. Kept /\ Setting /\ disk' = disk /\ proc' \in Processes /\ proc'.by = proc.by
    BY <1>0, <1>2, CheckMoves
  <2>2. CASE Gone(proc, "open")
    <3>1. ~Writing' /\ proc'.todo = <<>> /\ Where' = "open"
      BY <2>2, GoneAt, PlaceIs
    <3> QED
      BY <2>1, <3>1, TypedAfter DEF Routed, Setting
  <2>3. CASE \E todo, f, ca : Onto(todo, "open", "failed", f, ca, disk.cert)
    <3>1. PICK todo, f, ca : Onto(todo, "open", "failed", f, ca, disk.cert)
      BY <2>3
    <3>2. Writing' /\ Len(proc'.todo) \in 1..3 /\ Where' = "open" /\ proc'.otherwise = "failed"
      BY <2>1, <3>1, OntoAt
    <3> QED
      BY <2>1, <3>2, TypedAfter DEF Routed, Setting
  <2> QED
    BY <1>2, <2>2, <2>3, CheckMoves
<1>3. ASSUME NEW answers \in BOOLEAN, Open(answers)
      PROVE  Typed' /\ Routed'
  <2>1. Kept /\ Setting /\ disk' = disk
    BY <1>0, <1>3, OpenMoves
  <2>2. ASSUME NEW a \in {"restore", "failed"}, Gone(proc, a)
        PROVE  Typed' /\ Routed'
    <3>1. /\ ~Writing' /\ proc'.todo = <<>> /\ Where' = a /\ proc' \in Processes
          /\ proc'.by = proc.by
      BY <2>2, GoneAt, PlaceIs
    <3> QED
      BY <2>1, <3>1, TypedAfter DEF Routed, Setting
  <2>3. ASSUME NEW todo, NEW f, NEW ca,
               Goes(proc, todo, "drop", IF proc.forgot THEN "restore" ELSE "failed",
                    f, ca, disk.cert)
        PROVE  Typed' /\ Routed'
    <3>1. /\ Writing' /\ Len(proc'.todo) \in 1..3 /\ Where' = "drop"
          /\ proc'.otherwise = IF proc'.forgot THEN "restore" ELSE "failed"
          /\ proc' \in Processes /\ proc'.by = proc.by
      BY <2>1, <2>3, GoesAt
    <3> QED
      BY <2>1, <3>1, TypedAfter DEF Routed, Setting
  <2> QED
    BY <1>3, <2>2, <2>3, OpenMoves
<1>4. ASSUME NEW answers \in BOOLEAN, OpenAlone(answers)
      PROVE  Typed' /\ Routed'
  <2>1. Kept /\ ~Setting /\ disk' = disk
    BY <1>0, <1>4, OpenAloneMoves DEF Recalled, Serving, Setting
  <2>2. CASE Gone(proc, "fatal")
    <3>1. /\ ~Writing' /\ proc'.todo = <<>> /\ Where' = "fatal" /\ proc' \in Processes
          /\ proc'.by = proc.by
      BY <2>2, GoneAt, PlaceIs
    <3> QED
      BY <2>1, <3>1, TypedAfter DEF Routed, Setting
  <2>3. ASSUME NEW todo, NEW f, NEW ca, NEW p, p.by = proc.by,
               Goes(p, todo, "key", "fatal", f, ca, disk.cert)
        PROVE  Typed' /\ Routed'
    <3>1. /\ Writing' /\ Len(proc'.todo) \in 1..3 /\ Where' = "key"
          /\ proc'.otherwise = "fatal" /\ proc' \in Processes /\ proc'.by = proc.by
      BY <2>1, <2>3, GoesAt
    <3> QED
      BY <2>1, <3>1, TypedAfter DEF Routed, Setting
  <2> QED
    BY <1>4, <2>2, <2>3, OpenAloneMoves
<1>5. ASSUME NEW issued \in BOOLEAN, Enroll(issued)
      PROVE  Typed' /\ Routed'
  <2>1. Kept /\ disk' = disk
    BY <1>0, <1>5, EnrollMoves
  <2>2. CASE Setting /\ Gone(proc, "register")
    <3>1. /\ ~Writing' /\ proc'.todo = <<>> /\ Where' = "register" /\ proc' \in Processes
          /\ proc'.by = proc.by
      BY <2>2, GoneAt, PlaceIs
    <3> QED
      BY <2>1, <2>2, <3>1, TypedAfter DEF Routed, Setting
  <2>3. ASSUME NEW todo, NEW f,
               Goes(proc, todo, IF Setting THEN "register" ELSE "run",
                    IF Setting THEN "register" ELSE "fatal", f, disk.ca, proc.trust)
        PROVE  Typed' /\ Routed'
    <3>1. /\ Writing' /\ Len(proc'.todo) \in 1..3
          /\ Where' = IF Setting THEN "register" ELSE "run"
          /\ proc'.otherwise = IF Setting THEN "register" ELSE "fatal"
          /\ proc' \in Processes /\ proc'.by = proc.by
      BY <2>1, <2>3, GoesAt
    <3> QED
      BY <2>1, <3>1, TypedAfter DEF Routed, Setting
  <2> QED
    BY <1>5, <2>2, <2>3, EnrollMoves
<1>6. CASE Restore
  <2>1. Kept /\ Setting /\ disk' = disk
    BY <1>0, <1>6, RestoreMoves DEF Recalled
  <2>2. PICK todo, f, ca, onward :
           /\ onward \in {"failed", "reopen"}
           /\ Goes(proc, todo, onward, "failed", f, ca, disk.cert)
    BY <1>6, RestoreMoves
  <2>3. /\ Writing' /\ Len(proc'.todo) \in 1..3 /\ Where' \in {"failed", "reopen"}
        /\ proc'.otherwise = "failed" /\ proc' \in Processes /\ proc'.by = proc.by
    BY <2>1, <2>2, GoesAt
  <2> QED
    BY <2>1, <2>3, TypedAfter DEF Routed, Setting
<1>7. CASE Reopen
  <2>1. Kept /\ Setting /\ disk' = disk
    BY <1>0, <1>7, ReopenMoves DEF Recalled
  <2>2. CASE Gone(proc, "token")
    <3>1. /\ ~Writing' /\ proc'.todo = <<>> /\ Where' = "token" /\ proc' \in Processes
          /\ proc'.by = proc.by
      BY <2>2, GoneAt, PlaceIs
    <3> QED
      BY <2>1, <3>1, TypedAfter DEF Routed, Setting
  <2>3. ASSUME NEW todo, NEW f, NEW ca, Goes(proc, todo, "token", "failed", f, ca, disk.cert)
        PROVE  Typed' /\ Routed'
    <3>1. /\ Writing' /\ Len(proc'.todo) \in 1..3 /\ Where' = "token"
          /\ proc'.otherwise = "failed" /\ proc' \in Processes /\ proc'.by = proc.by
      BY <2>1, <2>3, GoesAt
    <3> QED
      BY <2>1, <3>1, TypedAfter DEF Routed, Setting
  <2> QED
    BY <1>7, <2>2, <2>3, ReopenMoves
<1>8. CASE DropStale
  <2>1. Kept /\ Setting /\ disk' = disk
    BY <1>0, <1>8, DropMoves DEF Recalled
  <2>2. CASE Gone(proc, "token")
    <3>1. /\ ~Writing' /\ proc'.todo = <<>> /\ Where' = "token" /\ proc' \in Processes
          /\ proc'.by = proc.by
      BY <2>2, GoneAt, PlaceIs
    <3> QED
      BY <2>1, <3>1, TypedAfter DEF Routed, Setting
  <2>3. ASSUME NEW todo, Goes(proc, todo, "token", "failed", disk.conf, disk.ca, None)
        PROVE  Typed' /\ Routed'
    <3>1. /\ Writing' /\ Len(proc'.todo) \in 1..3 /\ Where' = "token"
          /\ proc'.otherwise = "failed" /\ proc' \in Processes /\ proc'.by = proc.by
      BY <2>1, <2>3, GoesAt
    <3> QED
      BY <2>1, <3>1, TypedAfter DEF Routed, Setting
  <2> QED
    BY <1>8, <2>2, <2>3, DropMoves
<1>9. CASE KeepToken
  <2>1. Kept /\ Setting /\ disk' = disk
    BY <1>0, <1>9, KeepMoves, CurrentTyped
  <2>2. ASSUME NEW p, p.by = proc.by, NEW a \in {"register", "key"}, Gone(p, a)
        PROVE  Typed' /\ Routed'
    <3>1. /\ ~Writing' /\ proc'.todo = <<>> /\ Where' = a /\ proc' \in Processes
          /\ proc'.by = proc.by
      BY <2>2, GoneAt, PlaceIs
    <3> QED
      BY <2>1, <3>1, TypedAfter DEF Routed, Setting
  <2>3. ASSUME NEW p, p.by = proc.by, NEW todo, NEW f,
               Goes(p, todo, "key", "failed", f, disk.ca, disk.cert)
        PROVE  Typed' /\ Routed'
    <3>1. /\ Writing' /\ Len(proc'.todo) \in 1..3 /\ Where' = "key"
          /\ proc'.otherwise = "failed" /\ proc' \in Processes /\ proc'.by = proc.by
      BY <2>1, <2>3, GoesAt
    <3> QED
      BY <2>1, <3>1, TypedAfter DEF Routed, Setting
  <2> QED
    BY <1>9, <2>2, <2>3, KeepMoves
<1>10. CASE ProtectFails
  <2>1. Kept /\ Setting /\ disk' = disk
    BY <1>0, <1>10, ProtectMoves, CurrentTyped
  <2>2. /\ ~Writing' /\ proc'.todo = <<>> /\ Where' = "failed" /\ proc' \in Processes
        /\ proc'.by = proc.by
    BY <1>10, ProtectMoves, GoneAt, PlaceIs
  <2> QED
    BY <2>1, <2>2, TypedAfter DEF Routed, Setting
<1>11. CASE Cut
  <2>1. Kept
    BY <1>0, <1>11, CutMoves
  <2>2. proc' \in Processes /\ proc'.by = "nobody" /\ proc'.pc = "idle" /\ proc'.todo = <<>>
    BY <1>11, CutMoves
  <2>3. Routed'
    BY <2>2 DEF Routed, Where, Writing, Setting
  <2> QED
    BY <2>1, <2>2, <2>3, TypedAfter DEF Writing
<1>12. CASE Write
  <2>1. Kept
    BY <1>0, <1>12, WriteMoves
  <2>2. /\ proc' \in Processes /\ proc'.by = proc.by /\ proc'.forgot = proc.forgot
        /\ Where' = Where /\ Writing
        /\ \/ ~Writing' /\ proc'.todo = <<>>
           \/ /\ Writing' /\ proc'.otherwise = proc.otherwise
    BY <1>12, WriteMoves DEF Moved
  <2>3. Writing' => Len(proc'.todo) \in 1..3
    BY <1>12, WriteMoves
  <2>4. Routed'
    BY <2>2 DEF Routed, Setting
  <2> QED
    BY <2>1, <2>2, <2>3, <2>4, TypedAfter
<1>13. CASE WriteFails
  <2>1. Kept /\ Gone(proc, proc.otherwise) /\ Writing
    BY <1>0, <1>13, WriteFailsMoves
  <2>2. proc.otherwise \in {"fatal", "register", "restore", "failed"}
    BY <2>1 DEF Routed
  <2>3. /\ ~Writing' /\ proc'.todo = <<>> /\ Where' = proc.otherwise /\ proc' \in Processes
        /\ proc'.by = proc.by
    BY <2>1, <2>2, GoneAt, PlaceIs
  <2>4. Routed'
    BY <2>1, <2>2, <2>3 DEF Routed, Setting
  <2> QED
    BY <2>1, <2>3, <2>4, TypedAfter
<1>14. CASE Leaves
  <2>1. Kept
    BY <1>0, <1>14, LeavesMoves DEF Recalled
  <2>2. /\ proc' \in Processes /\ proc'.by \in {"nobody", "service"}
        /\ proc'.pc \in {"idle", "start"} /\ proc'.todo = <<>>
    BY <1>14, LeavesMoves
  <2>3. Routed'
    BY <2>2 DEF Routed, Where, Writing, Setting
  <2> QED
    BY <2>1, <2>2, <2>3, TypedAfter DEF Writing
<1>15. CASE Beside
  <2>1. Kept
    BY <1>0, <1>15, BesideMoves DEF Recalled
  <2>2. /\ proc' \in Processes /\ proc'.by = proc.by /\ proc'.pc = proc.pc
        /\ proc'.todo = proc.todo /\ proc'.forgot = proc.forgot
        /\ proc'.onward = proc.onward /\ proc'.otherwise = proc.otherwise
    BY <1>15, BesideMoves DEF Moved
  <2>3. Routed'
    BY <2>2 DEF Routed, Where, Writing, Setting
  <2> QED
    BY <2>1, <2>2, <2>3, TypedAfter DEF Writing, Typed
<1>16. ASSUME NEW offered \in BOOLEAN, EnsureKey(offered)
       PROVE  Typed' /\ Routed'
  <2>1. Kept /\ disk' = disk
    BY <1>0, <1>16, KeyMoves
  <2>2. ASSUME NEW a \in {"enroll", "run"}, a = "run" => Serving, Gone(proc, a)
        PROVE  Typed' /\ Routed'
    <3>1. /\ ~Writing' /\ proc'.todo = <<>> /\ Where' = a /\ proc' \in Processes
          /\ proc'.by = proc.by
      BY <2>2, GoneAt, PlaceIs
    <3> QED
      BY <2>1, <2>2, <3>1, TypedAfter DEF Routed, Setting, Serving
  <2>3. ASSUME NEW todo, NEW h, NEW a \in {"enroll", "run"}, a = "run" => Serving,
               Goes(proc, todo, a, IF Setting THEN "failed" ELSE "fatal", h, disk.ca, disk.cert)
        PROVE  Typed' /\ Routed'
    <3>1. /\ Writing' /\ Len(proc'.todo) \in 1..3 /\ Where' = a
          /\ proc'.otherwise = IF Setting THEN "failed" ELSE "fatal"
          /\ proc' \in Processes /\ proc'.by = proc.by
      BY <2>1, <2>3, GoesAt
    <3> QED
      BY <2>1, <2>3, <3>1, TypedAfter DEF Routed, Setting, Serving
  <2> QED
    BY <1>16, <2>2, <2>3, KeyMoves
<1>17. CASE KeyFails
  <2>1. Kept /\ disk' = disk
    BY <1>0, <1>17, KeyFailsMoves DEF Recalled
  <2>2. ASSUME NEW a \in {"failed", "fatal"}, a = IF Setting THEN "failed" ELSE "fatal",
               Gone(proc, a)
        PROVE  Typed' /\ Routed'
    <3>1. /\ ~Writing' /\ proc'.todo = <<>> /\ Where' = a /\ proc' \in Processes
          /\ proc'.by = proc.by
      BY <2>2, GoneAt, PlaceIs
    <3> QED
      BY <2>1, <2>2, <3>1, TypedAfter DEF Routed, Setting
  <2> QED
    BY <1>17, <2>2, KeyFailsMoves
<1> QED
  BY <1>1, <1>2, <1>3, <1>4, <1>5, <1>6, <1>7, <1>8, <1>9, <1>10, <1>11, <1>12, <1>13, <1>14,
     <1>15, <1>16, <1>17, NextCases

-----------------------------------------------------------------------------
(* The trust.                                                              *)

Sane(d) == d.conf.server # None => HasTrust(d)
Fits(d) == d.cert \in {None, TrustOf(d)}
Single(d) == d.conf.system => d.ca = None
Same(d, e) == TrustOf(d) = TrustOf(e) /\ d.conf.server = e.conf.server

\* A disk setup may leave: what was settled, or the same without the store, with
\* a certificate that goes with it.
HeldBy(d, now, l) ==
    d.conf.server = now.server /\ (TrustOf(d) = now.trust \/ (l /\ TrustOf(d) = None))
GoodBy(d, now, t, k, l) ==
    t \/ (HeldBy(d, now, l) /\ Single(d) /\ (k \/ d.cert \in {None, now.trust}))
Good(d) == GoodBy(d, settled, torn, kept, lost)

\* A trust was settled with each server, and only the store gets lost.
Anchored ==
    torn \/ (/\ settled.server # None => settled.trust # None
             /\ lost => settled.trust = "system")

\* Setup is at work on the trust, and has not settled it yet.
Settling ==
    /\ Setting
    /\ \/ Where \in {"check", "open", "restore", "reopen", "drop", "token"}
       \/ Writing /\ Where = "failed"

\* Writes that leave what was settled and a certificate that goes with it.
Allowed(b, now, l) == IF b THEN now.trust = "system" ELSE now.trust # "system" \/ l
HarmlessBy(w, now, l) ==
    \/ /\ w.file = "conf" /\ w.value.server = now.server
       /\ Allowed(w.value.system, now, l)
    \/ w.file = "ca" /\ w.value = None /\ now.trust = "system"
    \/ w.file = "cert" /\ w.value = now.trust
Harmless(todo) == \A i \in 1..Len(todo) : HarmlessBy(todo[i], settled, lost)

Settled == ~Settling => Good(disk) /\ (torn \/ Harmless(proc.todo))

\* The client verifies with what was settled, whatever is left of it on disk.
Aboard == Where \in {"key", "enroll", "run"} => torn \/ proc.trust = settled.trust

\* What setup has in mind at each step.
Planned ==
    /\ Where # "token" => disk.cert = proc.before.cert /\ NoCert(proc.todo)
    /\ Where = "check" => disk = proc.before /\ ~proc.forgot
    /\ Where = "open" => proc.forgot \/ (~Writing /\ disk = proc.before)
    /\ Where = "restore" => proc.forgot
    /\ Where \in {"reopen", "failed"} => proc.forgot /\ Same(Target, proc.before)
    /\ Where = "reopen" => proc.flags.ca = None
    /\ Where = "drop" =>
          /\ HasTrust(Target)
          /\ proc.forgot \/ kept \/ torn \/ proc.before.cert \in {None, TrustOf(Target)}
    /\ Where = "token" => Sane(Target) /\ (torn \/ kept \/ Fits(Target))
    /\ Where \in {"open", "reopen", "failed", "drop", "token"} => torn \/ Single(Target)
    /\ \A i \in 1..Len(proc.todo) : proc.todo[i].file = "cert" => proc.todo[i].value = None
    /\ disk.cert \in {None, proc.before.cert}

Begun ==
    Settling => Good(proc.before) /\ (proc.forgot => HasTrust(proc.before)) /\ Planned

Trusting == Anchored /\ Settled /\ Aboard /\ Begun

\* None is no trust, and a CA is no store.
LEMMA TrustIs ==
    ASSUME NEW d \in Disk
    PROVE  /\ TrustOf(d) \in Trusts \cup {None}
           /\ HasTrust(d) <=> TrustOf(d) # None
           /\ d.conf.system \in BOOLEAN
           /\ d.conf.system => TrustOf(d) = "system"
           /\ ~d.conf.system => TrustOf(d) = d.ca
           /\ d.ca # "system" /\ None # "system"
  BY DiskFields, Constants DEF TrustOf, HasTrust, Trusts

\* What is trusted, in the terms of the specification.
LEMMA HeldIs ==
    ASSUME Typed
    PROVE  (Held <=> HeldBy(disk, settled, lost)) /\ (Both <=> ~Single(disk))
<1>1. PICK now \in [trust : Trusts \cup {None}, server : Servers \cup {None}] : now = settled
  BY TypedFields
<1>2. PICK t, s : t = TrustOf(disk) /\ s = disk.conf.server
  OBVIOUS
<1>3. Current = [trust |-> t, server |-> s]
  BY <1>2 DEF Current
<1>4. Current = now <=> (t = now.trust /\ s = now.server)
  BY <1>1, <1>3
<1>5. Current = [now EXCEPT !.trust = None] <=> (t = None /\ s = now.server)
  BY <1>1, <1>3
<1>6. Held <=> HeldBy(disk, settled, lost)
  BY <1>1, <1>2, <1>4, <1>5 DEF Held, HeldBy
<1>7. Both <=> ~Single(disk)
  BY DEF Both, Single
<1> QED
  BY <1>6, <1>7

\* The same trust, the same server and the certificate of before, or none, are as good.
LEMMA AsGood ==
    ASSUME NEW d \in Disk, NEW e \in Disk, Good(e), Same(d, e), torn \/ Single(d),
           d.cert \in {None, e.cert}
    PROVE  Good(d)
  BY DEF Good, GoodBy, HeldBy, Same

\* One trust settled, the other as good as it.
LEMMA SettledAgain ==
    ASSUME NEW d \in Disk, NEW e \in Disk, Good(e), HeldBy(d, settled, lost), Single(d),
           d.cert \in {None, e.cert}
    PROVE  Good(d)
  BY DEF Good, GoodBy

\* More exemptions do no harm.
LEMMA GoodStays ==
    ASSUME NEW d, Good(d), torn => torn', kept => kept', lost => lost', settled' = settled
    PROVE  GoodBy(d, settled', torn', kept', lost')
  BY DEF Good, GoodBy, HeldBy

\* A config.json that says of the store what the one on disk says.
LEMMA SameConf ==
    ASSUME NEW d \in Disk, Good(d), ~torn, Anchored, NEW f, f.server = d.conf.server,
           f.system = d.conf.system
    PROVE  f.server = settled.server /\ Allowed(f.system, settled, lost)
  BY TrustIs DEF Good, GoodBy, HeldBy, Allowed, Anchored

\* What a harmless write leaves.
LEMMA HarmlessWrite ==
    ASSUME NEW d \in Disk, NEW w \in Writes, Good(d), ~torn, Anchored,
           HarmlessBy(w, settled, lost)
    PROVE  Good(Apply(d, w))
<1>1. PICK e : e = Apply(d, w)
  OBVIOUS
<1>2. e \in Disk
  BY <1>1, ApplyIs
<1>3. /\ d.conf.server = settled.server /\ Single(d)
      /\ TrustOf(d) = settled.trust \/ (lost /\ TrustOf(d) = None)
      /\ kept \/ d.cert \in {None, settled.trust}
      /\ lost => settled.trust = "system"
  BY DEF Good, GoodBy, HeldBy, Anchored
<1>4. settled.trust = "system" => d.ca = None
  BY <1>3, TrustIs DEF Single
<1>5. CASE /\ w.file = "conf" /\ w.value.server = settled.server
           /\ Allowed(w.value.system, settled, lost)
  <2>1. Is(e, w.value, d.ca, d.cert)
    BY <1>1, <1>5, ApplyIs
  <2>2. e.conf.server = settled.server /\ e.ca = d.ca /\ e.cert = d.cert
    BY <1>5, <2>1 DEF Is
  <2>3. CASE e.conf.system
    <3>1. settled.trust = "system"
      BY <1>5, <2>1, <2>3 DEF Is, Allowed
    <3>2. TrustOf(e) = "system" /\ Single(e)
      BY <1>4, <2>2, <2>3, <3>1 DEF TrustOf, Single
    <3> QED
      BY <1>1, <1>3, <2>2, <3>1, <3>2 DEF Good, GoodBy, HeldBy
  <2>4. CASE ~e.conf.system
    <3>1. TrustOf(e) = d.ca /\ Single(e)
      BY <2>2, <2>4 DEF TrustOf, Single
    <3>2. settled.trust # "system" \/ lost
      BY <1>5, <2>1, <2>4 DEF Is, Allowed
    <3>3. d.ca = settled.trust \/ (lost /\ d.ca = None)
      BY <1>3, <1>4, <3>2, TrustIs
    <3> QED
      BY <1>1, <1>3, <2>2, <3>1, <3>3 DEF Good, GoodBy, HeldBy
  <2> QED
    BY <2>3, <2>4
<1>6. CASE w.file = "ca" /\ w.value = None /\ settled.trust = "system"
  <2>1. Is(e, d.conf, None, d.cert)
    BY <1>1, <1>6, ApplyIs
  <2>2. /\ e.conf.server = settled.server /\ e.cert = d.cert /\ Single(e)
        /\ TrustOf(e) = TrustOf(d)
    BY <1>3, <1>4, <1>6, <2>1 DEF Is, Single, TrustOf
  <2> QED
    BY <1>1, <1>3, <2>2 DEF Good, GoodBy, HeldBy
<1>7. CASE w.file = "cert" /\ w.value = settled.trust
  <2>1. Is(e, d.conf, d.ca, settled.trust)
    BY <1>1, <1>7, ApplyIs
  <2>2. /\ e.conf.server = settled.server /\ e.cert = settled.trust /\ Single(e)
        /\ TrustOf(e) = TrustOf(d)
    BY <1>3, <2>1 DEF Is, Single, TrustOf
  <2> QED
    BY <1>1, <1>3, <2>2 DEF Good, GoodBy, HeldBy
<1> QED
  BY <1>5, <1>6, <1>7 DEF HarmlessBy

\* Nothing to write does no harm.
LEMMA NothingIs ==
    ASSUME NEW todo, Len(todo) = 0
    PROVE  /\ NoCert(todo) /\ (\A b : TokensAre(todo, b)) /\ Harmless(todo)
           /\ \A i \in 1..Len(todo) : \A now, l : HarmlessBy(todo[i], now, l)
           /\ \A i \in 1..Len(todo) : todo[i].file = "cert" => todo[i].value = None
  BY DEF NoCert, TokensAre, Harmless

\* Setup goes on with the trust unsettled.
LEMMA AtWork ==
    ASSUME Trusting, UNCHANGED <<settled, lost>>, torn => torn', Settling',
           GoodBy(proc'.before, settled', torn', kept', lost'),
           proc'.forgot => HasTrust(proc'.before), Planned'
    PROVE  Trusting'
<1>1. Where' \notin {"key", "enroll", "run"}
  BY DEF Settling
<1>2. Anchored'
  BY DEF Trusting, Anchored
<1>3. Aboard' /\ Settled' /\ Begun'
  BY <1>1 DEF Aboard, Settled, Begun, Good
<1> QED
  BY <1>2, <1>3 DEF Trusting

\* A process whose trust is settled, or that leaves things as they were.
LEMMA AtPeace ==
    ASSUME Anchored', ~Settling', Good(disk)', torn' \/ Harmless(proc.todo)', Aboard'
    PROVE  Trusting'
  BY DEF Trusting, Settled, Begun

\* Setup begins on a good disk.
LEMMA TrustSetup ==
    ASSUME Typed, Routed, Trusting, NEW by \in {"setup", "install"}, Setup(by)
    PROVE  Trusting'
<1>1. /\ ~Setting /\ UNCHANGED <<disk, settled, torn, kept, lost>>
      /\ proc'.by = by /\ proc'.pc = "check" /\ proc'.todo = <<>>
      /\ proc'.forgot = FALSE /\ proc'.before = disk
  BY SetupMoves
<1>2. Good(disk)
  BY <1>1 DEF Trusting, Settled, Settling
<1>3. Where' = "check" /\ ~Writing' /\ Setting' /\ Len(proc'.todo) = 0
  BY <1>1 DEF Where, Writing, Setting
<1>4. Settling'
  BY <1>3 DEF Settling
<1>5. GoodBy(proc'.before, settled', torn', kept', lost')
  BY <1>1, <1>2, GoodStays
<1>6. Planned'
  BY <1>1, <1>3, NothingIs DEF Planned
<1> QED
  BY <1>1, <1>4, <1>5, <1>6, AtWork

\* The check, at the beginning of setup.
LEMMA TrustCheck ==
    ASSUME Typed, Routed, Trusting, NEW answers \in BOOLEAN, Check(answers)
    PROVE  Trusting'
<1>1. /\ Setting /\ proc.pc = "check" /\ UNCHANGED <<disk, settled, torn, kept, lost>>
      /\ proc'.by = proc.by /\ proc'.before = proc.before
  BY CheckMoves
<1>2. Where = "check" /\ Settling
  BY <1>1 DEF Where, Writing, Settling
<1>3. /\ Good(proc.before) /\ disk = proc.before /\ ~proc.forgot
  BY <1>2 DEF Trusting, Begun, Planned
<1>4. GoodBy(proc'.before, settled', torn', kept', lost')
  BY <1>1, <1>3, GoodStays
<1>5. CASE Gone(proc, "open")
  <2>1. /\ ~Writing' /\ Len(proc'.todo) = 0 /\ Where' = "open" /\ proc'.forgot = proc.forgot
        /\ Target' = disk
    BY <1>1, <1>5, GoneAt, PlaceIs
  <2>2. Settling'
    BY <1>1, <2>1 DEF Settling, Setting
  <2>3. torn \/ Single(disk)
    BY <1>3 DEF Good, GoodBy
  <2>4. Planned'
    BY <1>1, <1>3, <2>1, <2>3, NothingIs DEF Planned
  <2> QED
    BY <1>1, <1>3, <1>4, <2>1, <2>2, <2>4, AtWork
<1>6. ASSUME HasTrust(disk), proc'.forgot, NEW todo, NEW f, NEW ca, ~f.system,
             Onto(todo, "open", "failed", f, ca, disk.cert), NoCert(todo)
      PROVE  Trusting'
  <2>1. Writing' /\ proc'.todo = todo /\ Where' = "open" /\ Is(Target', f, ca, disk.cert)
    BY <1>1, <1>6, OntoAt
  <2>2. Settling'
    BY <1>1, <2>1 DEF Settling, Setting
  <2>3. Single(Target')
    BY <1>6, <2>1 DEF Single, Is
  <2>4. Planned'
    BY <1>1, <1>3, <1>6, <2>1, <2>3 DEF Planned, NoCert
  <2> QED
    BY <1>1, <1>3, <1>4, <1>6, <2>2, <2>4, AtWork
<1> QED
  BY <1>5, <1>6, CheckMoves

\* A process that is not writing has nothing to write.
LEMMA AtRest ==
    ASSUME Typed, ~Writing
    PROVE  proc.todo = <<>> /\ Len(proc.todo) = 0 /\ Target = disk /\ Where = proc.pc
<1>1. proc.todo = <<>>
  BY DEF Typed
<1>2. Len(proc.todo) = 0
  BY <1>1
<1> QED
  BY <1>1, <1>2 DEF Target, After, Where

\* What is opened on a directory that has either the store or a CA has either.
LEMMA OpensSingle ==
    ASSUME NEW d, Single(d), NEW todo, NEW f, NEW ca, NEW flags, Opens(todo, d, f, ca, flags),
           NEW e, Is(e, f, ca, d.cert)
    PROVE  Single(e)
  BY DEF Opens, Single, Is, HasTrust

\* The trust, opened by setup.
LEMMA TrustOpen ==
    ASSUME Typed, Routed, Trusting, NEW answers \in BOOLEAN, Open(answers)
    PROVE  Trusting'
<1>0. disk \in Disk /\ proc.before \in Disk /\ kept \in BOOLEAN
  BY TypedFields, ProcessFields
<1>1. /\ Setting /\ proc.pc = "open" /\ UNCHANGED <<disk, settled, torn, lost>>
      /\ kept => kept'
  BY OpenMoves
<1>2. Where = "open" /\ Settling /\ ~Writing /\ Target = disk
  BY <1>1, AtRest DEF Where, Writing, Settling
<1>3. /\ Good(proc.before) /\ disk.cert = proc.before.cert
      /\ proc.forgot => HasTrust(proc.before)
      /\ proc.forgot \/ disk = proc.before
      /\ torn \/ Single(disk)
  BY <1>2 DEF Trusting, Begun, Planned
<1>4. GoodBy(proc.before, settled', torn', kept', lost')
  BY <1>1, <1>3, GoodStays
<1>5. ASSUME proc.forgot, Gone(proc, "restore")
      PROVE  Trusting'
  <2>1. /\ ~Writing' /\ Len(proc'.todo) = 0 /\ Where' = "restore" /\ proc'.by = proc.by
        /\ proc'.forgot = proc.forgot /\ proc'.before = proc.before
    BY <1>5, GoneAt, PlaceIs
  <2>2. Settling'
    BY <1>1, <2>1 DEF Settling, Setting
  <2>3. Planned'
    BY <1>1, <1>3, <1>5, <2>1, NothingIs DEF Planned
  <2> QED
    BY <1>1, <1>3, <1>4, <2>1, <2>2, <2>3, AtWork
<1>6. ASSUME ~proc.forgot, Gone(proc, "failed")
      PROVE  Trusting'
  <2>1. /\ ~Writing' /\ Len(proc'.todo) = 0 /\ Where' = "failed" /\ proc'.by = proc.by
    BY <1>6, GoneAt, PlaceIs
  <2>2. ~Settling' /\ Aboard'
    BY <2>1 DEF Settling, Aboard
  <2>3. Good(disk)'
    BY <1>1, <1>3, <1>4, <1>6 DEF Good
  <2>4. Harmless(proc.todo)'
    BY <2>1, NothingIs DEF Harmless
  <2>5. Anchored'
    BY <1>1 DEF Trusting, Anchored
  <2> QED
    BY <2>2, <2>3, <2>4, <2>5, AtPeace
<1>7. ASSUME NEW todo, NEW f, NEW ca, Opens(todo, disk, f, ca, proc.flags),
             Goes(proc, todo, "drop", IF proc.forgot THEN "restore" ELSE "failed",
                  f, ca, disk.cert),
             proc.forgot \/ kept' \/ disk.cert \in {None, IF f.system THEN "system" ELSE ca}
      PROVE  Trusting'
  <2>1. /\ Writing' /\ proc'.todo = todo /\ Where' = "drop" /\ proc'.by = proc.by
        /\ proc'.forgot = proc.forgot /\ proc'.before = proc.before
        /\ Is(Target', f, ca, disk.cert)
    BY <1>1, <1>7, GoesAt
  <2>2. Settling'
    BY <1>1, <2>1 DEF Settling, Setting
  <2>3. NoCert(todo) /\ (f.system \/ ca # None)
    BY <1>7 DEF Opens
  <2>4. HasTrust(Target') /\ TrustOf(Target') = IF f.system THEN "system" ELSE ca
    BY <2>1, <2>3 DEF HasTrust, TrustOf, Is
  <2>5. proc.forgot \/ kept' \/ proc.before.cert \in {None, TrustOf(Target')}
    BY <1>3, <1>7, <2>4
  <2>6. torn \/ Single(Target')
    BY <1>3, <1>7, <2>1, OpensSingle
  <2>7. Planned'
    BY <1>1, <1>3, <2>1, <2>3, <2>4, <2>5, <2>6 DEF Planned, NoCert
  <2> QED
    BY <1>1, <1>3, <1>4, <2>1, <2>2, <2>7, AtWork
<1> QED
  BY <1>5, <1>6, <1>7, OpenMoves

\* One thing to write to config.json.
LEMMA OneHarmless ==
    ASSUME NEW todo, NEW f, NEW now, NEW l, Len(todo) = 1, todo[1].file = "conf",
           todo[1].value = f, f.server = now.server, Allowed(f.system, now, l)
    PROVE  \A i \in 1..Len(todo) : HarmlessBy(todo[i], now, l)
<1>1. \A i \in 1..Len(todo) : i = 1
  OBVIOUS
<1> QED
  BY <1>1 DEF HarmlessBy

\* A certificate issued under the trust that was settled, and config.json.
LEMMA CertHarmless ==
    ASSUME NEW todo, NEW f, CertThenConf(todo, settled.trust, f),
           f.server = settled.server, Allowed(f.system, settled, lost)
    PROVE  Harmless(todo)
<1>1. \A i \in 1..Len(todo) : i = 1 \/ i = 2
  BY DEF CertThenConf
<1> QED
  BY <1>1 DEF Harmless, HarmlessBy, CertThenConf

\* The service opens what setup left, or settles the store a new key erased.
LEMMA TrustOpenAlone ==
    ASSUME Typed, Routed, Trusting, NEW answers \in BOOLEAN, OpenAlone(answers)
    PROVE  Trusting'
<1>0. disk \in Disk
  BY TypedFields
<1>1. ~Setting /\ UNCHANGED <<disk, settled, torn, kept, lost>>
  BY OpenAloneMoves DEF Serving, Setting, Recalled
<1>2. Good(disk)
  BY <1>1 DEF Trusting, Settled, Settling
<1>3. Good(disk)' /\ Anchored'
  BY <1>1, <1>2 DEF Good, Anchored, Trusting
<1>4. CASE Gone(proc, "fatal")
  <2>1. Len(proc'.todo) = 0 /\ proc'.by = proc.by /\ Where' = "fatal"
    BY <1>4, GoneAt, PlaceIs
  <2>2. ~Settling' /\ Harmless(proc.todo)' /\ Aboard'
    BY <1>1, <2>1, NothingIs DEF Settling, Setting, Aboard, Harmless
  <2> QED
    BY <1>3, <2>2, AtPeace
<1>5. ASSUME NEW todo, NEW f, NEW ca, NEW p, Opens(todo, disk, f, ca, NoFlags),
             p.by = proc.by, p.trust = (IF f.system THEN "system" ELSE ca),
             Goes(p, todo, "key", "fatal", f, ca, disk.cert)
      PROVE  Trusting'
  <2>1. proc'.todo = todo /\ proc'.by = proc.by /\ proc'.trust = p.trust
    BY <1>1, <1>5, GoesAt
  <2>2. ~Settling'
    BY <1>1, <2>1 DEF Settling, Setting
  <2>3. ASSUME ~torn PROVE Harmless(todo) /\ p.trust = settled.trust
    <3>1. /\ f.server = disk.conf.server /\ f.server # None /\ f \in Config
          /\ HasTrust(disk) =>
                ca = disk.ca /\ f.system = disk.conf.system /\ todo = <<SetConf(f)>>
          /\ ~HasTrust(disk) => f.system /\ todo = <<SetCa(None), SetConf(f)>>
      BY <1>5 DEF Opens, NoFlags
    <3>2. /\ disk.conf.server = settled.server
          /\ TrustOf(disk) = settled.trust \/ (lost /\ TrustOf(disk) = None)
      BY <1>2, <2>3 DEF Good, GoodBy, HeldBy
    <3>3. /\ settled.server # None => settled.trust # None
          /\ lost => settled.trust = "system"
      BY <2>3 DEF Trusting, Anchored
    <3>4. CASE HasTrust(disk)
      <4>1. p.trust = TrustOf(disk)
        BY <1>5, <3>1, <3>4 DEF TrustOf
      <4>2. p.trust = settled.trust
        BY <1>0, <3>2, <3>4, <4>1, TrustIs
      <4>3. f.server = settled.server /\ Allowed(f.system, settled, lost)
        BY <1>0, <1>2, <2>3, <3>1, <3>4, SameConf DEF Trusting
      <4>4. Len(todo) = 1 /\ todo[1].file = "conf" /\ todo[1].value = f
        BY <3>1, <3>4, WriteIs
      <4> QED
        BY <4>2, <4>3, <4>4, OneHarmless DEF Harmless
    <3>5. CASE ~HasTrust(disk)
      <4>1. settled.trust = "system"
        BY <1>0, <3>1, <3>2, <3>3, <3>5, TrustIs
      <4>2. p.trust = "system"
        BY <1>5, <3>1, <3>5
      <4>3. /\ Len(todo) = 2 /\ todo[1].file = "ca" /\ todo[1].value = None
            /\ todo[2].file = "conf" /\ todo[2].value = f
        BY <3>1, <3>5 DEF SetCa, SetConf
      <4>4. HarmlessBy(todo[1], settled, lost) /\ HarmlessBy(todo[2], settled, lost)
        BY <3>1, <3>2, <3>5, <4>1, <4>3 DEF HarmlessBy, Allowed
      <4>5. \A i \in 1..Len(todo) : i = 1 \/ i = 2
        BY <4>3
      <4> QED
        BY <4>1, <4>2, <4>4, <4>5 DEF Harmless
    <3> QED
      BY <3>4, <3>5
  <2>4. torn' \/ Harmless(proc.todo)'
    BY <1>1, <2>1, <2>3 DEF Harmless
  <2>5. Aboard'
    BY <1>1, <2>1, <2>3 DEF Aboard
  <2> QED
    BY <1>3, <2>2, <2>4, <2>5, AtPeace
<1> QED
  BY <1>4, <1>5, OpenAloneMoves

\* What a reset writes, one write at a time.
LEMMA ResetsAre ==
    ASSUME NEW todo, NEW f, NEW g, Resets(todo, f, g)
    PROVE  \A i \in 1..Len(todo) : todo[i].file = "conf" /\ todo[i].value \in {f, g}
<1>1. CASE Len(todo) = 1 /\ todo[1].file = "conf" /\ todo[1].value = f
  <2>1. \A i \in 1..Len(todo) : i = 1
    BY <1>1
  <2> QED
    BY <1>1, <2>1
<1>2. CASE /\ Len(todo) = 2 /\ todo[1].file = "conf" /\ todo[1].value = f
           /\ todo[2].file = "conf" /\ todo[2].value = g
  <2>1. \A i \in 1..Len(todo) : i = 1 \/ i = 2
    BY <1>2
  <2> QED
    BY <1>2, <2>1
<1> QED
  BY <1>1, <1>2 DEF Resets

\* The key, made anew or found: what it erases is the store.
LEMMA TrustKey ==
    ASSUME Typed, Routed, Trusting, NEW offered \in BOOLEAN, EnsureKey(offered)
    PROVE  Trusting'
<1>0. disk \in Disk /\ lost \in BOOLEAN
  BY TypedFields
<1>1. /\ proc.pc = "key" /\ UNCHANGED <<disk, settled, torn, kept>>
      /\ lost' = (lost \/ (~key /\ disk.conf.system))
  BY KeyMoves
<1>2. Where = "key" /\ ~Settling
  BY <1>1 DEF Where, Writing, Settling
<1>3. Good(disk) /\ Anchored /\ (torn \/ proc.trust = settled.trust)
  BY <1>2 DEF Trusting, Settled, Aboard
<1>4. Good(disk)'
  BY <1>1, <1>3, GoodStays DEF Good
<1>5. ~torn /\ disk.conf.system => settled.trust = "system"
  BY <1>0, <1>3, TrustIs DEF Good, GoodBy, HeldBy
<1>6. Anchored'
  BY <1>1, <1>3, <1>5 DEF Anchored
<1>7. ASSUME NEW a \in {"enroll", "run"}, Gone(proc, a)
      PROVE  Trusting'
  <2>1. Len(proc'.todo) = 0 /\ Where' = a /\ proc'.trust = proc.trust
    BY <1>7, GoneAt, PlaceIs
  <2>2. ~Settling' /\ Harmless(proc.todo)'
    BY <2>1, NothingIs DEF Settling, Harmless
  <2>3. Aboard'
    BY <1>1, <1>3, <2>1 DEF Aboard
  <2> QED
    BY <1>4, <1>6, <2>2, <2>3, AtPeace
<1>8. ASSUME NEW todo, NEW f, NEW h, NEW a \in {"enroll", "run"}, NEW b, ~key,
             f.server = disk.conf.server, f.system = FALSE,
             Resets(todo, f, disk.conf), Goes(proc, todo, a, b, h, disk.ca, disk.cert)
      PROVE  Trusting'
  <2>1. proc'.todo = todo /\ Where' = a /\ proc'.trust = proc.trust
    BY <1>1, <1>8, GoesAt
  <2>2. ~Settling'
    BY <2>1 DEF Settling
  <2>3. Aboard'
    BY <1>1, <1>3, <2>1 DEF Aboard
  <2>4. ASSUME ~torn PROVE Harmless(proc.todo)'
    <3>1. disk.conf.server = settled.server /\ Allowed(disk.conf.system, settled, lost)
      BY <1>0, <1>3, <2>4, SameConf
    <3>2. Allowed(f.system, settled, lost') /\ Allowed(disk.conf.system, settled, lost')
      BY <1>0, <1>1, <1>8, <3>1, TrustIs DEF Allowed
    <3>3. \A i \in 1..Len(todo) :
             todo[i].file = "conf" /\ todo[i].value \in {f, disk.conf}
      BY <1>8, ResetsAre
    <3> QED
      BY <1>1, <1>8, <2>1, <3>1, <3>2, <3>3 DEF Harmless, HarmlessBy
  <2> QED
    BY <1>1, <1>4, <1>6, <2>2, <2>3, <2>4, AtPeace
<1> QED
  BY <1>7, <1>8, KeyMoves

\* A certificate is issued to the client, under the trust it has.
LEMMA TrustEnroll ==
    ASSUME Typed, Routed, Trusting, NEW issued \in BOOLEAN, Enroll(issued)
    PROVE  Trusting'
<1>0. disk \in Disk
  BY TypedFields
<1>1. proc.pc = "enroll" /\ UNCHANGED <<disk, settled, torn, kept, lost>>
  BY EnrollMoves
<1>2. Where = "enroll" /\ ~Settling
  BY <1>1 DEF Settling, Where, Writing
<1>3. Good(disk) /\ Anchored /\ (torn \/ proc.trust = settled.trust)
  BY <1>2 DEF Trusting, Settled, Aboard
<1>4. Good(disk)' /\ Anchored'
  BY <1>1, <1>3 DEF Good, Anchored
<1>5. CASE Gone(proc, "register")
  <2>1. Len(proc'.todo) = 0 /\ Where' = "register" /\ ~Writing'
    BY <1>5, GoneAt, PlaceIs
  <2>2. ~Settling' /\ Harmless(proc.todo)' /\ Aboard'
    BY <2>1, NothingIs DEF Settling, Harmless, Aboard
  <2> QED
    BY <1>4, <2>2, AtPeace
<1>6. ASSUME NEW todo, NEW f, f.server = disk.conf.server, f.system = disk.conf.system,
             Goes(proc, todo, IF Setting THEN "register" ELSE "run",
                  IF Setting THEN "register" ELSE "fatal", f, disk.ca, proc.trust),
             CertThenConf(todo, proc.trust, f)
      PROVE  Trusting'
  <2>1. proc'.todo = todo /\ Where' \in {"register", "run"} /\ proc'.trust = proc.trust
    BY <1>1, <1>6, GoesAt
  <2>2. ~Settling' /\ Aboard'
    BY <1>1, <1>3, <2>1 DEF Settling, Aboard
  <2>3. torn \/ Harmless(todo)
    BY <1>0, <1>3, <1>6, SameConf, CertHarmless
  <2>4. torn' \/ Harmless(proc.todo)'
    BY <1>1, <2>1, <2>3 DEF Harmless
  <2> QED
    BY <1>4, <2>2, <2>4, AtPeace
<1> QED
  BY <1>5, <1>6, EnrollMoves

\* What setup found goes back, before anything else is settled.
LEMMA TrustRestore ==
    ASSUME Typed, Routed, Trusting, Restore
    PROVE  Trusting'
<1>0. proc.before \in Disk
  BY TypedFields, ProcessFields
<1>1. Setting /\ proc.pc = "restore" /\ UNCHANGED <<disk, settled, torn, kept, lost>>
  BY RestoreMoves DEF Recalled
<1>2. Where = "restore" /\ Settling
  BY <1>1 DEF Where, Writing, Settling
<1>3. /\ Good(proc.before) /\ proc.forgot /\ HasTrust(proc.before)
      /\ disk.cert = proc.before.cert
  BY <1>2 DEF Trusting, Begun, Planned
<1>4. PICK todo, f, ca, onward :
         /\ onward \in {"failed", "reopen"}
         /\ onward = "reopen" => proc.flags.ca = None
         /\ Goes(proc, todo, onward, "failed", f, ca, disk.cert)
         /\ NoCert(todo)
         /\ f.server = proc.before.conf.server
         /\ f.system = proc.before.conf.system
         /\ IF f.system THEN ca = None ELSE ca = proc.before.ca
  BY RestoreMoves
<1>5. /\ Writing' /\ proc'.todo = todo /\ Where' = onward /\ proc'.by = proc.by
      /\ proc'.flags = proc.flags /\ proc'.forgot = proc.forgot
      /\ proc'.before = proc.before /\ Is(Target', f, ca, disk.cert)
  BY <1>1, <1>4, GoesAt
<1>6. Settling'
  BY <1>1, <1>4, <1>5 DEF Settling, Setting
<1>7. Same(Target', proc.before) /\ Single(Target')
  BY <1>4, <1>5 DEF Same, Single, TrustOf, Is
<1>8. Planned'
  BY <1>1, <1>3, <1>4, <1>5, <1>7 DEF Planned, NoCert
<1>9. GoodBy(proc'.before, settled', torn', kept', lost')
  BY <1>1, <1>3, <1>5, GoodStays
<1> QED
  BY <1>1, <1>3, <1>5, <1>6, <1>8, <1>9, AtWork

\* The trust put back is opened, for the server asked for.
LEMMA TrustReopen ==
    ASSUME Typed, Routed, Trusting, Reopen
    PROVE  Trusting'
<1>0. disk \in Disk /\ proc.before \in Disk
  BY TypedFields, ProcessFields
<1>1. Setting /\ proc.pc = "reopen" /\ UNCHANGED <<disk, settled, torn, kept, lost>>
  BY ReopenMoves DEF Recalled
<1>2. Where = "reopen" /\ Settling /\ Target = disk
  BY <1>1, AtRest DEF Writing, Settling
<1>3. /\ Good(proc.before) /\ proc.forgot /\ HasTrust(proc.before)
      /\ disk.cert = proc.before.cert /\ Same(disk, proc.before) /\ (torn \/ Single(disk))
      /\ proc.flags.ca = None
  BY <1>2 DEF Trusting, Begun, Planned
<1>4. HasTrust(disk) /\ (torn \/ kept \/ Fits(disk))
  BY <1>0, <1>3, TrustIs DEF Good, GoodBy, HeldBy, Same, Fits
<1>5. GoodBy(proc.before, settled', torn', kept', lost')
  BY <1>1, <1>3, GoodStays
<1>6. CASE Gone(proc, "token")
  <2>1. /\ ~Writing' /\ Len(proc'.todo) = 0 /\ Where' = "token" /\ proc'.by = proc.by
        /\ proc'.forgot = proc.forgot /\ proc'.before = proc.before /\ Target' = disk
    BY <1>1, <1>6, GoneAt, PlaceIs
  <2>2. Settling'
    BY <1>1, <2>1 DEF Settling, Setting
  <2>3. Planned'
    BY <1>1, <1>3, <1>4, <2>1, NothingIs DEF Planned, Sane
  <2> QED
    BY <1>1, <1>3, <1>5, <2>1, <2>2, <2>3, AtWork
<1>7. ASSUME NEW todo, NEW f, NEW ca, Opens(todo, disk, f, ca, proc.flags),
             Goes(proc, todo, "token", "failed", f, ca, disk.cert)
      PROVE  Trusting'
  <2>1. /\ Writing' /\ proc'.todo = todo /\ Where' = "token" /\ proc'.by = proc.by
        /\ proc'.forgot = proc.forgot /\ proc'.before = proc.before
        /\ Is(Target', f, ca, disk.cert)
    BY <1>1, <1>7, GoesAt
  <2>2. Settling'
    BY <1>1, <2>1 DEF Settling, Setting
  <2>3. NoCert(todo) /\ ca = disk.ca /\ f.system = disk.conf.system
    BY <1>3, <1>4, <1>7 DEF Opens
  <2>4. /\ HasTrust(Target') /\ TrustOf(Target') = TrustOf(disk) /\ Target'.cert = disk.cert
        /\ Single(disk) => Single(Target')
    BY <1>4, <2>1, <2>3 DEF HasTrust, TrustOf, Is, Single
  <2>5. Planned'
    BY <1>1, <1>3, <1>4, <2>1, <2>3, <2>4 DEF Planned, NoCert, Sane, Fits
  <2> QED
    BY <1>1, <1>3, <1>5, <2>1, <2>2, <2>5, AtWork
<1> QED
  BY <1>6, <1>7, ReopenMoves

\* A certificate that does not go with the new trust is dropped with it.
LEMMA TrustDrop ==
    ASSUME Typed, Routed, Trusting, DropStale
    PROVE  Trusting'
<1>0. disk \in Disk /\ proc.before \in Disk
  BY TypedFields, ProcessFields
<1>1. Setting /\ proc.pc = "drop" /\ UNCHANGED <<disk, settled, torn, kept, lost>>
  BY DropMoves DEF Recalled
<1>2. Where = "drop" /\ Settling /\ Target = disk
  BY <1>1, AtRest DEF Writing, Settling
<1>3. /\ Good(proc.before) /\ (proc.forgot => HasTrust(proc.before))
      /\ disk.cert = proc.before.cert /\ HasTrust(disk) /\ (torn \/ Single(disk))
      /\ proc.forgot \/ kept \/ torn \/ proc.before.cert \in {None, TrustOf(disk)}
  BY <1>2 DEF Trusting, Begun, Planned
<1>4. GoodBy(proc.before, settled', torn', kept', lost')
  BY <1>1, <1>3, GoodStays
<1>5. CASE /\ ~proc.forgot \/ disk.cert = None \/ TrustOf(disk) = TrustOf(proc.before)
           /\ Gone(proc, "token")
  <2>1. /\ ~Writing' /\ Len(proc'.todo) = 0 /\ Where' = "token" /\ proc'.by = proc.by
        /\ proc'.forgot = proc.forgot /\ proc'.before = proc.before /\ Target' = disk
    BY <1>1, <1>5, GoneAt, PlaceIs
  <2>2. Settling'
    BY <1>1, <2>1 DEF Settling, Setting
  <2>3. torn \/ kept \/ Fits(disk)
    <3>1. CASE proc.forgot
      BY <1>0, <1>3, <1>5, <3>1, TrustIs DEF Good, GoodBy, HeldBy, Fits
    <3>2. CASE ~proc.forgot
      BY <1>3, <3>2 DEF Fits
    <3> QED
      BY <3>1, <3>2
  <2>4. Planned'
    BY <1>1, <1>3, <2>1, <2>3, NothingIs DEF Planned, Sane
  <2> QED
    BY <1>1, <1>3, <1>4, <2>1, <2>2, <2>4, AtWork
<1>6. ASSUME NEW todo, Goes(proc, todo, "token", "failed", disk.conf, disk.ca, None),
             CertThenConf(todo, None, disk.conf)
      PROVE  Trusting'
  <2>1. /\ Writing' /\ proc'.todo = todo /\ Where' = "token" /\ proc'.by = proc.by
        /\ proc'.forgot = proc.forgot /\ proc'.before = proc.before
        /\ Is(Target', disk.conf, disk.ca, None)
    BY <1>1, <1>6, GoesAt
  <2>2. Settling'
    BY <1>1, <2>1 DEF Settling, Setting
  <2>3. Sane(Target') /\ Fits(Target') /\ (torn \/ Single(Target'))
    BY <1>3, <2>1 DEF Sane, Fits, HasTrust, Is, Single
  <2>4. \A i \in 1..Len(todo) : todo[i].file = "cert" => todo[i].value = None
    <3>1. \A i \in 1..Len(todo) : i = 1 \/ i = 2
      BY <1>6 DEF CertThenConf
    <3> QED
      BY <1>6, <3>1 DEF CertThenConf
  <2>5. Planned'
    BY <1>1, <1>3, <2>1, <2>3, <2>4 DEF Planned
  <2> QED
    BY <1>1, <1>3, <1>4, <2>1, <2>2, <2>5, AtWork
<1> QED
  BY <1>5, <1>6, DropMoves

\* The trust is settled, whatever comes after it.
LEMMA TrustKeep ==
    ASSUME Typed, Routed, Trusting, KeepToken \/ ProtectFails
    PROVE  Trusting'
<1>0. disk \in Disk
  BY TypedFields
<1>1. /\ Setting /\ proc.pc = "token" /\ UNCHANGED <<disk, torn, kept>>
      /\ settled' = Current /\ lost' = FALSE
  BY KeepMoves, ProtectMoves
<1>2. Where = "token" /\ Settling /\ Target = disk
  BY <1>1, AtRest DEF Writing, Settling
<1>3. Sane(disk) /\ (torn \/ kept \/ Fits(disk)) /\ (torn \/ Single(disk))
  BY <1>2 DEF Trusting, Begun, Planned
<1>4. settled'.trust = TrustOf(disk) /\ settled'.server = disk.conf.server
  BY <1>1 DEF Current
<1>5. Good(disk)'
  BY <1>1, <1>3, <1>4 DEF Good, GoodBy, HeldBy, Fits
<1>6. Anchored'
  BY <1>0, <1>1, <1>3, <1>4, TrustIs DEF Anchored, Sane
<1>7. ASSUME NEW a \in {"register", "failed"}, Gone(proc, a)
      PROVE  Trusting'
  <2>1. ~Writing' /\ Len(proc'.todo) = 0 /\ Where' = a
    BY <1>7, GoneAt, PlaceIs
  <2>2. ~Settling' /\ Harmless(proc.todo)' /\ Aboard'
    BY <2>1, NothingIs DEF Settling, Harmless, Aboard
  <2> QED
    BY <1>5, <1>6, <2>2, AtPeace
<1>8. ASSUME NEW p, p.trust = TrustOf(disk), Gone(p, "key")
      PROVE  Trusting'
  <2>1. Len(proc'.todo) = 0 /\ Where' = "key" /\ proc'.trust = p.trust
    BY <1>8, GoneAt, PlaceIs
  <2>2. ~Settling' /\ Harmless(proc.todo)' /\ Aboard'
    BY <1>4, <1>8, <2>1, NothingIs DEF Settling, Harmless, Aboard
  <2> QED
    BY <1>5, <1>6, <2>2, AtPeace
<1>9. ASSUME NEW p, p.trust = TrustOf(disk), NEW todo, NEW f,
             f.server = disk.conf.server, f.system = disk.conf.system,
             Goes(p, todo, "key", "failed", f, disk.ca, disk.cert),
             Len(todo) = 1, todo[1].file = "conf", todo[1].value = f
      PROVE  Trusting'
  <2>1. proc'.todo = todo /\ Where' = "key" /\ proc'.trust = p.trust
    BY <1>1, <1>9, GoesAt
  <2>2. ~Settling' /\ Aboard'
    BY <1>4, <1>9, <2>1 DEF Settling, Aboard
  <2>3. Allowed(f.system, settled', lost')
    BY <1>0, <1>4, <1>9, TrustIs DEF Allowed
  <2>4. \A i \in 1..Len(todo) : HarmlessBy(todo[i], settled', lost')
    BY <1>4, <1>9, <2>3, OneHarmless
  <2>5. Harmless(proc.todo)'
    BY <2>1, <2>4 DEF Harmless
  <2> QED
    BY <1>5, <1>6, <2>2, <2>5, AtPeace
<1> QED
  BY <1>7, <1>8, <1>9, KeepMoves, ProtectMoves

\* The key cannot be written, and nothing else was.
LEMMA TrustKeyFails ==
    ASSUME Typed, Routed, Trusting, KeyFails
    PROVE  Trusting'
<1>1. proc.pc = "key" /\ UNCHANGED <<disk, settled, torn, kept, lost>>
  BY KeyFailsMoves DEF Recalled
<1>2. ~Settling
  BY <1>1 DEF Where, Writing, Settling
<1>3. Good(disk)' /\ Anchored'
  BY <1>1, <1>2 DEF Trusting, Settled, Good, Anchored
<1>4. Len(proc'.todo) = 0 /\ ~Writing' /\ Where' \in {"failed", "fatal"}
  BY KeyFailsMoves, GoneAt, PlaceIs
<1>5. ~Settling' /\ Harmless(proc.todo)' /\ Aboard'
  BY <1>4, NothingIs DEF Settling, Harmless, Aboard
<1> QED
  BY <1>3, <1>5, AtPeace

\* Setup is cut: what it was to settle is settled already, or the cut tore it.
LEMMA TrustCut ==
    ASSUME Typed, Routed, Trusting, Cut
    PROVE  Trusting'
<1>0. disk \in Disk /\ proc.before \in Disk
  BY TypedFields, ProcessFields
<1>1. /\ UNCHANGED <<disk, settled, kept, lost>> /\ torn' = (torn \/ ~Held \/ Both)
      /\ proc'.by = "nobody" /\ proc'.todo = <<>> /\ proc'.pc = "idle"
  BY CutMoves
<1>2. ~Settling' /\ Len(proc'.todo) = 0 /\ Where' = "idle"
  BY <1>1 DEF Settling, Setting, Where, Writing
<1>3. Good(disk)'
  <2>1. SUFFICES ASSUME ~torn, HeldBy(disk, settled, lost), Single(disk)
                 PROVE  Good(disk)
    BY <1>1, HeldIs DEF Good, GoodBy
  <2>2. CASE Settling
    BY <1>0, <2>1, <2>2, SettledAgain DEF Trusting, Begun, Planned
  <2>3. CASE ~Settling
    BY <2>3 DEF Trusting, Settled
  <2> QED
    BY <2>2, <2>3
<1>4. Harmless(proc.todo)' /\ Aboard'
  BY <1>2, NothingIs DEF Harmless, Aboard
<1>5. Anchored'
  BY <1>1 DEF Trusting, Anchored
<1> QED
  BY <1>2, <1>3, <1>4, <1>5, AtPeace

\* One file is written, towards what was planned or with no harm to what is settled.
LEMMA TrustWrite ==
    ASSUME Typed, Routed, Trusting, Write
    PROVE  Trusting'
<1>0. disk \in Disk /\ proc.before \in Disk /\ disk' \in Disk
  BY TypedFields, ProcessFields, WriteMoves
<1>1. /\ Writing /\ UNCHANGED <<settled, torn, kept, lost>>
      /\ Len(proc.todo) \in 1..3 /\ proc.todo[1] \in Writes
      /\ disk' = Apply(disk, proc.todo[1])
      /\ proc'.by = proc.by /\ proc'.flags = proc.flags /\ proc'.forgot = proc.forgot
      /\ proc'.before = proc.before /\ proc'.trust = proc.trust
      /\ Where' = Where /\ Target' = Target
      /\ Len(proc'.todo) = Len(proc.todo) - 1
      /\ \A i \in 1..Len(proc'.todo) : proc'.todo[i] = proc.todo[i + 1]
      /\ ~Writing' => proc'.todo = <<>>
  BY WriteMoves DEF Moved
<1>2. Setting' = Setting
  BY <1>1 DEF Setting
<1>3. \A i \in 1..Len(proc'.todo) : i + 1 \in 1..Len(proc.todo)
  BY <1>1
<1>4. Anchored' /\ Aboard'
  BY <1>1 DEF Trusting, Anchored, Aboard
<1>5. CASE ~Settling
  <2>1. ~Settling'
    BY <1>1, <1>2, <1>5 DEF Settling
  <2>2. Good(disk) /\ (torn \/ Harmless(proc.todo)) /\ Anchored
    BY <1>5 DEF Trusting, Settled
  <2>3. CASE torn
    <3>1. Good(disk)' /\ torn'
      BY <1>1, <2>3 DEF Good, GoodBy
    <3> QED
      BY <1>4, <2>1, <3>1, AtPeace
  <2>4. CASE ~torn
    <3>1. Harmless(proc.todo) /\ 1 \in 1..Len(proc.todo)
      BY <1>1, <2>2, <2>4
    <3>2. Good(disk')
      BY <1>0, <1>1, <2>2, <2>4, <3>1, HarmlessWrite DEF Harmless
    <3>3. Harmless(proc'.todo)
      BY <1>1, <1>3, <3>1 DEF Harmless
    <3>4. Good(disk)' /\ Harmless(proc.todo)'
      BY <1>1, <3>2, <3>3 DEF Good, Harmless
    <3> QED
      BY <1>4, <2>1, <3>4, AtPeace
  <2> QED
    BY <2>3, <2>4
<1>6. CASE Settling
  <2>1. /\ Good(proc.before) /\ (proc.forgot => HasTrust(proc.before)) /\ Planned /\ Setting
    BY <1>6 DEF Trusting, Begun, Settling
  <2>2. Where \notin {"check", "restore"}
    BY <1>1, <2>1 DEF Routed
  <2>3. /\ proc.todo[1].file # "cert" => disk'.cert = disk.cert
        /\ proc.todo[1].file = "cert" => disk'.cert = proc.todo[1].value
    <3>1. proc.todo[1].file \in {"ca", "conf", "cert"}
      BY <1>1 DEF Writes
    <3> QED
      BY <1>0, <1>1, <3>1, ApplyIs DEF Is
  <2>4. 1 \in 1..Len(proc.todo)
    BY <1>1
  <2>5. Where # "token" => disk'.cert = proc.before.cert /\ NoCert(proc'.todo)
    BY <1>1, <1>3, <2>1, <2>3, <2>4 DEF Planned, NoCert
  <2>6. CASE Settling'
    <3>1. Where = "open" => proc.forgot
      BY <1>1, <2>1 DEF Planned
    <3>2. \A i \in 1..Len(proc'.todo) : proc'.todo[i].file = "cert" => proc'.todo[i].value = None
      BY <1>1, <1>3, <2>1 DEF Planned
    <3>3. disk'.cert \in {None, proc.before.cert}
      BY <2>1, <2>3, <2>4 DEF Planned
    <3>4. Planned'
      BY <1>1, <2>1, <2>2, <2>5, <3>1, <3>2, <3>3 DEF Planned
    <3>5. GoodBy(proc'.before, settled', torn', kept', lost')
      BY <1>1, <2>1, GoodStays
    <3> QED
      BY <1>1, <2>1, <2>6, <3>4, <3>5, AtWork
  <2>7. CASE ~Settling'
    <3>1. Where = "failed" /\ ~Writing'
      BY <1>1, <1>2, <1>6, <2>7 DEF Settling
    <3>2. proc'.todo = <<>>
      BY <1>1, <3>1
    <3>3. Len(proc'.todo) = 0
      BY <3>2
    <3>4. Target' = disk'
      BY <3>3 DEF Target, After
    <3>5. Same(disk', proc.before) /\ (torn \/ Single(disk'))
      BY <1>1, <2>1, <3>1, <3>4 DEF Planned
    <3>6. Good(disk')
      BY <1>0, <2>1, <2>5, <3>1, <3>5, AsGood
    <3>7. Good(disk)' /\ Harmless(proc.todo)'
      BY <1>1, <3>3, <3>6, NothingIs DEF Good, Harmless
    <3> QED
      BY <1>4, <2>7, <3>7, AtPeace
  <2> QED
    BY <2>6, <2>7
<1> QED
  BY <1>5, <1>6

\* A write that fails: back to the old trust, or the end of this setup.
LEMMA TrustWriteFails ==
    ASSUME Typed, Routed, Trusting, WriteFails
    PROVE  Trusting'
<1>0. disk \in Disk /\ proc.before \in Disk /\ torn \in BOOLEAN
  BY TypedFields, ProcessFields
<1>1. /\ Writing /\ UNCHANGED <<disk, settled, kept, lost>> /\ Gone(proc, proc.otherwise)
      /\ torn' = (torn \/ (proc.otherwise = "failed" /\ (~Held \/ Both)))
  BY WriteFailsMoves
<1>2. proc.otherwise \in {"fatal", "register", "restore", "failed"}
  BY <1>1 DEF Routed
<1>3. /\ ~Writing' /\ Len(proc'.todo) = 0 /\ Where' = proc.otherwise /\ proc'.by = proc.by
      /\ proc'.forgot = proc.forgot /\ proc'.before = proc.before
  BY <1>1, <1>2, GoneAt, PlaceIs
<1>4. Anchored' /\ Aboard'
  BY <1>1, <1>2, <1>3 DEF Trusting, Anchored, Aboard
<1>5. CASE proc.otherwise = "restore"
  <2>1. Setting /\ Where = "drop" /\ proc.forgot
    BY <1>1, <1>5 DEF Routed
  <2>2. Settling /\ Settling' /\ torn' = torn
    BY <1>0, <1>1, <1>3, <1>5, <2>1 DEF Settling, Setting
  <2>3. Good(proc.before) /\ HasTrust(proc.before) /\ disk.cert = proc.before.cert
    BY <2>1, <2>2 DEF Trusting, Begun, Planned
  <2>4. Planned'
    BY <1>1, <1>3, <1>5, <2>1, <2>3, NothingIs DEF Planned
  <2>5. GoodBy(proc'.before, settled', torn', kept', lost')
    BY <1>1, <1>3, <2>2, <2>3, GoodStays
  <2> QED
    BY <1>1, <1>3, <2>2, <2>3, <2>4, <2>5, AtWork
<1>6. CASE proc.otherwise # "restore"
  <2>1. ~Settling' /\ Harmless(proc.todo)'
    BY <1>2, <1>3, <1>6, NothingIs DEF Settling, Harmless
  <2>2. Good(disk)'
    <3>1. CASE ~Settling
      <4>1. Good(disk)
        BY <3>1 DEF Trusting, Settled
      <4> QED
        BY <1>1, <4>1 DEF Good, GoodBy
    <3>2. CASE Settling
      <4>1. proc.otherwise = "failed"
        BY <1>1, <1>6, <3>2 DEF Settling, Routed
      <4>2. Good(proc.before) /\ disk.cert \in {None, proc.before.cert}
        BY <3>2 DEF Trusting, Begun, Planned
      <4>3. CASE HeldBy(disk, settled, lost) /\ Single(disk)
        <5>1. Good(disk)
          BY <1>0, <4>2, <4>3, SettledAgain
        <5> QED
          BY <1>1, <5>1 DEF Good, GoodBy
      <4>4. CASE ~(HeldBy(disk, settled, lost) /\ Single(disk))
        <5>1. torn'
          BY <1>1, <4>1, <4>4, HeldIs
        <5> QED
          BY <5>1 DEF Good, GoodBy
      <4> QED
        BY <4>3, <4>4
    <3> QED
      BY <3>1, <3>2
  <2> QED
    BY <1>4, <2>1, <2>2, AtPeace
<1> QED
  BY <1>5, <1>6

\* A process ends, or the service starts, with the trust settled.
LEMMA TrustLeaves ==
    ASSUME Typed, Routed, Trusting, Leaves
    PROVE  Trusting'
<1>1. /\ UNCHANGED <<disk, settled, torn, kept, lost>>
      /\ proc'.by \in {"nobody", "service"} /\ proc'.todo = <<>>
      /\ proc'.pc \in {"idle", "start"}
      /\ Setting => ~Writing /\ proc.pc \in {"failed", "register"}
  BY LeavesMoves DEF Recalled
<1>2. ~Settling /\ ~Settling' /\ Where' \in {"idle", "start"}
  BY <1>1 DEF Settling, Setting, Where, Writing
<1>3. Good(disk)' /\ Anchored'
  BY <1>1, <1>2 DEF Trusting, Settled, Good, Anchored
<1>4. Harmless(proc.todo)' /\ Aboard'
  <2>1. Len(proc'.todo) = 0
    BY <1>1
  <2> QED
    BY <1>2, <2>1, NothingIs DEF Harmless, Aboard
<1> QED
  BY <1>2, <1>3, <1>4, AtPeace

\* What happens beside the process leaves the trust as it is.
LEMMA TrustBeside ==
    ASSUME Typed, Routed, Trusting, Beside
    PROVE  Trusting'
<1>1. /\ UNCHANGED <<disk, settled, torn, kept, lost>>
      /\ proc'.by = proc.by /\ proc'.flags = proc.flags /\ proc'.forgot = proc.forgot
      /\ proc'.before = proc.before /\ proc'.pc = proc.pc /\ proc'.todo = proc.todo
      /\ proc'.onward = proc.onward /\ proc'.trust = proc.trust
  BY BesideMoves DEF Recalled, Moved
<1>2. /\ Setting' = Setting /\ Writing' = Writing /\ Where' = Where /\ Target' = Target
      /\ Settling' = Settling
  BY <1>1 DEF Setting, Writing, Where, Target, Settling
<1>3. Anchored' /\ Aboard'
  BY <1>1, <1>2 DEF Trusting, Anchored, Aboard
<1>4. Harmless(proc.todo)' = Harmless(proc.todo)
  BY <1>1 DEF Harmless
<1>5. Settled'
  BY <1>1, <1>2, <1>4 DEF Trusting, Settled, Good
<1>6. Planned' = Planned
  BY <1>1, <1>2 DEF Planned
<1>7. Good(proc.before)' = Good(proc.before)
  BY <1>1 DEF Good
<1> QED
  BY <1>1, <1>2, <1>3, <1>5, <1>6, <1>7 DEF Trusting, Begun

\* Nothing is settled at first, and nothing is trusted.
LEMMA TrustStart ==
    ASSUME Init
    PROVE  Trusting
<1>1. /\ disk.conf.server = None /\ disk.conf.system = FALSE /\ disk.ca = None
      /\ disk.cert = None /\ settled.server = None /\ settled.trust = None
      /\ lost = FALSE
      /\ proc.by = "nobody" /\ proc.pc = "idle" /\ proc.todo = <<>>
  BY DEF Init, Idle, Nowhere
<1>2. Good(disk)
  BY <1>1 DEF Good, GoodBy, HeldBy, TrustOf, Single
<1>3. ~Settling /\ Len(proc.todo) = 0 /\ Where = "idle"
  BY <1>1 DEF Settling, Setting, Where, Writing
<1>4. Anchored /\ Aboard
  BY <1>1, <1>3 DEF Anchored, Aboard
<1> QED
  BY <1>2, <1>3, <1>4, NothingIs DEF Trusting, Begun, Settled

\* Every step keeps the story of the trust.
LEMMA TrustStep ==
    ASSUME Typed, Routed, Trusting, [Next]_vars
    PROVE  Trusting'
  BY NextCases, TrustSetup, TrustCheck, TrustOpen, TrustOpenAlone, TrustKey, TrustKeyFails,
     TrustEnroll, TrustRestore, TrustReopen, TrustDrop, TrustKeep, TrustCut, TrustWrite,
     TrustWriteFails, TrustLeaves, TrustBeside

-----------------------------------------------------------------------------
(* The token.                                                              *)

\* The token is on disk as long as it is owed, and until a certificate is
\* nothing that is to be written takes it away.  A setup that has one to keep
\* keeps it before it makes a key and enrolls.
TokenStays ==
    owed => /\ disk.conf.token
            /\ Len(proc.todo) # 0 =>
                  proc.todo[1].file = "cert" \/ TokensAre(proc.todo, TRUE)
TokenTaken ==
    Setting /\ Where \in {"key", "enroll"} /\ proc.flags.token => Target.conf.token
TokenSafe == TokenStays /\ TokenTaken

\* A step that writes nothing of its own.
LEMMA TokenGone ==
    ASSUME Typed, Routed, TokenSafe, NEW a \in Places \ {"writing", "key", "enroll"}, Gone(proc, a),
           disk' = disk, owed' = owed
    PROVE  TokenSafe'
<1>1. Len(proc'.todo) = 0 /\ Where' = a
  BY GoneAt
<1> QED
  BY <1>1 DEF TokenSafe, TokenStays, TokenTaken

\* A step that is about to write, and keeps the token where it is.
LEMMA TokenGoes ==
    ASSUME Typed, Routed, TokenSafe, NEW todo, NEW a, a \notin {"key", "enroll"} \/ ~Setting',
           proc'.todo = todo, Where' = a, disk' = disk, owed' = owed,
           todo[1].file = "cert" \/ TokensAre(todo, disk.conf.token)
    PROVE  TokenSafe'
<1>1. disk.conf.token \in BOOLEAN
  BY TypedFields, DiskFields
<1>2. owed => disk.conf.token = TRUE
  BY <1>1 DEF TokenSafe, TokenStays
<1> QED
  BY <1>2 DEF TokenSafe, TokenStays, TokenTaken

\* A process that ends or begins, or one beside which something happens.
LEMMA TokenApart ==
    ASSUME Typed, Routed, TokenSafe, disk' = disk, owed' = owed,
           \/ proc'.todo = <<>> /\ (~Setting' \/ Where' = "check")
           \/ proc'.by = proc.by /\ proc'.flags = proc.flags /\ proc'.todo = proc.todo
              /\ proc'.pc = proc.pc /\ proc'.onward = proc.onward
    PROVE  TokenSafe'
<1>1. CASE proc'.todo = <<>> /\ (~Setting' \/ Where' = "check")
  <2>1. Len(proc'.todo) = 0
    BY <1>1
  <2> QED
    BY <1>1, <2>1 DEF TokenSafe, TokenStays, TokenTaken
<1>2. CASE /\ proc'.by = proc.by /\ proc'.flags = proc.flags /\ proc'.todo = proc.todo
           /\ proc'.pc = proc.pc /\ proc'.onward = proc.onward
  <2>1. Setting' = Setting /\ Where' = Where /\ Target' = Target
    BY <1>2 DEF Setting, Where, Writing, Target
  <2> QED
    BY <1>2, <2>1 DEF TokenSafe, TokenStays, TokenTaken
<1> QED
  BY <1>1, <1>2

\* Setup takes its token down before it enrolls.
LEMMA TokenKeep ==
    ASSUME Typed, Routed, TokenSafe, KeepToken
    PROVE  TokenSafe'
<1>1. Setting /\ UNCHANGED <<disk, owed>>
  BY KeepMoves
<1>2. CASE Gone(proc, "register")
  BY <1>1, <1>2, TokenGone, PlaceIs
<1>3. ASSUME NEW p, p.flags = proc.flags, ~p.flags.token, Gone(p, "key")
      PROVE  TokenSafe'
  <2>1. Len(proc'.todo) = 0 /\ proc'.flags = p.flags
    BY <1>3, GoneAt, PlaceIs
  <2> QED
    BY <1>1, <1>3, <2>1 DEF TokenSafe, TokenStays, TokenTaken
<1>4. ASSUME NEW p, NEW todo, NEW f, f.token,
             Goes(p, todo, "key", "failed", f, disk.ca, disk.cert),
             Len(todo) = 1, todo[1].file = "conf", todo[1].value = f
      PROVE  TokenSafe'
  <2>1. proc'.todo = todo /\ Is(Target', f, disk.ca, disk.cert)
    BY <1>1, <1>4, GoesAt
  <2>2. Target'.conf = f /\ f.token = TRUE
    <3>1. f \in Config
      BY <2>1, DiskFields DEF Is
    <3> QED
      BY <1>4, <2>1, <3>1 DEF Is, Config
  <2>3. TokensAre(todo, TRUE)
    <3>1. \A i \in 1..Len(todo) : i = 1
      BY <1>4
    <3> QED
      BY <1>4, <2>2, <3>1 DEF TokensAre
  <2> QED
    BY <1>1, <2>1, <2>2, <2>3 DEF TokenSafe, TokenStays, TokenTaken
<1> QED
  BY <1>2, <1>3, <1>4, KeepMoves

\* A new key resets config.json to the address and the token.
LEMMA TokenKey ==
    ASSUME Typed, Routed, TokenSafe, NEW offered \in BOOLEAN, EnsureKey(offered)
    PROVE  TokenSafe'
<1>1. proc.pc = "key" /\ UNCHANGED <<disk, owed>>
  BY KeyMoves
<1>2. Target = disk /\ Where = "key"
  BY <1>1, AtRest DEF Writing
<1>3. disk.conf.token \in BOOLEAN
  BY TypedFields, DiskFields
<1>4. /\ owed => disk.conf.token
      /\ Setting /\ proc.flags.token => disk.conf.token
  BY <1>2 DEF TokenSafe, TokenStays, TokenTaken
<1>5. ASSUME NEW a \in {"enroll", "run"}, Gone(proc, a)
      PROVE  TokenSafe'
  <2>1. /\ Len(proc'.todo) = 0 /\ proc'.by = proc.by /\ proc'.flags = proc.flags
        /\ Target' = disk
    BY <1>1, <1>5, GoneAt, PlaceIs
  <2> QED
    BY <1>1, <1>4, <2>1 DEF TokenSafe, TokenStays, TokenTaken, Setting
<1>6. ASSUME NEW todo, NEW f, NEW h, NEW a, NEW b, f.token = disk.conf.token,
             h.token = disk.conf.token, Resets(todo, f, disk.conf),
             Goes(proc, todo, a, b, h, disk.ca, disk.cert)
      PROVE  TokenSafe'
  <2>1. /\ proc'.todo = todo /\ proc'.by = proc.by /\ proc'.flags = proc.flags
        /\ Is(Target', h, disk.ca, disk.cert)
    BY <1>1, <1>6, GoesAt
  <2>2. Target'.conf.token = disk.conf.token
    BY <1>6, <2>1 DEF Is
  <2>3. disk.conf.token => TokensAre(todo, TRUE)
    <3>1. \A i \in 1..Len(todo) : todo[i].value \in {f, disk.conf}
      BY <1>6, ResetsAre
    <3> QED
      BY <1>3, <1>6, <3>1 DEF TokensAre
  <2> QED
    BY <1>1, <1>4, <2>1, <2>2, <2>3 DEF TokenSafe, TokenStays, TokenTaken, Setting
<1> QED
  BY <1>5, <1>6, KeyMoves

\* An enrollment owes the token that setup took, and writes a certificate first.
LEMMA TokenEnroll ==
    ASSUME Typed, Routed, TokenSafe, NEW issued \in BOOLEAN, Enroll(issued)
    PROVE  TokenSafe'
<1>1. proc.pc = "enroll" /\ disk' = disk /\ owed' = (owed \/ (Setting /\ proc.flags.token))
  BY EnrollMoves
<1>2. Target = disk /\ Where = "enroll"
  BY <1>1, AtRest DEF Writing
<1>3. owed' => disk'.conf.token
  BY <1>1, <1>2 DEF TokenSafe, TokenStays, TokenTaken
<1>4. CASE Gone(proc, "register")
  <2>1. Len(proc'.todo) = 0 /\ Where' = "register"
    BY <1>4, GoneAt, PlaceIs
  <2> QED
    BY <1>3, <2>1 DEF TokenSafe, TokenStays, TokenTaken
<1>5. ASSUME NEW todo, NEW f,
             Goes(proc, todo, IF Setting THEN "register" ELSE "run",
                  IF Setting THEN "register" ELSE "fatal", f, disk.ca, proc.trust),
             CertThenConf(todo, proc.trust, f)
      PROVE  TokenSafe'
  <2>1. proc'.todo = todo /\ Where' \in {"register", "run"}
    BY <1>1, <1>5, GoesAt
  <2> QED
    BY <1>3, <1>5, <2>1 DEF TokenSafe, TokenStays, TokenTaken, CertThenConf
<1> QED
  BY <1>4, <1>5, EnrollMoves

\* A file is written: the certificate, which ends the debt, or config.json with
\* the token.
LEMMA TokenWrite ==
    ASSUME Typed, Routed, TokenSafe, Write
    PROVE  TokenSafe'
<1>1. /\ Len(proc.todo) \in 1..3 /\ proc.todo[1] \in Writes
      /\ disk' = Apply(disk, proc.todo[1])
      /\ owed' = (owed /\ proc.todo[1].file # "cert")
      /\ proc'.by = proc.by /\ proc'.flags = proc.flags /\ Where' = Where /\ Target' = Target
      /\ Len(proc'.todo) = Len(proc.todo) - 1
      /\ \A i \in 1..Len(proc'.todo) : proc'.todo[i] = proc.todo[i + 1]
  BY WriteMoves DEF Moved
<1>2. TokenTaken'
  BY <1>1 DEF TokenSafe, TokenTaken, Setting
<1>3. ASSUME owed'
      PROVE  disk'.conf.token /\ TokensAre(proc'.todo, TRUE)
  <2>1. owed /\ proc.todo[1].file \in {"ca", "conf"}
    BY <1>1, <1>3 DEF Writes
  <2>2. disk.conf.token /\ TokensAre(proc.todo, TRUE) /\ 1 \in 1..Len(proc.todo)
    <3>1. Len(proc.todo) # 0 /\ 1 \in 1..Len(proc.todo)
      BY <1>1
    <3>2. proc.todo[1].file # "cert"
      BY <2>1
    <3> QED
      BY <2>1, <3>1, <3>2 DEF TokenSafe, TokenStays
  <2>3. disk'.conf.token
    <3>1. disk \in Disk
      BY TypedFields
    <3>2. CASE proc.todo[1].file = "ca"
      <4>1. disk'.conf = disk.conf
        BY <1>1, <3>1, <3>2, ApplyIs DEF Is
      <4> QED
        BY <2>2, <4>1
    <3>3. CASE proc.todo[1].file = "conf"
      <4>1. disk'.conf = proc.todo[1].value
        BY <1>1, <3>1, <3>3, ApplyIs DEF Is
      <4> QED
        BY <2>2, <3>3, <4>1 DEF TokensAre
    <3> QED
      BY <2>1, <3>2, <3>3
  <2>4. \A i \in 1..Len(proc'.todo) : i + 1 \in 1..Len(proc.todo)
    BY <1>1
  <2>5. TokensAre(proc'.todo, TRUE)
    BY <1>1, <2>2, <2>4 DEF TokensAre
  <2> QED
    BY <2>3, <2>5
<1> QED
  BY <1>2, <1>3 DEF TokenSafe, TokenStays

\* Every step keeps the token.
LEMMA TokenStep ==
    ASSUME Typed, Routed, TokenSafe, [Next]_vars
    PROVE  TokenSafe'
<1>1. ASSUME NEW by \in {"setup", "install"}, Setup(by)
      PROVE  TokenSafe'
  <2>1. UNCHANGED <<disk, owed>> /\ proc'.todo = <<>> /\ proc'.pc = "check"
    BY <1>1, SetupMoves
  <2> QED
    BY <2>1, TokenApart DEF Where, Writing
<1>2. ASSUME NEW answers \in BOOLEAN, Check(answers)
      PROVE  TokenSafe'
  <2>1. UNCHANGED <<disk, owed>>
    BY <1>2, CheckMoves
  <2>2. CASE Gone(proc, "open")
    BY <2>1, <2>2, TokenGone, PlaceIs
  <2>3. ASSUME NEW todo, NEW f, NEW ca, Onto(todo, "open", "failed", f, ca, disk.cert),
               TokensAre(todo, disk.conf.token)
        PROVE  TokenSafe'
    <3>1. proc'.todo = todo /\ Where' = "open"
      BY <2>1, <2>3, OntoAt
    <3> QED
      BY <2>1, <2>3, <3>1, TokenGoes
  <2> QED
    BY <1>2, <2>2, <2>3, CheckMoves
<1>3. ASSUME NEW answers \in BOOLEAN, Open(answers)
      PROVE  TokenSafe'
  <2>1. UNCHANGED <<disk, owed>>
    BY <1>3, OpenMoves
  <2>2. CASE Gone(proc, "restore") \/ Gone(proc, "failed")
    BY <2>1, <2>2, TokenGone, PlaceIs
  <2>3. ASSUME NEW todo, NEW f, NEW ca, NEW b, Opens(todo, disk, f, ca, proc.flags),
               Goes(proc, todo, "drop", b, f, ca, disk.cert)
        PROVE  TokenSafe'
    <3>1. proc'.todo = todo /\ Where' = "drop"
      BY <2>1, <2>3, GoesAt
    <3>2. TokensAre(todo, disk.conf.token)
      BY <2>3 DEF Opens
    <3> QED
      BY <2>1, <3>1, <3>2, TokenGoes
  <2> QED
    BY <1>3, <2>2, <2>3, OpenMoves
<1>4. ASSUME NEW answers \in BOOLEAN, OpenAlone(answers)
      PROVE  TokenSafe'
  <2>1. UNCHANGED <<disk, owed>> /\ ~Setting
    BY <1>4, OpenAloneMoves DEF Recalled, Serving, Setting
  <2>2. CASE Gone(proc, "fatal")
    BY <2>1, <2>2, TokenGone, PlaceIs
  <2>3. ASSUME NEW todo, NEW f, NEW ca, NEW p, Opens(todo, disk, f, ca, NoFlags),
               p.by = proc.by, Goes(p, todo, "key", "fatal", f, ca, disk.cert)
        PROVE  TokenSafe'
    <3>1. proc'.todo = todo /\ Where' = "key" /\ proc'.by = proc.by
      BY <2>1, <2>3, GoesAt
    <3>2. TokensAre(todo, disk.conf.token)
      BY <2>3 DEF Opens
    <3>3. ~Setting'
      BY <2>1, <3>1 DEF Setting
    <3> QED
      BY <2>1, <3>1, <3>2, <3>3, TokenGoes
  <2> QED
    BY <1>4, <2>2, <2>3, OpenAloneMoves
<1>5. CASE Restore
  <2>1. UNCHANGED <<disk, owed>>
    BY <1>5, RestoreMoves DEF Recalled
  <2>2. PICK todo, f, ca, onward :
           /\ onward \in {"failed", "reopen"}
           /\ Goes(proc, todo, onward, "failed", f, ca, disk.cert)
           /\ TokensAre(todo, disk.conf.token)
    BY <1>5, RestoreMoves
  <2>3. proc'.todo = todo /\ Where' = onward
    BY <2>1, <2>2, GoesAt
  <2> QED
    BY <2>1, <2>2, <2>3, TokenGoes
<1>6. CASE Reopen
  <2>1. UNCHANGED <<disk, owed>>
    BY <1>6, ReopenMoves DEF Recalled
  <2>2. CASE Gone(proc, "token")
    BY <2>1, <2>2, TokenGone, PlaceIs
  <2>3. ASSUME NEW todo, NEW f, NEW ca, Opens(todo, disk, f, ca, proc.flags),
               Goes(proc, todo, "token", "failed", f, ca, disk.cert)
        PROVE  TokenSafe'
    <3>1. proc'.todo = todo /\ Where' = "token"
      BY <2>1, <2>3, GoesAt
    <3>2. TokensAre(todo, disk.conf.token)
      BY <2>3 DEF Opens
    <3> QED
      BY <2>1, <3>1, <3>2, TokenGoes
  <2> QED
    BY <1>6, <2>2, <2>3, ReopenMoves
<1>7. CASE DropStale
  <2>1. UNCHANGED <<disk, owed>>
    BY <1>7, DropMoves DEF Recalled
  <2>2. CASE Gone(proc, "token")
    BY <2>1, <2>2, TokenGone, PlaceIs
  <2>3. ASSUME NEW todo, Goes(proc, todo, "token", "failed", disk.conf, disk.ca, None),
               CertThenConf(todo, None, disk.conf)
        PROVE  TokenSafe'
    <3>1. proc'.todo = todo /\ Where' = "token" /\ todo[1].file = "cert"
      BY <2>1, <2>3, GoesAt DEF CertThenConf
    <3> QED
      BY <2>1, <3>1, TokenGoes
  <2> QED
    BY <1>7, <2>2, <2>3, DropMoves
<1>8. CASE ProtectFails \/ KeyFails
  BY <1>8, ProtectMoves, KeyFailsMoves, TokenGone, PlaceIs DEF Recalled
<1>9. CASE WriteFails
  <2>1. UNCHANGED <<disk, owed>> /\ Gone(proc, proc.otherwise) /\ Writing
    BY <1>9, WriteFailsMoves
  <2>2. proc.otherwise \in {"fatal", "register", "restore", "failed"}
    BY <2>1 DEF Routed
  <2> QED
    BY <2>1, <2>2, TokenGone, PlaceIs
<1>10. CASE Cut \/ Leaves
  <2>1. /\ UNCHANGED <<disk, owed>> /\ proc'.todo = <<>> /\ proc'.by \in {"nobody", "service"}
    BY <1>10, CutMoves, LeavesMoves DEF Recalled
  <2>2. ~Setting'
    BY <2>1 DEF Setting
  <2> QED
    BY <2>1, <2>2, TokenApart
<1>11. CASE Beside
  <2>1. /\ UNCHANGED <<disk, owed>> /\ proc'.by = proc.by /\ proc'.flags = proc.flags
        /\ proc'.todo = proc.todo /\ proc'.pc = proc.pc /\ proc'.onward = proc.onward
    BY <1>11, BesideMoves DEF Recalled, Moved
  <2> QED
    BY <2>1, TokenApart
<1> QED
  BY <1>1, <1>2, <1>3, <1>4, <1>5, <1>6, <1>7, <1>8, <1>9, <1>10, <1>11, TokenKeep, TokenKey,
     TokenEnroll, TokenWrite, NextCases

-----------------------------------------------------------------------------
(* The specification.                                                      *)

IInv == Typed /\ Routed /\ Trusting /\ TokenSafe

\* The invariant holds at first, and every step keeps it.
LEMMA IAlways == Spec => []IInv
<1>1. Init => IInv
  <2> SUFFICES ASSUME Init PROVE IInv
    OBVIOUS
  <2>1. Typed /\ Routed /\ Trusting
    BY RoutedStart, TrustStart
  <2>2. TokenSafe
    BY DEF Init, Idle, TokenSafe, TokenStays, TokenTaken, Setting
  <2> QED
    BY <2>1, <2>2 DEF IInv
<1>2. IInv /\ [Next]_vars => IInv'
  BY RoutedStep, TrustStep, TokenStep DEF IInv
<1> QED
  BY <1>1, <1>2, PTL DEF Spec

\* The state directory, the process that has it open, the service manager's
\* entry and the history stay of their types, for any servers, CAs and command
\* lines.
THEOREM TypeCorrect == Spec => []TypeOK
<1>1. IInv => TypeOK
  BY DEF IInv, Typed
<1> QED
  BY <1>1, IAlways, PTL

\* What is trusted, and for which server, is what the last setup settled, or
\* the same without the store a new key erased, whatever failed and however often
\* the service started, unless a setup was cut or failed half way (settleTrust,
\* openState, EnsureKey).
THEOREM TrustStaysSettled == Spec => []TrustAsSettled
<1>1. IInv => TrustAsSettled
  BY HeldIs DEF IInv, Trusting, Settled, Settling, Good, GoodBy, TrustAsSettled
<1> QED
  BY <1>1, IAlways, PTL

\* A running service's certificate was issued under the trust its client
\* verifies the server with (settleTrust's DropIssued, EnsureKey), or setup
\* settled another trust with none to forget.
THEOREM CertificateAlwaysFits == Spec => []CertificateFits
<1>1. IInv => CertificateFits
  BY DEF IInv, Trusting, Settled, Aboard, Settling, Setting, Serving, Where, Writing, Good, GoodBy,
         CertificateFits
<1> QED
  BY <1>1, IAlways, PTL

\* The token that setup took is on disk until a certificate is (prepareState,
\* SaveIssued).
THEOREM TokenAlwaysKept == Spec => []TokenKept
<1>1. IInv => TokenKept
  BY DEF IInv, TokenSafe, TokenStays, TokenKept
<1> QED
  BY <1>1, IAlways, PTL

-----------------------------------------------------------------------------
\* What the faults are needed for.

Finished == ~torn

LEMMA FinishedStep ==
    ASSUME Faults \cap {"write", "cut"} = {}
    PROVE  Finished /\ [Next]_vars => Finished'
<1> SUFFICES ASSUME Finished, [Next]_vars PROVE Finished'
  OBVIOUS
<1> USE DEF Finished
<1>1. ~WriteFails /\ ~Cut
  BY DEF WriteFails, Cut, Strike
<1> QED
  BY <1>1 DEF Next, Setup, Check, Open, OpenAlone, EnsureKey, KeyFails, Enroll, Restore, Reopen,
     DropStale, KeepToken, ProtectFails, SetupFails, Register, Write, Start, Recover,
     EnsureRecovery, EnsureFails, Tune, ExitFailure, Stop, Crash, Uninstall, Rebuild, history, vars

\* Where nobody kills a setup and its writes work, the machine trusts what the
\* last setup settled, or nothing once a new key erased the store from
\* config.json, whichever setups failed since: a check that found the server
\* changed and forgot the trust puts it back (main.go:1849-1867).
THEOREM TrustSettledWhereWritten ==
    ASSUME Faults \cap {"write", "cut"} = {}
    PROVE  Spec => [](~Setting => /\ disk.conf.server = settled.server
                                  /\ \/ TrustOf(disk) = settled.trust
                                     \/ lost /\ TrustOf(disk) = None)
<1>1. Init => Finished
  BY DEF Init, Finished
<1>2. Finished /\ [Next]_vars => Finished'
  BY FinishedStep
<1>3. IInv /\ Finished => (~Setting => /\ disk.conf.server = settled.server
                                       /\ \/ TrustOf(disk) = settled.trust
                                          \/ lost /\ TrustOf(disk) = None)
  BY DEF IInv, Trusting, Settled, Settling, Good, GoodBy, HeldBy, Finished
<1> QED
  BY <1>1, <1>2, <1>3, IAlways, PTL DEF Spec
=============================================================================
