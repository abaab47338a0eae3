-------------------------- MODULE ServingCertProofs --------------------------
(***************************************************************************)
(* Whatever addresses, handshakes, failures and times there are, what a    *)
(* restart would load from disk is the certificate in use.                 *)
(***************************************************************************)
EXTENDS ServingCert, TLAPS

\* No certificate is of a later time than the present one
Dated == crtFile.issued <= now /\ csr.crt.issued <= now /\ job.crt.issued <= now

\* A certificate file that is there has a key
Keyed == crtFile.key = 0 => crtFile = NoCrt

\* Past loadCertIfValid, what is on disk would not be loaded, until writeCert is done with it
Unloadable ==
  job.pc \in {"submit", "approve", "wait", "fallback", "writekey", "writecrt"} => ~CertIfValid

\* The request is for a key that the certificate on disk does not have
OwnKey ==
  /\ job.pc \in {"submit", "approve", "wait", "writekey", "writecrt"} => job.crt.key \notin {0, crtFile.key}
  /\ job.pc \in {"approve", "wait"} /\ csr.state # "none" => csr.crt.key = job.crt.key

Inv == Dated /\ Keyed /\ Unloadable /\ OwnKey /\ DiskIsServed

\* GenerateKey: a key can be told from the three that are in files or in memory
LEMMA NewKeyIsNew ==
  ASSUME TypeOK
  PROVE  NewKey \in Keys /\ NewKey \notin {keyFile, crtFile.key, held.key}
<1>1. \E k \in Keys : k \notin {keyFile, crtFile.key, held.key}
  BY DEF TypeOK, Keys, Crt, Served
<1> QED
  BY <1>1, Zenon DEF NewKey

\* What obtainCert asks for, or generates, is a certificate of the present time
LEMMA NewCrtType ==
  ASSUME TypeOK
  PROVE  NewCrt \in Crt /\ NewCrt.key = NewKey /\ NewCrt.issued = now
BY NewKeyIsNew, Zenon DEF TypeOK, Crt, NewCrt

\* The constants that stand for no certificate, request or job
LEMMA NoneType ==
  /\ NoCrt \in Crt /\ NoCrt.key = 0 /\ NoCrt.issued = 0
  /\ NoJob \in Job /\ NoJob.pc = "idle" /\ NoJob.crt = NoCrt
  /\ NoCSR \in Request /\ NoCSR.state = "none" /\ NoCSR.crt = NoCrt
  /\ Boot \in Job /\ Boot.pc = "load" /\ Boot.crt = NoCrt
  /\ NoConn \in Handshake
<1>1. NoCrt \in Crt /\ NoCrt.key = 0 /\ NoCrt.issued = 0
  BY CertAssumption DEF NoCrt, Crt
<1>2. NoJob \in Job /\ NoJob.pc = "idle" /\ NoJob.crt = NoCrt
  BY <1>1, Zenon DEF NoJob, Job, JobPC
<1>3. Boot \in Job /\ Boot.pc = "load" /\ Boot.crt = NoCrt
  BY <1>2, Zenon DEF Boot, Job, JobPC
<1> QED
  BY <1>1, <1>2, <1>3, Zenon DEF NoCSR, Request, NoConn, Handshake

\* A record of job's type has its fields' types
LEMMA JobFields ==
  ASSUME TypeOK
  PROVE  job.crt \in Crt /\ job.crt.key \in {0} \cup Keys /\ csr.crt \in Crt
BY Zenon DEF TypeOK, Job, Crt, Request

\* A job that only goes on to another statement keeps its certificate
LEMMA GoesOn ==
  ASSUME NEW pc \in JobPC, TypeOK, Goes(pc)
  PROVE  job' \in Job /\ job'.pc = pc /\ job'.crt = job.crt
BY Zenon DEF TypeOK, Goes, Job

\* What Returns leaves behind: no job, and the certificate in use
LEMMA ReturnsType ==
  ASSUME NEW crt \in Crt, NEW key \in {0} \cup Keys, TypeOK, Returns(crt, key)
  PROVE  job' = NoJob /\ held' \in Served /\ held'.crt = crt /\ conn' \in [Conns -> Handshake]
<1>1. crt.sans \in SUBSET Addrs
  BY Zenon DEF Crt
<1>2. ASSUME NEW c \in Conns
      PROVE  [conn[c] EXCEPT !.pc = "idle", !.sans = crt.sans] \in Handshake
  BY <1>1, ZenonT(60) DEF TypeOK, Handshake
<1>3. conn' \in [Conns -> Handshake]
  BY <1>2, Zenon DEF Returns, TypeOK
<1>4. held' \in Served /\ held'.crt = crt
  BY Zenon DEF Returns, Served
<1> QED
  BY <1>3, <1>4, Zenon DEF Returns

\* A failure, a crash or a change of addresses is one of at most MaxEvents
LEMMA EventType ==
  ASSUME TypeOK, Event
  PROVE  events' \in 0..MaxEvents
BY CertAssumption DEF TypeOK, Event

\* The steps of obtainCert keep the types
LEMMA ObtainType ==
  ASSUME TypeOK, Obtain \/ CallFails
  PROVE  TypeOK'
<1>1. CASE ClearsCrt
  BY <1>1, GoesOn, NoneType, Zenon DEF ClearsCrt, ConnFrame, TypeOK, JobPC
<1>2. CASE ClearsKey
  BY <1>2, GoesOn, Zenon DEF ClearsKey, ConnFrame, TypeOK, JobPC
<1>3. CASE Loads
  <2>1. CASE CertIfValid
    <3>1. Returns(crtFile, keyFile) /\ crtFile \in Crt /\ keyFile \in {0} \cup Keys
      BY <1>3, <2>1, Zenon DEF Loads, TypeOK
    <3> QED
      BY <1>3, <3>1, ReturnsType, NoneType, Zenon DEF Loads, JobFrame, TypeOK, files
  <2>2. CASE ~CertIfValid
    <3>1. job' \in Job
      BY <1>3, <2>2, NewCrtType, Zenon DEF Loads, TypeOK, Job, JobPC
    <3> QED
      BY <1>3, <2>2, <3>1, Zenon DEF Loads, JobFrame, TypeOK, files
  <2> QED
    BY <2>1, <2>2, Zenon
<1>4. CASE Submits
  <2>1. csr' \in Request
    BY <1>4, JobFields, Zenon DEF Submits, Request
  <2> QED
    BY <1>4, <2>1, GoesOn, Zenon DEF Submits, JobFrame, TypeOK, files, JobPC
<1>5. CASE Approves
  <2>1. csr' \in Request
    BY <1>5, Zenon DEF Approves, Request, TypeOK
  <2> QED
    BY <1>5, <2>1, GoesOn, Zenon DEF Approves, JobFrame, TypeOK, files, JobPC
<1>6. CASE Waits
  <2>1. job' \in Job
    BY <1>6, GoesOn, JobFields, Zenon DEF Waits, TypeOK, Job, JobPC
  <2> QED
    BY <1>6, <2>1, Zenon DEF Waits, JobFrame, TypeOK, files
<1>7. CASE TimesOut
  BY <1>7, GoesOn, Zenon DEF TimesOut, JobFrame, TypeOK, files, JobPC
<1>8. CASE WritesKey
  <2>1. CASE keyFile' = job.crt.key /\ Goes("writecrt") /\ UNCHANGED <<held, conn, events>>
    BY <1>8, <2>1, JobFields, GoesOn, Zenon DEF WritesKey, JobFrame, TypeOK, files, JobPC
  <2>2. CASE Event /\ keyFile' \in {keyFile, 0} /\ Returns(job.crt, job.crt.key)
    BY <1>8, <2>2, JobFields, ReturnsType, NoneType, EventType, Zenon DEF WritesKey, JobFrame, TypeOK, files
  <2> QED
    BY <1>8, <2>1, <2>2, Zenon DEF WritesKey
<1>9. CASE WritesCrt
  <2>1. crtFile' \in Crt /\ events' \in 0..MaxEvents
    BY <1>9, JobFields, NoneType, EventType, Zenon DEF WritesCrt, TypeOK
  <2> QED
    BY <1>9, <2>1, JobFields, ReturnsType, NoneType, Zenon DEF WritesCrt, JobFrame, TypeOK, files
<1>10. CASE Generates
  <2>1. NewCrt.key \in {0} \cup Keys
    BY NewCrtType, NewKeyIsNew, Zenon
  <2> QED
    BY <1>10, <2>1, NewCrtType, ReturnsType, NoneType, Zenon DEF Generates, JobFrame, TypeOK, files
<1>11. CASE CallFails
  BY <1>11, GoesOn, EventType, Zenon DEF CallFails, JobFrame, TypeOK, files, JobPC
<1> QED
  BY <1>1, <1>2, <1>3, <1>4, <1>5, <1>6, <1>7, <1>8, <1>9, <1>10, <1>11, Zenon DEF Obtain

\* The steps of handshakes, of the cluster and of the host keep the types
LEMMA OtherType ==
  ASSUME TypeOK, Next, ~(Obtain \/ CallFails)
  PROVE  TypeOK'
<1>1. CASE CooldownEnds
  BY <1>1, Zenon DEF CooldownEnds, ConnFrame, TypeOK, files
<1>2. ASSUME NEW c \in Conns, Reads(c)
      PROVE  TypeOK'
  <2>1. held.crt.sans \in SUBSET Addrs
    BY Zenon DEF TypeOK, Served, Crt
  <2>2. conn[c] \in Handshake /\ \A pc \in {"idle", "renew"} :
          [conn[c] EXCEPT !.pc = pc, !.sans = held.crt.sans] \in Handshake
    BY <2>1, Zenon DEF TypeOK, Handshake
  <2>3. PICK pc \in {"idle", "renew"} :
          conn' = [conn EXCEPT ![c] = [conn[c] EXCEPT !.pc = pc, !.sans = held.crt.sans]]
    BY <1>2, Zenon DEF Reads, TypeOK, Handshake
  <2>4. conn' \in [Conns -> Handshake]
    BY <2>2, <2>3, Zenon DEF TypeOK
  <2> QED
    BY <1>2, <2>4, Zenon DEF Reads, ConnFrame, TypeOK, files
<1>3. ASSUME NEW c \in Conns, Renews(c)
      PROVE  TypeOK'
  <2>1. CASE cooling
    <3>1. conn' \in [Conns -> Handshake]
      BY <1>3, <2>1 DEF Renews, TypeOK, Handshake
    <3> QED
      BY <1>3, <2>1, <3>1, Zenon DEF Renews, ConnFrame, TypeOK, files
  <2>2. CASE ~cooling
    <3>1. job' \in Job /\ cooling' \in BOOLEAN
      BY <1>3, <2>2, NoneType, Zenon DEF Renews, Job, JobPC
    <3> QED
      BY <1>3, <2>2, <3>1, Zenon DEF Renews, ConnFrame, TypeOK, files
  <2> QED
    BY <2>1, <2>2, Zenon
<1>4. ASSUME NEW c \in Conns, NEW a \in Addrs, Connects(c, a)
      PROVE  TypeOK'
  <2>1. conn' \in [Conns -> Handshake]
    BY <1>4, Zenon DEF Connects, TypeOK, Handshake
  <2> QED
    BY <1>4, <2>1, Zenon DEF Connects, ConnFrame, TypeOK, files
<1>5. CASE Signs
  <2>1. [csr.crt EXCEPT !.issued = now] \in Crt
    BY JobFields, Zenon DEF TypeOK, Crt
  <2>2. csr' \in Request
    BY <1>5, <2>1, Zenon DEF Signs, Request, TypeOK
  <2> QED
    BY <1>5, <2>2, Zenon DEF Signs, TypeOK, files
<1>6. CASE DeniedOrDeleted
  <2>1. csr' \in Request
    BY <1>6, NoneType, Zenon DEF DeniedOrDeleted, Request, TypeOK
  <2> QED
    BY <1>6, <2>1, EventType, Zenon DEF DeniedOrDeleted, TypeOK, files
<1>7. CASE AddrsChange
  BY <1>7, EventType, Zenon DEF AddrsChange, TypeOK, files
<1>8. CASE TimePasses
  BY <1>8, CertAssumption DEF TimePasses, TypeOK, files
<1>9. CASE Restarts
  <2>1. held' \in Served
    BY <1>9, NoneType, Zenon DEF Restarts, Served
  <2> QED
    BY <1>9, <2>1, EventType, NoneType, Zenon DEF Restarts, TypeOK, files
<1> QED
  BY <1>1, <1>2, <1>3, <1>4, <1>5, <1>6, <1>7, <1>8, <1>9, Zenon DEF Next

\* Files, requests, jobs and handshakes have the types that TypeOK gives them, whatever the
\* constants are.
THEOREM CertTypeOK == Spec => []TypeOK
<1>1. Init => TypeOK
  <2> SUFFICES ASSUME Init PROVE TypeOK
    OBVIOUS
  <2>1. held \in Served
    BY NoneType, Zenon DEF Init, Served
  <2>2. 0 \in 0..MaxNow /\ 0 \in 0..MaxEvents
    BY CertAssumption
  <2>3. conn \in [Conns -> Handshake]
    BY NoneType, Zenon DEF Init
  <2> QED
    BY <2>1, <2>2, <2>3, NoneType, Zenon DEF Init, TypeOK
<1>2. TypeOK /\ [Next]_vars => TypeOK'
  <2>1. TypeOK /\ UNCHANGED vars => TypeOK'
    BY Zenon DEF vars, files, TypeOK
  <2> QED
    BY <2>1, ObtainType, OtherType, Zenon
<1> QED
  BY <1>1, <1>2, PTL DEF Spec

\* A step that changes neither files, requests nor time, and at most begins a job, keeps the
\* invariant
LEMMA QuietStep ==
  ASSUME TypeOK, Inv, UNCHANGED <<now, files, csr, held>>,
         \/ job' = job
         \/ job'.pc \in {"clearcrt", "load"} /\ job'.crt = NoCrt
  PROVE  Inv'
<1>1. CASE job' = job
  BY <1>1, Zenon DEF Inv, Dated, Keyed, Unloadable, OwnKey, DiskIsServed, Locked, CertIfValid, files
<1>2. CASE job'.pc \in {"clearcrt", "load"} /\ job'.crt = NoCrt
  <2>1. job' # NoJob /\ job'.crt.issued <= now
    BY <1>2, NoneType DEF TypeOK
  <2> QED
    BY <1>2, <2>1, Zenon DEF Inv, Dated, Keyed, Unloadable, OwnKey, DiskIsServed, Locked, files
<1> QED
  BY <1>1, <1>2, Zenon

\* A job that goes on to its next statement of RequestServingCert keeps the invariant: what is on
\* disk stays unloadable, and its request stays its own
LEMMA RequestStep ==
  ASSUME TypeOK, Inv, UNCHANGED <<now, files, held>>,
         NEW p \in {"submit", "approve", "wait", "writekey", "writecrt"}, job.pc = p,
         NEW q \in {"approve", "wait", "writekey", "fallback"}, job'.pc = q,
         q # "fallback" => job'.crt.key = job.crt.key,
         job'.crt.issued <= now, csr'.crt.issued <= now,
         q \in {"approve", "wait"} /\ csr'.state # "none" => csr'.crt.key = job.crt.key
  PROVE  Inv'
<1>1. job' # NoJob
  BY NoneType, Zenon
<1>2. ~CertIfValid /\ ~CertIfValid'
  BY Zenon DEF Inv, Unloadable, CertIfValid, files
<1> QED
  BY <1>1, <1>2, Zenon DEF Inv, Dated, Keyed, Unloadable, OwnKey, DiskIsServed, Locked, files

\* A renewal that ends with a certificate that is not kept, or not wholly, leaves nothing to load
LEMMA EndStep ==
  ASSUME TypeOK, Inv, now' = now, csr' = csr, job' = NoJob, Keyed', Dated',
         ~CertIfValid' \/ crtFile' = held'.crt
  PROVE  Inv'
BY NoneType, Zenon DEF Inv, Unloadable, OwnKey, DiskIsServed

\* The steps of obtainCert keep the invariant
LEMMA ObtainInv ==
  ASSUME TypeOK, Inv, Obtain \/ CallFails
  PROVE  Inv'
<1>0. /\ NoCrt.issued <= now /\ crtFile.issued <= now /\ csr.crt.issued <= now /\ job.crt.issued <= now
      /\ now <= now
  BY NoneType DEF Inv, Dated, TypeOK
<1>1. CASE ClearsCrt
  <2>1. job'.pc = "clearkey" /\ job'.crt = job.crt /\ job' # NoJob
    BY <1>1, GoesOn, NoneType, Zenon DEF ClearsCrt, JobPC
  <2> QED
    BY <1>0, <1>1, <2>1, NoneType, Zenon
    DEF ClearsCrt, ConnFrame, Inv, Dated, Keyed, Unloadable, OwnKey, DiskIsServed, Locked
<1>2. CASE ClearsKey
  <2>1. job'.pc = "load" /\ job'.crt = job.crt /\ job' # NoJob
    BY <1>2, GoesOn, NoneType, Zenon DEF ClearsKey, JobPC
  <2> QED
    BY <1>0, <1>2, <2>1, Zenon DEF ClearsKey, ConnFrame, Inv, Dated, Keyed, Unloadable, OwnKey, DiskIsServed, Locked
<1>3. CASE Loads
  <2>1. CASE CertIfValid
    <3>1. Returns(crtFile, keyFile) /\ crtFile \in Crt /\ keyFile \in {0} \cup Keys
      BY <1>3, <2>1, Zenon DEF Loads, TypeOK
    <3>2. job' = NoJob /\ held'.crt = crtFile' /\ UNCHANGED <<now, crtFile, csr>>
      BY <1>3, <3>1, ReturnsType, Zenon DEF Loads, JobFrame, files
    <3> QED
      BY <1>0, <3>2, EndStep, NoneType, Zenon DEF Dated, Keyed, Inv
  <2>2. CASE ~CertIfValid
    <3>1. /\ job'.pc = "submit" /\ job'.crt = NewCrt /\ job' # NoJob
          /\ UNCHANGED <<now, keyFile, crtFile, csr, held>>
      BY <1>3, <2>2, NoneType, Zenon DEF Loads, JobFrame, files, TypeOK, Job
    <3>2. NewCrt.key \notin {0, crtFile.key} /\ NewCrt.issued <= now
      BY <1>0, NewCrtType, NewKeyIsNew DEF Keys
    <3> QED
      BY <1>0, <2>2, <3>1, <3>2, Zenon
      DEF Inv, Dated, Keyed, Unloadable, OwnKey, DiskIsServed, Locked, CertIfValid
  <2> QED
    BY <2>1, <2>2, Zenon
<1>4. CASE Submits
  <2>1. job'.pc = "approve" /\ job'.crt = job.crt /\ csr'.crt = job.crt
    BY <1>4, GoesOn, Zenon DEF Submits, JobPC
  <2> QED
    BY <1>0, <1>4, <2>1, RequestStep, Zenon DEF Submits, At, JobFrame
<1>5. CASE Approves
  <2>1. job'.pc \in {"wait", "fallback"} /\ job'.crt = job.crt
    BY <1>5, GoesOn, Zenon DEF Approves, JobPC
  <2>2. csr'.crt = csr.crt /\ (csr'.state # "none" => csr.state # "none")
    BY <1>5, Zenon DEF Approves, TypeOK, Request
  <2> QED
    BY <1>0, <1>5, <2>1, <2>2, RequestStep, Zenon DEF Approves, At, JobFrame, Inv, OwnKey
<1>6. CASE Waits
  <2>1. CASE csr.state = "signed" /\ job' = [job EXCEPT !.pc = "writekey", !.crt = csr.crt]
    <3>1. job'.pc = "writekey" /\ job'.crt = csr.crt
      BY <2>1, Zenon DEF TypeOK, Job
    <3>2. csr.crt.key = job.crt.key
      BY <1>6, <2>1, Zenon DEF Waits, At, Inv, OwnKey
    <3> QED
      BY <1>0, <1>6, <3>1, <3>2, RequestStep, Zenon DEF Waits, At, JobFrame
  <2>2. CASE Goes("fallback")
    BY <1>0, <1>6, <2>2, GoesOn, RequestStep, Zenon DEF Waits, At, JobFrame, JobPC
  <2> QED
    BY <1>6, <2>1, <2>2, Zenon DEF Waits
<1>7. CASE TimesOut \/ CallFails
  <2>1. job'.pc = "fallback" /\ job'.crt = job.crt
    BY <1>7, GoesOn, Zenon DEF TimesOut, CallFails, JobPC
  <2> QED
    BY <1>0, <1>7, <2>1, RequestStep, Zenon DEF TimesOut, CallFails, At, JobFrame
<1>8. CASE WritesKey
  <2>1. ~CertIfValid /\ job.crt.key \notin {0, crtFile.key} /\ UNCHANGED <<now, crtFile, csr>>
    BY <1>8, Zenon DEF WritesKey, JobFrame, At, Inv, Unloadable, OwnKey
  <2>2. CASE keyFile' = job.crt.key /\ Goes("writecrt") /\ UNCHANGED <<held, conn, events>>
    <3>1. job'.pc = "writecrt" /\ job'.crt = job.crt /\ job' # NoJob
      BY <2>2, GoesOn, NoneType, Zenon DEF JobPC
    <3> QED
      BY <1>0, <2>1, <2>2, <3>1, Zenon
      DEF Inv, Dated, Keyed, Unloadable, OwnKey, DiskIsServed, Locked, CertIfValid
  <2>3. CASE Event /\ keyFile' \in {keyFile, 0} /\ Returns(job.crt, job.crt.key)
    <3>1. job' = NoJob
      BY <2>3, ReturnsType, JobFields, Zenon
    <3>2. ~CertIfValid'
      BY <2>1, <2>3, Zenon DEF CertIfValid, Inv, Keyed
    <3> QED
      BY <1>0, <2>1, <3>1, <3>2, EndStep, NoneType, Zenon DEF Dated, Keyed, Inv
  <2> QED
    BY <1>8, <2>2, <2>3, Zenon DEF WritesKey
<1>9. CASE WritesCrt
  <2>1. ~CertIfValid /\ job.crt.key # 0 /\ UNCHANGED <<now, keyFile, csr>>
    BY <1>9, Zenon DEF WritesCrt, JobFrame, At, Inv, Unloadable, OwnKey
  <2>2. job' = NoJob /\ held'.crt = job.crt
    BY <1>9, ReturnsType, JobFields, Zenon DEF WritesCrt
  <2>3. crtFile' \in {job.crt, crtFile, NoCrt}
    BY <1>9, Zenon DEF WritesCrt
  <2>4. Keyed' /\ Dated'
    BY <1>0, <2>1, <2>2, <2>3, NoneType, Zenon DEF Keyed, Dated, Inv
  <2>5. ~CertIfValid' \/ crtFile' = held'.crt
    BY <2>1, <2>2, <2>3, Zenon DEF CertIfValid
  <2> QED
    BY <2>1, <2>2, <2>4, <2>5, EndStep, Zenon
<1>10. CASE Generates
  <2>1. ~CertIfValid /\ UNCHANGED <<now, keyFile, crtFile, csr>>
    BY <1>10, Zenon DEF Generates, JobFrame, files, At, Inv, Unloadable
  <2>2. job' = NoJob
    BY <1>10, NewCrtType, NewKeyIsNew, ReturnsType, Zenon DEF Generates
  <2> QED
    BY <1>0, <2>1, <2>2, EndStep, NoneType, Zenon DEF Dated, Keyed, Inv, CertIfValid
<1> QED
  BY <1>1, <1>2, <1>3, <1>4, <1>5, <1>6, <1>7, <1>8, <1>9, <1>10, Zenon DEF Obtain

\* The steps of handshakes, of the cluster and of the host keep the invariant
LEMMA OtherInv ==
  ASSUME TypeOK, Inv, Next, ~(Obtain \/ CallFails)
  PROVE  Inv'
<1>1. CASE CooldownEnds \/ AddrsChange \/ \E c \in Conns : Reads(c) \/ \E a \in Addrs : Connects(c, a)
  BY <1>1, QuietStep, Zenon DEF CooldownEnds, AddrsChange, Reads, Connects, ConnFrame
<1>2. ASSUME NEW c \in Conns, Renews(c)
      PROVE  Inv'
  <2>1. job' = job \/ (job'.pc = "clearcrt" /\ job'.crt = NoCrt)
    BY <1>2, NoneType, Zenon DEF Renews, Job
  <2> QED
    BY <1>2, <2>1, QuietStep, Zenon DEF Renews, ConnFrame
<1>3. CASE Signs \/ DeniedOrDeleted
  <2>1. /\ csr'.state # "none" => csr.state # "none" /\ csr'.crt.key = csr.crt.key
        /\ csr'.crt.issued <= now
    <3>1. CASE Signs
      <4>1. csr.crt \in Crt /\ csr \in Request /\ now <= now
        BY JobFields DEF TypeOK
      <4> QED
        BY <3>1, <4>1, Zenon DEF Signs, Request, Crt
    <3>2. CASE DeniedOrDeleted
      <4>1. csr.crt.issued <= now /\ NoCSR.crt.issued <= now
        BY NoneType DEF Inv, Dated, TypeOK
      <4> QED
        BY <3>2, <4>1, NoneType, Zenon DEF DeniedOrDeleted, TypeOK, Request
    <3> QED
      BY <1>3, <3>1, <3>2, Zenon
  <2>2. UNCHANGED <<now, keyFile, crtFile, held, job>>
    BY <1>3, Zenon DEF Signs, DeniedOrDeleted, files
  <2> QED
    BY <2>1, <2>2, Zenon DEF Inv, Dated, Keyed, Unloadable, OwnKey, DiskIsServed, Locked, CertIfValid
<1>4. CASE TimePasses
  <2>1. now' = now + 1 /\ now \in Nat /\ UNCHANGED <<keyFile, crtFile, csr, held, job>>
    BY <1>4, CertAssumption DEF TimePasses, files, TypeOK
  <2>2. {crtFile.issued, csr.crt.issued, job.crt.issued} \subseteq Nat
    BY CertAssumption DEF TypeOK, Crt, Job, Request
  <2>3. Dated' /\ ~CertIfValid'
    BY <2>1, <2>2 DEF Inv, Dated, CertIfValid
  <2> QED
    BY <2>1, <2>3, Zenon DEF Inv, Keyed, Unloadable, OwnKey, DiskIsServed
<1>5. CASE Restarts
  <2>1. job' # NoJob /\ job'.pc = "load" /\ job'.crt = NoCrt /\ UNCHANGED <<now, crtFile, csr>>
    BY <1>5, NoneType, Zenon DEF Restarts, files
  <2>2. NoCrt.issued <= now
    BY NoneType DEF TypeOK
  <2> QED
    BY <2>1, <2>2, Zenon DEF Inv, Dated, Keyed, Unloadable, OwnKey, DiskIsServed, Locked
<1> QED
  BY <1>1, <1>2, <1>3, <1>4, <1>5, Zenon DEF Next

\* The inductive invariant of the certificate: none is of a later time, and between
\* loadCertIfValid and the end of writeCert nothing on disk would be loaded.
THEOREM CertInvariant == Spec => []Inv
<1>1. Init => Inv
  BY NoneType, CertAssumption
  DEF Init, Inv, Dated, Keyed, Unloadable, OwnKey, DiskIsServed, Locked, CertIfValid
<1>2. TypeOK /\ Inv /\ [Next]_vars => Inv'
  <2>1. TypeOK /\ Inv /\ UNCHANGED vars => Inv'
    BY QuietStep, Zenon DEF vars
  <2> QED
    BY <2>1, ObtainInv, OtherInv, Zenon
<1> QED
  BY <1>1, <1>2, CertTypeOK, PTL DEF Spec

\* What a restart would load is the certificate in use, whatever failed in a renewal or in
\* writeCert, for all addresses, handshakes, failures and times.
THEOREM CertDiskIsServed == Spec => []DiskIsServed
BY CertInvariant, PTL DEF Inv

=============================================================================
