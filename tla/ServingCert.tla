----------------------------- MODULE ServingCert -----------------------------
(***************************************************************************)
(* The TLS certificate of a pawn's API server (internal/pki, and obtainCert *)
(* in internal/server).  It is read from disk, or requested from the       *)
(* cluster, self-approved and kept on disk, or signed on the spot when the *)
(* cluster does not answer.  The CertHolder asks for a new one when a      *)
(* client connects to a name or address that the certificate lacks: under  *)
(* its lock, and at most once in a cooldown.                               *)
(***************************************************************************)
EXTENDS Naturals, FiniteSets

CONSTANTS Addrs,      \* the addresses that the host may have and clients connect to
          Conns,      \* bound: handshakes at a time
          MaxEvents,  \* bound: failures, crashes and changes of the host's addresses
          MaxNow      \* bound: the times a certificate comes close to its end

ASSUME CertAssumption == MaxEvents \in Nat /\ MaxNow \in Nat

VARIABLES
  addrs,    \* the addresses of the host
  now,      \* a certificate of an earlier time has less than 30 days left
  keyFile, crtFile, \* the two files under pki/
  csr,      \* the CertificateSigningRequest of the last attempt
  held,     \* CertHolder.cert: the certificate and the key it is served with
  cooling,  \* did the last renewal begin less than a cooldown ago?
  job,      \* obtainCert, of the start ("boot") or of a handshake, which holds CertHolder.mu
  conn,     \* GetCertificate: what was asked for, and the addresses of the certificate at hand
  events

files == <<keyFile, crtFile>>
vars == <<addrs, now, files, csr, held, cooling, job, conn, events>>

\* Keys are told apart as far as files and memory hold them
Keys == 1..4
NoCrt == [key |-> 0, sans |-> {}, issued |-> 0]
NoCSR == [state |-> "none", crt |-> NoCrt]
NoJob == [who |-> "none", pc |-> "idle", crt |-> NoCrt]
NoConn == [pc |-> "idle", name |-> "none", sans |-> {}]
Boot == [NoJob EXCEPT !.who = "boot", !.pc = "load"]

Event == events < MaxEvents /\ events' = events + 1

-----------------------------------------------------------------------------
(***************************************************************************)
(* obtainCert and RequestServingCert.                                      *)
(***************************************************************************)
At(pc) == job.pc = pc
Goes(pc) == job' = [job EXCEPT !.pc = pc]
JobFrame == UNCHANGED <<addrs, now, cooling>>

\* The certificate is served; a handshake that asked for it is answered with it
Returns(crt, key) ==
  /\ held' = [crt |-> crt, key |-> key]
  /\ job' = NoJob
  /\ conn' = [c \in Conns |-> IF c = job.who THEN [conn[c] EXCEPT !.pc = "idle", !.sans = crt.sans]
                              ELSE conn[c]]

\* GenerateKey and collectIPs: a new key, and every address of the host
NewKey == CHOOSE k \in Keys : k \notin {keyFile, crtFile.key, held.key}
NewCrt == [key |-> NewKey, sans |-> addrs, issued |-> now]

\* loadCertIfValid: LoadX509KeyPair refuses a key that is not the certificate's
CertIfValid == crtFile # NoCrt /\ keyFile = crtFile.key /\ crtFile.issued = now

Loads ==
  /\ At("load")
  /\ IF CertIfValid THEN Returns(crtFile, keyFile)
     ELSE job' = [job EXCEPT !.pc = "submit", !.crt = NewCrt] /\ UNCHANGED <<held, conn>>
  /\ JobFrame /\ UNCHANGED <<files, csr, events>>

Submits ==
  /\ At("submit")
  /\ csr' = [state |-> "pending", crt |-> job.crt]
  /\ Goes("approve")
  /\ JobFrame /\ UNCHANGED <<files, held, conn, events>>

\* approveCSR reads the request and adds the condition; one that was denied or deleted stays so
Approves ==
  /\ At("approve")
  /\ \/ csr.state = "pending" /\ csr' = [csr EXCEPT !.state = "approved"] /\ Goes("wait")
     \/ csr.state # "pending" /\ Goes("fallback") /\ UNCHANGED csr
  /\ JobFrame /\ UNCHANGED <<files, held, conn, events>>

\* waitForCert: the certificate is issued, or the request is denied or deleted
Waits ==
  /\ At("wait")
  /\ \/ csr.state = "signed"
        /\ job' = [job EXCEPT !.pc = "writekey", !.crt = csr.crt]
     \/ csr.state \in {"none", "denied"} /\ Goes("fallback")
  /\ JobFrame /\ UNCHANGED <<files, csr, held, conn, events>>

\* Mutant: the wait has no end
WaitsOn == FALSE /\ UNCHANGED vars

\* The five minutes are over
TimesOut ==
  /\ At("wait") /\ csr.state \in {"pending", "approved"}
  /\ Goes("fallback")
  /\ JobFrame /\ UNCHANGED <<files, csr, held, conn, events>>

\* A call of the API server fails, or the watch is closed
CallFails ==
  /\ job.pc \in {"submit", "approve", "wait"} /\ Event
  /\ Goes("fallback")
  /\ JobFrame /\ UNCHANGED <<files, csr, held, conn>>

\* writeCert: the key and then the certificate.  Its error is logged, and what it was writing may
\* be cut off
WritesKey ==
  /\ At("writekey")
  /\ \/ /\ keyFile' = job.crt.key /\ Goes("writecrt")
        /\ UNCHANGED <<held, conn, events>>
     \/ /\ Event /\ keyFile' \in {keyFile, 0}
        /\ Returns(job.crt, job.crt.key)
  /\ JobFrame /\ UNCHANGED <<crtFile, csr>>

WritesCrt ==
  /\ At("writecrt")
  /\ \/ crtFile' = job.crt /\ UNCHANGED events
     \/ crtFile' \in {crtFile, NoCrt} /\ Event
  /\ Returns(job.crt, job.crt.key)
  /\ JobFrame /\ UNCHANGED <<keyFile, csr>>

\* GenerateCert, signed with the local CA or with its own key: it is not kept on disk
Generates ==
  /\ At("fallback")
  /\ Returns(NewCrt, NewCrt.key)
  /\ JobFrame /\ UNCHANGED <<files, csr, events>>

-----------------------------------------------------------------------------
(***************************************************************************)
(* CertHolder.GetCertificate, of handshake c.                              *)
(***************************************************************************)
Locked == job # NoJob
ConnFrame == UNCHANGED <<addrs, now, csr, held, events>>

Connects(c, a) ==
  /\ conn[c].pc = "idle" /\ held.key # 0
  /\ conn' = [conn EXCEPT ![c] = [pc |-> "read", name |-> a, sans |-> {}]]
  /\ ConnFrame /\ UNCHANGED <<files, cooling, job>>

covers(c) == conn[c].name \in held.crt.sans

\* The certificate is read under the lock that a renewal holds; one that covers the name is the
\* answer
Reads(c) ==
  /\ conn[c].pc = "read" /\ ~Locked
  /\ conn' = [conn EXCEPT ![c].pc = IF covers(c) THEN "idle" ELSE "renew", ![c].sans = held.crt.sans]
  /\ ConnFrame /\ UNCHANGED <<files, cooling, job>>

\* Mutant: obtainCert, which finds the certificate on disk
RenewsFromDisk(c) ==
  /\ conn[c].pc = "renew" /\ ~Locked
  /\ IF cooling THEN conn' = [conn EXCEPT ![c].pc = "idle"] /\ UNCHANGED <<cooling, job>>
     ELSE /\ cooling' = TRUE /\ job' = [Boot EXCEPT !.who = c]
          /\ UNCHANGED conn
  /\ ConnFrame /\ UNCHANGED files

\* tryRenew: within the cooldown the answer is the certificate that was read before
Renews(c) ==
  /\ conn[c].pc = "renew" /\ ~Locked
  /\ IF cooling THEN conn' = [conn EXCEPT ![c].pc = "idle"] /\ UNCHANGED <<cooling, job>>
     ELSE /\ cooling' = TRUE /\ job' = [Boot EXCEPT !.who = c, !.pc = "clearcrt"]
          /\ UNCHANGED conn
  /\ ConnFrame /\ UNCHANGED files

\* Mutant: a new request is made while the files stay
ClearsNothing ==
  /\ At("clearcrt") /\ job' = [job EXCEPT !.pc = "submit", !.crt = NewCrt]
  /\ ConnFrame /\ UNCHANGED <<files, cooling, conn>>

\* obtainCertFresh removes the two files first
ClearsCrt ==
  /\ At("clearcrt") /\ crtFile' = NoCrt /\ Goes("clearkey")
  /\ ConnFrame /\ UNCHANGED <<keyFile, cooling, conn>>

ClearsKey ==
  /\ At("clearkey") /\ keyFile' = 0 /\ Goes("load")
  /\ ConnFrame /\ UNCHANGED <<crtFile, cooling, conn>>

CooldownEnds ==
  /\ cooling /\ cooling' = FALSE
  /\ ConnFrame /\ UNCHANGED <<files, job, conn>>

-----------------------------------------------------------------------------
(***************************************************************************)
(* The cluster, the host and the daemon.                                   *)
(***************************************************************************)
\* The signer of the kube-controller-manager: it may take its time, or not be there
Signs ==
  /\ csr.state = "approved" /\ csr' = [csr EXCEPT !.state = "signed", !.crt.issued = now]
  /\ UNCHANGED <<addrs, now, files, held, cooling, job, conn, events>>

DeniedOrDeleted ==
  /\ csr.state \in {"pending", "approved"} /\ Event
  /\ \/ csr.state = "pending" /\ csr' = [csr EXCEPT !.state = "denied"]
     \/ csr' = NoCSR
  /\ UNCHANGED <<addrs, now, files, held, cooling, job, conn>>

AddrsChange ==
  /\ Event /\ addrs' \in SUBSET Addrs \ {{}, addrs}
  /\ UNCHANGED <<now, files, csr, held, cooling, job, conn>>

TimePasses ==
  /\ now < MaxNow /\ now' = now + 1
  /\ UNCHANGED <<addrs, files, csr, held, cooling, job, conn, events>>

\* The process dies, and NewPawnServer begins with obtainCert
Restarts ==
  /\ Event
  /\ held' = [crt |-> NoCrt, key |-> 0] /\ cooling' = FALSE
  /\ job' = Boot /\ conn' = [c \in Conns |-> NoConn]
  /\ UNCHANGED <<addrs, now, files, csr>>

Init ==
  /\ addrs \in SUBSET Addrs \ {{}} /\ now = 0 /\ keyFile = 0 /\ crtFile = NoCrt
  /\ csr = NoCSR /\ held = [crt |-> NoCrt, key |-> 0] /\ cooling = FALSE
  /\ job = Boot /\ conn = [c \in Conns |-> NoConn] /\ events = 0

Obtain ==
  \/ ClearsCrt \/ ClearsKey \/ Loads \/ Submits \/ Approves \/ Waits \/ TimesOut
  \/ WritesKey \/ WritesCrt \/ Generates

Next ==
  \/ Obtain \/ CallFails \/ CooldownEnds
  \/ \E c \in Conns : Reads(c) \/ Renews(c) \/ \E a \in Addrs : Connects(c, a)
  \/ Signs \/ DeniedOrDeleted \/ AddrsChange \/ TimePasses \/ Restarts

Spec == Init /\ [][Next]_vars

\* obtainCert's calls and its wait end, time passes, and the mutex of Go starves nobody
FairSpec ==
  /\ Spec /\ WF_vars(Obtain) /\ WF_vars(CooldownEnds)
  /\ \A c \in Conns : SF_vars(Reads(c)) /\ SF_vars(Renews(c))

-----------------------------------------------------------------------------
Crt == [key : {0} \cup Keys, sans : SUBSET Addrs, issued : 0..MaxNow]
Request == [state : {"none", "pending", "approved", "signed", "denied"}, crt : Crt]
Served == [crt : Crt, key : {0} \cup Keys]
JobPC == {"idle", "clearcrt", "clearkey", "load", "submit", "approve", "wait", "writekey", "writecrt", "fallback"}
Job == [who : Conns \cup {"none", "boot"}, pc : JobPC, crt : Crt]
Handshake == [pc : {"idle", "read", "renew"}, name : Addrs \cup {"none"}, sans : SUBSET Addrs]

TypeOK ==
  /\ addrs \in SUBSET Addrs /\ now \in 0..MaxNow /\ events \in 0..MaxEvents /\ cooling \in BOOLEAN
  /\ keyFile \in {0} \cup Keys /\ crtFile \in Crt /\ csr \in Request /\ held \in Served
  /\ job \in Job /\ conn \in [Conns -> Handshake]

\* A restart never brings back an older certificate than the one that was served: whatever failed
\* in a renewal or in writeCert, the disk holds the certificate in use or none that would be loaded.
DiskIsServed == ~Locked /\ CertIfValid => crtFile = held.crt

\* "Otherwise, a renewal is attempted (rate-limited) and the result is returned": when clients go on
\* connecting to an address that the host has got for good, they are in the end always answered with
\* a certificate for it, whether the cluster signs or not.
AnswersCover ==
  \A c \in Conns, a \in Addrs :
    <>[](a \in addrs) /\ []<>(conn[c].pc = "read" /\ conn[c].name = a)
      => <>[](conn[c].pc = "idle" /\ conn[c].name = a => a \in conn[c].sans)

\* Every handshake is answered although GetCertificate waits for a lock that is held over the whole
\* request: the five minutes of waitForCert bound it.
HandshakesEnd == \A c \in Conns : []<>(conn[c].pc = "idle")

=============================================================================
