-------------------------- MODULE EdgePartsProofs --------------------------
(***************************************************************************)
(* Proofs about the files of deployments, the keys of environments, the    *)
(* devtools snippet and the VPS tunnel. What one part promises is kept by  *)
(* its own steps; a step of another part leaves its variables alone.       *)
(***************************************************************************)
EXTENDS EdgeParts, SetInduction, SequenceTheorems, FiniteSetTheorems

\* A step is one of a single part.
FilesNext ==
  \/ \E d \in Deploys : \/ PassThrough(d) \/ Bundle(d) \/ Inject(d) \/ WriteTemp(d)
                        \/ ReadTemp(d) \/ Pinned(d) \/ PostFails(d)
  \/ MachineStops

KeysNext == \E e \in Environments : Skip(e) \/ GenerateSharedSecret(e) \/ Announce(e)

LogNext ==
  (\E answer \in {"given", "empty"} : Authenticated(answer)) \/ AuthFails \/ SendLog \/ LogTick

TunnelNext ==
  \/ NoSshKey \/ StartDropbear \/ StartSslh \/ StartTunnelPy \/ TerminateEarly
  \/ TunnelStarted \/ ReportStarted \/ TunnelStartFails \/ Reset \/ NextTunnelStart
  \/ TunnelLost \/ SslhDies \/ DropbearDies \/ Terminate \/ StopTunnel \/ ShellExits

LEMMA OnePart ==
  ASSUME [Next]_vars
  PROVE  /\ FilesNext \/ UNCHANGED fileVars
         /\ KeysNext \/ UNCHANGED keyVars
         /\ LogNext \/ UNCHANGED logVars
         /\ TunnelNext \/ UNCHANGED tunnelVars
<1>1. CASE UNCHANGED vars
  BY <1>1 DEF vars
<1>2. CASE Next
  BY <1>2 DEF Next, Files, Keys, Log, Tunnel, FilesNext, KeysNext, LogNext, TunnelNext
<1>3. QED
  BY <1>1, <1>2

-----------------------------------------------------------------------------
(* The tunnel                                                                *)

Left == {"unhandled", "twice", "stop", "attempts", "answer"}
NoSslh == {"sslh", "killed"}
NoDropbear == {"ssh", "killed"}

\* In the set-up sslh runs only for an HTTP port, and a server that was started
\* runs unless there is a reason; tunnel.py is told of sslh then; no server
\* outlives start.sh; and when tunnel.py has ended with a tunnel, there is a
\* reason.
TunnelInv ==
  /\ shell = "setup" =>
       /\ py = "off" /\ (dropbear = "off" => sslh = "off") /\ (sslh = "up" => httpPort)
       /\ httpPort /\ sslh \notin {"off", "up"} => why \cap NoSslh # {}
       /\ dropbear \notin {"off", "up"} => why \cap NoDropbear # {}
  /\ target = "none" => ~tunnel /\ py \in {"off", "failed"}
  /\ shell = "serving" /\ target = "sslh" => sslh = "up" \/ why \cap NoSslh # {}
  /\ shell = "serving" /\ target \notin {"none", "sslh"} =>
       sslh # "up" /\ (dropbear = "up" \/ why \cap NoDropbear # {})
  /\ shell = "exited" => dropbear = "off" /\ sslh = "off"
  /\ py = "off" => target = "none"
  /\ py \in {"exited", "failed"} /\ tunnel => why \cap Left # {}

LEMMA TunnelInvInit == TunnelInit => TunnelInv
BY DEF TunnelInit, TunnelInv

LEMMA TunnelInvStep == TunnelInv /\ (TunnelNext \/ UNCHANGED tunnelVars) => TunnelInv'
<1> SUFFICES ASSUME TunnelInv, TunnelNext \/ UNCHANGED tunnelVars PROVE TunnelInv'
  OBVIOUS
<1> USE DEF TunnelInv
<1>0. CASE UNCHANGED tunnelVars
  BY <1>0 DEF tunnelVars
<1>1. CASE NoSshKey
  BY <1>1 DEF NoSshKey
<1>2. CASE StartDropbear
  BY <1>2 DEF StartDropbear, NoDropbear
<1>3. CASE StartSslh
  BY <1>3 DEF StartSslh, Fallback
<1>4. CASE StartTunnelPy
  BY <1>4 DEF StartTunnelPy
<1>5. CASE TerminateEarly
  BY <1>5 DEF TerminateEarly, NoSslh, NoDropbear
<1>6. CASE TunnelStarted
  BY <1>6 DEF TunnelStarted
<1>7. CASE ReportStarted
  BY <1>7 DEF ReportStarted, Left, NoSslh, NoDropbear
<1>8. CASE TunnelStartFails
  BY <1>8 DEF TunnelStartFails, Left, NoSslh, NoDropbear
<1>9. CASE Reset
  BY <1>9 DEF Reset, Left, NoSslh, NoDropbear
<1>10. CASE NextTunnelStart
  BY <1>10 DEF NextTunnelStart
<1>11. CASE TunnelLost
  BY <1>11 DEF TunnelLost
<1>12. CASE SslhDies
  BY <1>12 DEF SslhDies, NoSslh, NoDropbear, Left
<1>13. CASE DropbearDies
  BY <1>13 DEF DropbearDies, NoSslh, NoDropbear, Left
<1>14. CASE Terminate
  BY <1>14 DEF Terminate, Left
<1>15. CASE StopTunnel
  BY <1>15 DEF StopTunnel, Left
<1>16. CASE ShellExits
  BY <1>16 DEF ShellExits, Left
<1> QED
  BY <1>0, <1>1, <1>2, <1>3, <1>4, <1>5, <1>6, <1>7, <1>8,
     <1>9, <1>10, <1>11, <1>12, <1>13, <1>14, <1>15, <1>16
     DEF TunnelNext

\* A tunnel leads to the server start.sh chose, which runs but for the named ways
\* to end it (start.sh:88, 91, 142), and servers and tunnel are down when the
\* scripts have ended, but for the named ways to leave one behind
\* (tunnel.py:177, 195), whatever the number of attempts.
THEOREM TunnelKept == Spec => []TunnelServes
<1>1. Init => TunnelInv
  BY TunnelInvInit DEF Init
<1>2. TunnelInv /\ [Next]_vars => TunnelInv'
  BY OnePart, TunnelInvStep
<1>3. TunnelInv => TunnelServes
  BY DEF TunnelInv, TunnelServes, Left, NoSslh, NoDropbear
<1>4. QED
  BY <1>1, <1>2, <1>3, PTL DEF Spec

-----------------------------------------------------------------------------
(* The files of deployments                                                  *)

FileSteps == {"idle", "bundled", "injected", "posting", "sent", "done", "failed", "lost"}

FilesType ==
  /\ kind \in [Deploys -> Kinds]
  /\ bundles \in [{ProjectName[d] : d \in Deploys} -> [of : Deploys, snippets : Nat] \cup {None}]
  /\ tempFile \in [of : Deploys, snippets : Nat] \cup {None}
  /\ fileAt \in [Deploys -> FileSteps]
  /\ sent \in [Deploys -> [of : Deploys, snippets : Nat] \cup {None}]
  /\ DOMAIN reason = Deploys
  /\ met \subseteq Deploys

\* The file deployment d needs next is its own.
OwnAt(d) ==
  /\ fileAt[d] = "bundled" => bundles[ProjectName[d]] = Content(d, 0)
  /\ fileAt[d] = "injected" => bundles[ProjectName[d]] = Content(d, 1)
  /\ fileAt[d] \in Uploading => tempFile = Own(d)
  /\ fileAt[d] \in {"sent", "done"} => sent[d] = Own(d)
  /\ reason[d] # "ENOENT"

OwnInv == \A d \in Deploys \ met : OwnAt(d)

BundleInv ==
  \A d \in Deploys : /\ fileAt[d] = "bundled" => kind[d] \in {"files", "devtools"}
                     /\ fileAt[d] = "injected" => kind[d] = "devtools"
                     /\ fileAt[d] \in Bundling => bundles[ProjectName[d]] # None

\* Deployments at one file know of each other.
ApartInv ==
  \A d, e \in Deploys : d # e /\ d \notin met =>
    /\ ~(fileAt[d] \in Bundling /\ fileAt[e] \in Bundling /\ ProjectName[d] = ProjectName[e])
    /\ ~(fileAt[d] \in Uploading /\ fileAt[e] \in Uploading)

\* The temporary file is somebody's.
TempInv == tempFile # None => \E d \in Deploys : fileAt[d] \in Uploading \cup {"lost"}

FilesInv == FilesType /\ OwnInv /\ BundleInv /\ ApartInv /\ TempInv

LEMMA OwnIsContent == \A d \in Deploys : Own(d) \in [of : Deploys, snippets : Nat]
BY DEF Own, Content

LEMMA FilesInvInit == FilesInit => FilesInv
BY FilesAssumption
    DEF FilesInit, FilesInv, OwnInv, BundleInv, ApartInv, TempInv, FilesType, FileSteps,
        OwnAt, Uploading, Bundling

\* A deployment that is refused, by itself or for the file that is gone.
LEMMA UploadFailsStep ==
  ASSUME FilesInv, NEW d \in Deploys, fileAt[d] \in Uploading, UploadFails(d, "post"),
         UNCHANGED <<kind, bundles, sent, met, stops>>
  PROVE  FilesInv'
<1> USE DEF FilesInv, OwnInv, BundleInv, ApartInv, TempInv, UploadFails, FileFails, FileStep,
            Uploading
<1>1. FilesType'
  BY DEF FilesType, FileSteps
<1>2. \A e \in Deploys : fileAt'[e] = IF e = d THEN "failed" ELSE fileAt[e]
  BY DEF FilesType
<1>3. ASSUME NEW e \in Deploys \ met PROVE OwnAt(e)'
  <2>1. CASE e = d
    <3>1. tempFile # None
      BY <2>1, <1>3, FilesAssumption, OwnIsContent DEF OwnAt
    <3>2. reason'[e] = "post"
      BY <2>1, <3>1 DEF FilesType
    <3>3. QED
      BY <2>1, <1>2, <3>2 DEF OwnAt
  <2>2. CASE e # d
    <3>1. fileAt[e] \notin Uploading
      BY <2>2, <1>3
    <3>2. reason'[e] = reason[e]
      BY <2>2 DEF FilesType
    <3>3. QED
      BY <2>2, <1>2, <1>3, <3>1, <3>2 DEF OwnAt, Own, Content
  <2>3. QED
    BY <2>1, <2>2
<1>4. QED
  BY <1>1, <1>2, <1>3 DEF Bundling

LEMMA BundleStep ==
  ASSUME FilesInv, NEW d \in Deploys, Bundle(d)
  PROVE  FilesInv'
<1> USE DEF FilesInv, OwnInv, BundleInv, ApartInv, TempInv, Bundle
<1>1. CASE FileFails(d, "input") /\ UNCHANGED <<bundles, met>>
  <2>1. FilesType'
    BY <1>1 DEF FilesType, FileSteps, FileFails, FileStep
  <2>2. \A e \in Deploys : /\ fileAt'[e] = IF e = d THEN "failed" ELSE fileAt[e]
                          /\ reason'[e] = IF e = d THEN "input" ELSE reason[e]
    BY <1>1 DEF FilesType, FileFails, FileStep
  <2>3. ASSUME NEW e \in Deploys \ met PROVE OwnAt(e)'
    <3>1. OwnAt(e) /\ Own(e)' = Own(e)
      BY DEF Own, Content
    <3>2. QED
      BY <1>1, <2>2, <3>1 DEF OwnAt, Content, Uploading
  <2>4. TempInv'
    BY <2>2 DEF Uploading
  <2>5. QED
    BY <1>1, <2>1, <2>2, <2>3, <2>4 DEF Uploading, Bundling
<1>2. CASE /\ FileStep(d, "bundled")
           /\ bundles' = [bundles EXCEPT ![ProjectName[d]] = Zipped(d, @)]
           /\ Meets(d, {e \in Deploys \ {d} : /\ ProjectName[e] = ProjectName[d]
                                              /\ fileAt[e] \in Bundling})
           /\ UNCHANGED reason
  <2>1. FilesType'
    BY <1>2 DEF FilesType, FileSteps, FileStep, Zipped, Content, Meets
  <2>2. \A e \in Deploys : fileAt'[e] = IF e = d THEN "bundled" ELSE fileAt[e]
    BY <1>2 DEF FilesType, FileStep
  <2>3. met \subseteq met'
    BY <1>2 DEF Meets
  <2>4. \A e \in Deploys \ {d} : ProjectName[e] = ProjectName[d] /\ fileAt[e] \in Bundling =>
          e \in met' /\ d \in met'
    BY <1>2 DEF Meets
  <2>5. bundles'[ProjectName[d]] = Content(d, 0)
    BY <1>2 DEF FilesType, Zipped
  <2>6. \A e \in Deploys : ProjectName[e] # ProjectName[d] =>
          bundles'[ProjectName[e]] = bundles[ProjectName[e]]
    BY <1>2 DEF FilesType
  <2>7. ASSUME NEW e \in Deploys \ met' PROVE OwnAt(e)'
    <3>1. OwnAt(e)
      BY <2>3
    <3>2. Own(e)' = Own(e)
      BY DEF Own, Content
    <3>3. CASE e = d
      BY <1>2, <2>2, <2>5, <3>1, <3>3 DEF OwnAt, Content, Uploading
    <3>4. CASE e # d /\ ProjectName[e] = ProjectName[d]
      BY <1>2, <2>2, <2>4, <3>1, <3>2, <3>4 DEF OwnAt, Content, Uploading, Bundling
    <3>5. CASE e # d /\ ProjectName[e] # ProjectName[d]
      BY <1>2, <2>2, <2>6, <3>1, <3>2, <3>5 DEF OwnAt, Content, Uploading
    <3>6. QED
      BY <3>3, <3>4, <3>5
  <2>8. TempInv'
    BY <2>2 DEF Uploading
  <2>9. BundleInv'
    <3>1. Content(d, 0) # None
      BY FilesAssumption DEF Content
    <3>2. QED
      BY <1>2, <2>2, <2>5, <2>6, <3>1 DEF Bundling
  <2>10. ApartInv'
    BY <2>2, <2>3, <2>4 DEF Uploading, Bundling
  <2>11. QED
    BY <2>1, <2>7, <2>8, <2>9, <2>10
<1>3. QED
  BY <1>1, <1>2

LEMMA InjectStep ==
  ASSUME FilesInv, NEW d \in Deploys, Inject(d)
  PROVE  FilesInv'
<1> USE DEF FilesInv, OwnInv, BundleInv, ApartInv, TempInv, Inject
<1>1. CASE FileFails(d, "entrypoint") /\ UNCHANGED bundles
  <2>1. FilesType'
    BY <1>1 DEF FilesType, FileSteps, FileFails, FileStep
  <2>2. \A e \in Deploys : /\ fileAt'[e] = IF e = d THEN "failed" ELSE fileAt[e]
                          /\ reason'[e] = IF e = d THEN "entrypoint" ELSE reason[e]
    BY <1>1 DEF FilesType, FileFails, FileStep
  <2>3. ASSUME NEW e \in Deploys \ met PROVE OwnAt(e)'
    <3>1. OwnAt(e) /\ Own(e)' = Own(e)
      BY DEF Own, Content
    <3>2. QED
      BY <1>1, <2>2, <3>1 DEF OwnAt, Content, Uploading
  <2>4. TempInv'
    BY <2>2 DEF Uploading
  <2>5. QED
    BY <1>1, <2>1, <2>2, <2>3, <2>4 DEF Uploading, Bundling
<1>2. CASE /\ FileStep(d, "injected")
           /\ bundles' = [bundles EXCEPT ![ProjectName[d]].snippets = @ + 1]
           /\ UNCHANGED reason
  <2>0. /\ bundles'[ProjectName[d]] \in [of : Deploys, snippets : Nat]
        /\ bundles'[ProjectName[d]] = [bundles[ProjectName[d]] EXCEPT !.snippets = @ + 1]
    <3>1. bundles[ProjectName[d]] \in [of : Deploys, snippets : Nat]
      BY DEF FilesType, Bundling
    <3>2. [bundles[ProjectName[d]] EXCEPT !.snippets = @ + 1] \in [of : Deploys, snippets : Nat]
      BY <3>1
    <3>3. QED
      BY <1>2, <3>2 DEF FilesType
  <2>1. FilesType'
    BY <1>2, <2>0 DEF FilesType, FileSteps, FileStep
  <2>2. \A e \in Deploys : fileAt'[e] = IF e = d THEN "injected" ELSE fileAt[e]
    BY <1>2 DEF FilesType, FileStep
  <2>3. d \notin met => bundles'[ProjectName[d]] = Content(d, 1)
    <3>1. [Content(d, 0) EXCEPT !.snippets = @ + 1] = Content(d, 1)
      BY DEF Content
    <3>2. QED
      BY <2>0, <3>1 DEF OwnAt
  <2>4. \A e \in Deploys : ProjectName[e] # ProjectName[d] =>
          bundles'[ProjectName[e]] = bundles[ProjectName[e]]
    BY <1>2 DEF FilesType
  <2>5. ASSUME NEW e \in Deploys \ met PROVE OwnAt(e)'
    <3>1. OwnAt(e)
      OBVIOUS
    <3>2. Own(e)' = Own(e)
      BY DEF Own, Content
    <3>3. CASE e = d
      BY <1>2, <2>2, <2>3, <3>1, <3>3 DEF OwnAt, Content, Uploading
    <3>4. CASE e # d /\ ProjectName[e] = ProjectName[d]
      BY <1>2, <2>2, <3>1, <3>2, <3>4 DEF OwnAt, Content, Uploading, Bundling
    <3>5. CASE e # d /\ ProjectName[e] # ProjectName[d]
      BY <1>2, <2>2, <2>4, <3>1, <3>2, <3>5 DEF OwnAt, Content, Uploading
    <3>6. QED
      BY <3>3, <3>4, <3>5
  <2>6. TempInv'
    BY <2>2 DEF Uploading
  <2>7. BundleInv'
    <3>1. bundles'[ProjectName[d]] # None
      BY <2>0, FilesAssumption
    <3>2. QED
      BY <1>2, <2>2, <2>4, <3>1 DEF Bundling
  <2>8. ApartInv'
    BY <2>2 DEF Uploading, Bundling
  <2>9. QED
    BY <2>1, <2>5, <2>6, <2>7, <2>8
<1>3. QED
  BY <1>1, <1>2

LEMMA WriteTempStep ==
  ASSUME FilesInv, NEW d \in Deploys, WriteTemp(d)
  PROVE  FilesInv'
<1> USE DEF FilesInv, OwnInv, BundleInv, ApartInv, TempInv, WriteTemp
<1>1. FilesType'
  BY DEF FilesType, FileSteps, FileStep, Content, Meets, Bundling
<1>2. \A e \in Deploys : fileAt'[e] = IF e = d THEN "posting" ELSE fileAt[e]
  BY DEF FilesType, FileStep
<1>3. met \subseteq met'
  BY DEF Meets
<1>4. \A e \in Deploys \ {d} : fileAt[e] \in Uploading => e \in met' /\ d \in met'
  BY DEF Meets
<1>5. d \notin met => tempFile' = Own(d)
  BY DEF OwnAt, Own
<1>6. ASSUME NEW e \in Deploys \ met' PROVE OwnAt(e)'
  <2>1. OwnAt(e)
    BY <1>3
  <2>2. Own(e)' = Own(e)
    BY DEF Own, Content
  <2>3. CASE e = d
    BY <1>2, <1>3, <1>5, <2>1, <2>2, <2>3 DEF OwnAt, Content
  <2>4. CASE e # d
    BY <1>2, <1>4, <2>1, <2>2, <2>4 DEF OwnAt, Content
  <2>5. QED
    BY <2>3, <2>4
<1>7. BundleInv'
  BY <1>2 DEF Bundling
<1>8. ApartInv'
  BY <1>2, <1>3, <1>4 DEF Uploading, Bundling
<1>9. TempInv'
  BY <1>2 DEF Uploading
<1>10. QED
  BY <1>1, <1>6, <1>7, <1>8, <1>9

\* The steps that read or remove the temporary file.
LEMMA ReadTempStep ==
  ASSUME FilesInv, NEW d \in Deploys, ReadTemp(d)
  PROVE  FilesInv'
<1>1. CASE tempFile = None
  BY <1>1, UploadFailsStep DEF ReadTemp, Uploading
<1>2. CASE tempFile # None
  <2> USE DEF FilesInv, OwnInv, BundleInv, ApartInv, TempInv, ReadTemp
  <2>1. FilesType'
    BY <1>2 DEF FilesType, FileSteps, FileStep
  <2>2. \A e \in Deploys : /\ fileAt'[e] = IF e = d THEN "sent" ELSE fileAt[e]
                          /\ sent'[e] = IF e = d THEN tempFile ELSE sent[e]
    BY <1>2 DEF FilesType, FileStep
  <2>3. ASSUME NEW e \in Deploys \ met PROVE OwnAt(e)'
    <3>1. OwnAt(e) /\ Own(e)' = Own(e)
      BY DEF Own, Content
    <3>2. QED
      BY <1>2, <2>2, <3>1 DEF OwnAt, Content, Uploading
  <2>4. BundleInv' /\ ApartInv' /\ TempInv'
    BY <1>2, <2>2 DEF Bundling, Uploading
  <2>5. QED
    BY <2>1, <2>3, <2>4
<1>3. QED
  BY <1>1, <1>2

LEMMA PinnedStep ==
  ASSUME FilesInv, NEW d \in Deploys, Pinned(d)
  PROVE  FilesInv'
<1>1. CASE tempFile = None
  BY <1>1, UploadFailsStep DEF Pinned, Uploading
<1>2. CASE tempFile # None
  <2> USE DEF FilesInv, OwnInv, BundleInv, ApartInv, TempInv, Pinned
  <2>1. FilesType'
    BY <1>2 DEF FilesType, FileSteps, FileStep
  <2>2. \A e \in Deploys : fileAt'[e] = IF e = d THEN "done" ELSE fileAt[e]
    BY <1>2 DEF FilesType, FileStep
  <2>3. ASSUME NEW e \in Deploys \ met PROVE OwnAt(e)'
    <3>1. OwnAt(e) /\ Own(e)' = Own(e)
      BY DEF Own, Content
    <3>2. e # d => fileAt[e] \notin Uploading
      BY DEF Uploading
    <3>3. QED
      BY <1>2, <2>2, <3>1, <3>2 DEF OwnAt, Content, Uploading
  <2>4. BundleInv' /\ ApartInv' /\ TempInv'
    BY <1>2, <2>2 DEF Bundling, Uploading
  <2>5. QED
    BY <2>1, <2>3, <2>4
<1>3. QED
  BY <1>1, <1>2

LEMMA FilesInvStep == FilesInv /\ (FilesNext \/ UNCHANGED fileVars) => FilesInv'
<1> SUFFICES ASSUME FilesInv, FilesNext \/ UNCHANGED fileVars PROVE FilesInv'
  OBVIOUS
<1>1. CASE UNCHANGED fileVars
  BY <1>1 DEF FilesInv, OwnInv, BundleInv, ApartInv, TempInv, FilesType, OwnAt, Own, Content,
              fileVars
<1>2. ASSUME NEW d \in Deploys, PassThrough(d) PROVE FilesInv'
  <2> USE DEF FilesInv, OwnInv, BundleInv, ApartInv, TempInv, PassThrough
  <2>1. FilesType'
    BY <1>2 DEF FilesType, FileSteps, FileStep, Content
  <2>2. \A e \in Deploys : /\ fileAt'[e] = IF e = d THEN "done" ELSE fileAt[e]
                          /\ sent'[e] = IF e = d THEN Content(d, 0) ELSE sent[e]
    BY <1>2 DEF FilesType, FileStep
  <2>3. ASSUME NEW e \in Deploys \ met PROVE OwnAt(e)'
    <3>1. OwnAt(e) /\ Own(e)' = Own(e)
      BY <1>2 DEF Own, Content
    <3>2. Own(d) = Content(d, 0)
      BY <1>2 DEF Own
    <3>3. CASE e = d
      BY <1>2, <2>2, <3>1, <3>2, <3>3 DEF OwnAt, Uploading
    <3>4. CASE e # d
      BY <1>2, <2>2, <3>1, <3>4 DEF OwnAt, Content, Uploading
    <3>5. QED
      BY <3>3, <3>4
  <2>4. BundleInv' /\ ApartInv' /\ TempInv'
    BY <1>2, <2>2 DEF Bundling, Uploading
  <2>5. QED
    BY <1>2, <2>1, <2>3, <2>4
<1>3. ASSUME NEW d \in Deploys, PostFails(d) PROVE FilesInv'
  BY <1>3, UploadFailsStep DEF PostFails
<1>4. CASE MachineStops
  <2> USE DEF FilesInv, OwnInv, BundleInv, ApartInv, TempInv, MachineStops
  <2>1. FilesType'
    BY <1>4 DEF FilesType, FileSteps
  <2>2. \A e \in Deploys : fileAt'[e] = IF fileAt[e] \in Bundling \cup Uploading THEN "lost"
                                       ELSE fileAt[e]
    BY <1>4
  <2>3. ASSUME NEW e \in Deploys \ met PROVE OwnAt(e)'
    <3>1. OwnAt(e) /\ Own(e)' = Own(e)
      BY <1>4 DEF Own, Content
    <3>2. QED
      BY <1>4, <2>2, <3>1 DEF OwnAt, Content, Uploading, Bundling
  <2>4. BundleInv' /\ ApartInv' /\ TempInv'
    BY <1>4, <2>2 DEF Bundling, Uploading
  <2>5. QED
    BY <1>4, <2>1, <2>3, <2>4
<1>5. QED
  BY <1>1, <1>2, <1>3, <1>4, BundleStep, InjectStep, WriteTempStep, ReadTempStep, PinnedStep
     DEF FilesNext

\* A deployment that met no other at a file pins its own script, and the
\* temporary file does not outlive the uploads (ipfs/upload.ts:25-60), for any
\* number of deployments and of stops.
THEOREM FilesKept == Spec => []OwnScriptPinned
<1>1. Init => FilesInv
  BY FilesInvInit DEF Init
<1>2. FilesInv /\ [Next]_vars => FilesInv'
  BY OnePart, FilesInvStep
<1>3. FilesInv => OwnScriptPinned
  BY DEF FilesInv, OwnInv, TempInv, OwnAt, OwnScriptPinned
<1>4. QED
  BY <1>1, <1>2, <1>3, PTL DEF Spec

-----------------------------------------------------------------------------
(* The keys of environments                                                  *)

Keyed == [processor : Nat, curve : Curves, secret : Nat \cup {NoKey}, info : Nat \cup {NoKey},
          publicKey : Nat \cup {NoKey}]

KeysType ==
  /\ published \in [1..Len(Processors) -> SUBSET PubKeys]
  /\ store \in [Items -> Nat \cup {NoKey}]
  /\ lastKey \in Nat
  /\ envAt \in [Environments -> {"off", "next", "shared", "failed", "submitted"}]
  /\ turn \in [Environments -> Nat]
  /\ key \in [Environments -> Nat \cup {NoKey}]
  /\ submitted \in [Environments -> Seq(Keyed)]
  /\ torn \subseteq Curves

\* The old pair is whole or not there, and so is that of a curve, unless it is
\* known to be torn.
StoreInv ==
  /\ store[<<"publicKey", NoKey>>] = store[<<"privateKey", NoKey>>]
  /\ \A c \in Curves : /\ StoredKey("publicKey", c) \in {NoKey, StoredKey("privateKey", c)}
                       /\ StoredKey("publicKey", c) = NoKey =>
                            StoredKey("privateKey", c) = NoKey \/ c \in torn

\* A call that is on its way is at a processor, and has used the stored key.
TurnInv ==
  \A e \in Environments :
    /\ envAt[e] \in {"off", "next", "shared"} => turn[e] \in 1..Len(Processors)
    /\ envAt[e] = "shared" => /\ Curve(e) # NoKey
                              /\ key[e] = StoredKey("privateKey", Curve(e))
                              /\ key[e] # NoKey

Readable(v) == v.secret = v.info /\ v.secret = v.publicKey

SentInv == \A e \in Environments : \A i \in DOMAIN submitted[e] : Readable(submitted[e][i])

\* The processors a call has passed have their environment.
PassedInv ==
  \A e \in Environments : \A p \in 1..Len(Processors) :
    LET c == ProcessorCurve(published[p]) IN
    (p < turn[e] \/ envAt[e] = "submitted") /\ c # NoKey /\ c \notin torn =>
      \E i \in DOMAIN submitted[e] : submitted[e][i].processor = p /\ submitted[e][i].curve = c

KeysInv == KeysType /\ StoreInv /\ TurnInv /\ SentInv /\ PassedInv

LEMMA CurveType == \A names : ProcessorCurve(names) \in Curves \cup {NoKey}
BY DEF ProcessorCurve, Curves

LEMMA KeysInvInit == KeysInit => KeysInv
<1> SUFFICES ASSUME KeysInit PROVE KeysInv
  OBVIOUS
<1>1. KeysType
  BY DEF KeysInit, KeysType, Items, Halves, Curves, Keyed
<1>2. StoreInv
  BY KeysAssumption DEF KeysInit, StoreInv, StoredKey, KeyStorageId, Items, Halves, Curves
<1>3. TurnInv /\ SentInv /\ PassedInv
  BY KeysAssumption DEF KeysInit, TurnInv, SentInv, PassedInv
<1>4. QED
  BY <1>1, <1>2, <1>3 DEF KeysInv

LEMMA SkipStep ==
  ASSUME KeysInv, NEW e \in Environments, Skip(e)
  PROVE  KeysInv'
<1> USE DEF KeysInv, Skip, NextProcessor
<1>1. KeysType'
  BY DEF KeysType
<1>2. \A f \in Environments :
        /\ turn'[f] = IF f = e THEN turn[e] + 1 ELSE turn[f]
        /\ envAt'[f] = IF f # e THEN envAt[f]
                       ELSE IF turn[e] = Len(Processors) THEN "submitted" ELSE "next"
  BY DEF KeysType
<1>3. turn[e] \in 1..Len(Processors) /\ Len(Processors) \in Nat
  BY KeysAssumption DEF TurnInv
<1>4. StoreInv' /\ SentInv'
  BY DEF StoreInv, SentInv, StoredKey, KeyStorageId
<1>5. TurnInv'
  BY <1>2, <1>3 DEF TurnInv, Curve, StoredKey, KeyStorageId
<1>6. PassedInv'
  <2> SUFFICES ASSUME NEW f \in Environments, NEW p \in 1..Len(Processors),
                      p < turn'[f] \/ envAt'[f] = "submitted",
                      ProcessorCurve(published[p]) # NoKey,
                      ProcessorCurve(published[p]) \notin torn
               PROVE  p < turn[f] \/ envAt[f] = "submitted"
    BY DEF PassedInv
  <2>1. CASE f = e
    BY <1>2, <1>3, <2>1 DEF Curve, KeysType
  <2>2. CASE f # e
    BY <1>2, <2>2
  <2>3. QED
    BY <2>1, <2>2
<1>7. QED
  BY <1>1, <1>4, <1>5, <1>6

LEMMA AnnounceStep ==
  ASSUME KeysInv, NEW e \in Environments, Announce(e)
  PROVE  KeysInv'
<1> DEFINE c == Curve(e)
           public == StoredKey("publicKey", c)
           v == [processor |-> turn[e], curve |-> c, secret |-> key[e],
                 info |-> StoredKey("privateKey", c), publicKey |-> public]
<1> USE DEF KeysInv
<1>1. /\ turn[e] \in 1..Len(Processors) /\ Len(Processors) \in Nat
      /\ c \in Curves /\ key[e] = StoredKey("privateKey", c) /\ key[e] # NoKey
  BY CurveType, KeysAssumption DEF Announce, TurnInv, Curve
<1>2. /\ submitted' = IF public = NoKey THEN submitted
                      ELSE [submitted EXCEPT ![e] = Append(@, v)]
      /\ UNCHANGED <<published, store, lastKey, key, torn>>
  BY DEF Announce
<1>3. public # NoKey => public = key[e]
  BY <1>1 DEF StoreInv
<1>4. public = NoKey => c \in torn
  BY <1>1 DEF StoreInv
<1>5. key[e] \in Nat \cup {NoKey} /\ submitted[e] \in Seq(Keyed)
  BY DEF KeysType
<1>6. public # NoKey => v \in Keyed
  BY <1>1, <1>3, <1>5 DEF Keyed
<1>7. \A f \in Environments :
        /\ turn'[f] = IF f = e THEN turn[e] + 1 ELSE turn[f]
        /\ envAt'[f] = IF f # e THEN envAt[f]
                       ELSE IF turn[e] = Len(Processors) THEN "submitted" ELSE "next"
        /\ submitted'[f] = IF f = e /\ public # NoKey THEN Append(submitted[e], v)
                                                      ELSE submitted[f]
  BY <1>2 DEF KeysType, Announce, NextProcessor
<1>8. KeysType'
  BY <1>2, <1>5, <1>6 DEF KeysType, Announce, NextProcessor
<1>9. StoreInv'
  BY <1>2 DEF StoreInv, StoredKey, KeyStorageId
<1>10. TurnInv'
  BY <1>1, <1>2, <1>7 DEF TurnInv, Curve, StoredKey, KeyStorageId
<1>11. v.processor = turn[e] /\ v.curve = c /\ (public # NoKey => Readable(v))
  BY <1>1, <1>3 DEF Readable
<1> HIDE DEF v
<1>12. public # NoKey =>
         /\ DOMAIN submitted'[e] = 1..(Len(submitted[e]) + 1)
         /\ submitted'[e][Len(submitted[e]) + 1] = v
         /\ \A i \in 1..Len(submitted[e]) : submitted'[e][i] = submitted[e][i]
  <2>1. ASSUME public # NoKey PROVE submitted'[e] = Append(submitted[e], v)
    BY <1>7, <2>1
  <2>2. QED
    BY <1>5, <1>6, <2>1
<1>13. DOMAIN submitted[e] = 1..Len(submitted[e]) /\ Len(submitted[e]) \in Nat
  BY <1>5
<1> HIDE DEF public, c
<1>14. SentInv'
  <2>1. ASSUME NEW f \in Environments, NEW i \in DOMAIN submitted'[f]
        PROVE  Readable(submitted'[f][i])
    <3>1. CASE f = e /\ public # NoKey
      <4>1. i = Len(submitted[e]) + 1 \/ i \in DOMAIN submitted[e]
        BY <1>12, <1>13, <3>1
      <4>2. submitted'[f][i] = IF i \in DOMAIN submitted[e] THEN submitted[e][i] ELSE v
        BY <1>12, <1>13, <3>1, <4>1
      <4>3. QED
        BY <1>11, <3>1, <4>2 DEF SentInv
    <3>2. CASE ~(f = e /\ public # NoKey)
      BY <1>7, <3>2 DEF SentInv
    <3>3. QED
      BY <3>1, <3>2
  <2>2. QED
    BY <2>1 DEF SentInv
<1>15. PassedInv'
  <2> SUFFICES ASSUME NEW f \in Environments, NEW p \in 1..Len(Processors),
                      p < turn'[f] \/ envAt'[f] = "submitted",
                      ProcessorCurve(published[p]) # NoKey,
                      ProcessorCurve(published[p]) \notin torn
               PROVE  \E i \in DOMAIN submitted'[f] :
                        /\ submitted'[f][i].processor = p
                        /\ submitted'[f][i].curve = ProcessorCurve(published[p])
    BY <1>2 DEF PassedInv
  <2>1. CASE f = e /\ p = turn[e]
    <3>1. c = ProcessorCurve(published[p]) /\ public # NoKey
      BY <1>4, <2>1 DEF c, Curve
    <3>2. /\ Len(submitted[e]) + 1 \in DOMAIN submitted'[f]
          /\ submitted'[f][Len(submitted[e]) + 1] = v
      BY <1>12, <1>13, <2>1, <3>1
    <3>3. QED
      BY <1>11, <2>1, <3>1, <3>2
  <2>2. CASE ~(f = e /\ p = turn[e])
    <3>1. p < turn[f] \/ envAt[f] = "submitted"
      <4>1. CASE f = e
        BY <1>1, <1>7, <2>2, <4>1
      <4>2. CASE f # e
        BY <1>7, <4>2
      <4>3. QED
        BY <4>1, <4>2
    <3>2. PICK i \in DOMAIN submitted[f] :
            submitted[f][i].processor = p /\ submitted[f][i].curve = ProcessorCurve(published[p])
      BY <3>1 DEF PassedInv
    <3>3. i \in DOMAIN submitted'[f] /\ submitted'[f][i] = submitted[f][i]
      BY <1>7, <1>12, <1>13, <3>2
    <3>4. QED
      BY <3>2, <3>3
  <2>3. QED
    BY <2>1, <2>2
<1>16. QED
  BY <1>8, <1>9, <1>10, <1>14, <1>15

\* A new pair changes what is stored for its curve alone, where nothing was.
LEMMA NewPairStored ==
  ASSUME KeysInv, NEW c \in Curves, StoredKey("privateKey", c) = NoKey, NEW n \in Nat,
         NEW both \in BOOLEAN,
         store' = IF both THEN [store EXCEPT ![KeyStorageId("privateKey", c)] = n,
                                             ![KeyStorageId("publicKey", c)] = n]
                          ELSE [store EXCEPT ![KeyStorageId("privateKey", c)] = n]
  PROVE  /\ \A d \in Curves \ {c} : \A half \in Halves : StoredKey(half, d)' = StoredKey(half, d)
         /\ StoredKey("privateKey", c)' = n
         /\ StoredKey("publicKey", c)' = IF both THEN n ELSE NoKey
         /\ store'[<<"publicKey", NoKey>>] = store'[<<"privateKey", NoKey>>]
<1> USE DEF KeysInv
<1>1. /\ KeyStorageId("privateKey", c) = <<"privateKey", c>>
      /\ KeyStorageId("publicKey", c) = <<"publicKey", c>>
  BY DEF StoreInv, StoredKey, KeyStorageId
<1>2. \A i \in Items : store'[i] = IF i = <<"privateKey", c>> \/ (both /\ i = <<"publicKey", c>>)
                                  THEN n ELSE store[i]
  BY <1>1 DEF KeysType
<1>3. \A half \in Halves : store'[<<half, NoKey>>] = store[<<half, NoKey>>]
  BY <1>2, KeysAssumption DEF Items, Halves, Curves
<1>4. \A half \in Halves, d \in Curves : KeyStorageId(half, d)' = KeyStorageId(half, d)
  BY <1>3 DEF KeyStorageId
<1>5. \A half \in Halves, d \in Curves : KeyStorageId(half, d) \in {<<half, d>>, <<half, NoKey>>}
                                        /\ KeyStorageId(half, d) \in Items
  BY DEF KeyStorageId, Items
<1>6. StoredKey("publicKey", c) = NoKey
  BY DEF StoreInv
<1>7. \A half \in Halves, d \in Curves : StoredKey(half, d)' = store'[KeyStorageId(half, d)]
  BY <1>4 DEF StoredKey
<1>8. ASSUME NEW d \in Curves \ {c}, NEW half \in Halves
      PROVE  StoredKey(half, d)' = StoredKey(half, d)
  <2>1. KeyStorageId(half, d) \in Items /\ KeyStorageId(half, d)[2] \in {d, NoKey}
    BY <1>5
  <2>2. c # NoKey
    BY KeysAssumption DEF Curves
  <2>3. KeyStorageId(half, d) \notin {<<"privateKey", c>>, <<"publicKey", c>>}
    <3>1. <<"privateKey", c>>[2] = c /\ <<"publicKey", c>>[2] = c
      OBVIOUS
    <3>2. QED
      BY <2>1, <2>2, <3>1
  <2>4. store'[KeyStorageId(half, d)] = store[KeyStorageId(half, d)]
    BY <1>2, <2>1, <2>3
  <2>5. QED
    BY <1>7, <2>4 DEF StoredKey
<1>9. StoredKey("privateKey", c)' = n
  <2>1. <<"privateKey", c>> \in Items /\ "privateKey" \in Halves
    BY DEF Items, Halves
  <2>2. StoredKey("privateKey", c)' = store'[<<"privateKey", c>>]
    BY <1>1, <1>7, <2>1
  <2>3. QED
    BY <1>2, <2>1, <2>2
<1>10. StoredKey("publicKey", c)' = IF both THEN n ELSE NoKey
  <2>1. <<"publicKey", c>> \in Items /\ "publicKey" \in Halves
    BY DEF Items, Halves
  <2>2. StoredKey("publicKey", c)' = store'[<<"publicKey", c>>]
    BY <1>1, <1>7, <2>1
  <2>3. store[<<"publicKey", c>>] = NoKey
    BY <1>1, <1>6 DEF StoredKey
  <2>4. <<"publicKey", c>> # <<"privateKey", c>>
    OBVIOUS
  <2>5. QED
    BY <1>2, <2>1, <2>2, <2>3, <2>4
<1>11. QED
  BY <1>3, <1>8, <1>9, <1>10 DEF Halves, StoreInv

LEMMA GenerateStep ==
  ASSUME KeysInv, NEW e \in Environments, GenerateSharedSecret(e)
  PROVE  KeysInv'
<1> USE DEF KeysInv
<1>0. PICK c \in Curves : c = Curve(e)
  BY CurveType DEF GenerateSharedSecret, Curve
<1>1. c \in Curves /\ turn[e] \in 1..Len(Processors) /\ envAt[e] \in {"off", "next"}
  BY DEF GenerateSharedSecret, TurnInv
<1>2. UNCHANGED <<published, turn, submitted>>
  BY DEF GenerateSharedSecret
<1>3. CASE /\ StoredKey("privateKey", c) # NoKey
           /\ key' = [key EXCEPT ![e] = StoredKey("privateKey", c)]
           /\ envAt' = [envAt EXCEPT ![e] = "shared"]
           /\ UNCHANGED <<store, lastKey, torn>>
  <2>1. \A half \in Halves, d \in Curves : KeyStorageId(half, d) \in Items
    BY DEF KeyStorageId, Items
  <2>2. StoredKey("privateKey", c) \in Nat
    BY <1>1, <1>3, <2>1 DEF StoredKey, KeysType, Halves
  <2>3. KeysType'
    BY <1>2, <1>3, <2>2 DEF KeysType
  <2>4. StoreInv' /\ SentInv'
    BY <1>2, <1>3 DEF StoreInv, SentInv, StoredKey, KeyStorageId
  <2>5. \A f \in Environments : /\ envAt'[f] = IF f = e THEN "shared" ELSE envAt[f]
                               /\ key'[f] = IF f = e THEN StoredKey("privateKey", c) ELSE key[f]
    BY <1>3 DEF KeysType
  <2>6. \A d : StoredKey("privateKey", d)' = StoredKey("privateKey", d)
    BY <1>3 DEF StoredKey, KeyStorageId
  <2>7. TurnInv'
    BY <1>0, <1>1, <1>2, <1>3, <2>2, <2>5, <2>6, KeysAssumption DEF TurnInv, Curve, Curves
  <2>8. PassedInv'
    BY <1>2, <1>3, <2>5 DEF PassedInv
  <2>9. QED
    BY <2>3, <2>4, <2>7, <2>8
<1>4. ASSUME NEW both \in BOOLEAN,
             StoredKey("privateKey", c) = NoKey,
             lastKey' = lastKey + 1,
             store' = IF both THEN [store EXCEPT ![KeyStorageId("privateKey", c)] = lastKey + 1,
                                                 ![KeyStorageId("publicKey", c)] = lastKey + 1]
                              ELSE [store EXCEPT ![KeyStorageId("privateKey", c)] = lastKey + 1],
             envAt' = [envAt EXCEPT ![e] = IF both THEN "shared" ELSE "failed"],
             key' = IF both THEN [key EXCEPT ![e] = lastKey + 1] ELSE key,
             torn' = IF both THEN torn ELSE torn \cup {c}
      PROVE  KeysInv'
  <2>1. lastKey + 1 \in Nat /\ lastKey + 1 # NoKey
    BY KeysAssumption DEF KeysType
  <2>2. /\ \A d \in Curves \ {c} : \A half \in Halves : StoredKey(half, d)' = StoredKey(half, d)
        /\ StoredKey("privateKey", c)' = lastKey + 1
        /\ StoredKey("publicKey", c)' = IF both THEN lastKey + 1 ELSE NoKey
        /\ store'[<<"publicKey", NoKey>>] = store'[<<"privateKey", NoKey>>]
    <3> HIDE DEF KeysInv
    <3>1. QED
      BY <1>1, <1>4, <2>1, NewPairStored
  <2>3. KeysType'
    BY <1>1, <1>2, <1>4, <2>1 DEF KeysType
  <2>4. StoreInv'
    <3>1. ASSUME NEW d \in Curves
          PROVE  /\ StoredKey("publicKey", d)' \in {NoKey, StoredKey("privateKey", d)'}
                 /\ StoredKey("publicKey", d)' = NoKey =>
                      StoredKey("privateKey", d)' = NoKey \/ d \in torn'
      <4>1. CASE d = c
        BY <1>4, <2>1, <2>2, <4>1
      <4>2. CASE d # c
        BY <1>4, <2>2, <4>2 DEF StoreInv, Halves
      <4>3. QED
        BY <4>1, <4>2
    <3>2. QED
      BY <2>2, <3>1 DEF StoreInv
  <2>5. SentInv'
    BY <1>2 DEF SentInv
  <2>6. \A f \in Environments :
          /\ envAt'[f] = IF f = e THEN IF both THEN "shared" ELSE "failed" ELSE envAt[f]
          /\ key'[f] = IF f = e /\ both THEN lastKey + 1 ELSE key[f]
    BY <1>4 DEF KeysType
  <2>7. TurnInv'
    <3> SUFFICES ASSUME NEW f \in Environments
                 PROVE  /\ envAt'[f] \in {"off", "next", "shared"} =>
                             turn'[f] \in 1..Len(Processors)
                        /\ envAt'[f] = "shared" => /\ Curve(f)' # NoKey
                                                   /\ key'[f] = StoredKey("privateKey", Curve(f))'
                                                   /\ key'[f] # NoKey
      BY DEF TurnInv
    <3>1. Curve(f)' = Curve(f) /\ Curve(f) \in Curves \cup {NoKey}
      BY <1>2, CurveType DEF Curve
    <3>2. CASE f = e
      BY <1>0, <1>1, <1>2, <2>1, <2>2, <2>6, <3>1, <3>2, KeysAssumption DEF Curves
    <3>3. CASE f # e
      <4>1. envAt[f] = "shared" => Curve(f) # c /\ Curve(f) \in Curves
        BY <1>4, <3>1 DEF TurnInv
      <4>2. QED
        BY <1>2, <2>2, <2>6, <3>1, <3>3, <4>1 DEF TurnInv, Halves
    <3>4. QED
      BY <3>2, <3>3
  <2>8. PassedInv'
    BY <1>2, <1>4, <2>6 DEF PassedInv
  <2>9. QED
    BY <2>3, <2>4, <2>5, <2>7, <2>8
<1>5. QED
  <2>1. CASE store[KeyStorageId("privateKey", c)] # NoKey
    BY <1>0, <1>3, <2>1 DEF GenerateSharedSecret, StoredKey
  <2>2. CASE store[KeyStorageId("privateKey", c)] = NoKey
    BY <1>0, <1>4, <2>2 DEF GenerateSharedSecret, StoredKey
  <2>3. QED
    BY <2>1, <2>2

LEMMA KeysInvStep == KeysInv /\ (KeysNext \/ UNCHANGED keyVars) => KeysInv'
<1>1. KeysInv /\ UNCHANGED keyVars => KeysInv'
  <2> SUFFICES ASSUME KeysInv, UNCHANGED keyVars PROVE KeysInv'
    OBVIOUS
  <2>1. KeysType' /\ SentInv' /\ PassedInv'
    BY DEF KeysInv, KeysType, SentInv, PassedInv, keyVars
  <2>2. StoreInv' /\ TurnInv'
    BY DEF KeysInv, StoreInv, TurnInv, StoredKey, KeyStorageId, Curve, keyVars
  <2>3. QED
    BY <2>1, <2>2 DEF KeysInv
<1>2. QED
  BY <1>1, SkipStep, GenerateStep, AnnounceStep DEF KeysNext

\* What is announced is the public half of the key that was used, also with a
\* store of the old names, and no processor that can be reached is passed over
\* unless its pair is torn (env-encryption.ts:32-110), for any number of calls
\* that share a store.
THEOREM KeysKept == Spec => []EnvironmentsReadable
<1>1. Init => KeysInv
  BY KeysInvInit DEF Init
<1>2. KeysInv /\ [Next]_vars => KeysInv'
  BY OnePart, KeysInvStep
<1>3. KeysInv => EnvironmentsReadable
  BY DEF KeysInv, SentInv, Readable, PassedInv, EnvironmentsReadable
<1>4. QED
  BY <1>1, <1>2, <1>3, PTL DEF Spec
-----------------------------------------------------------------------------
(* The devtools snippet                                                      *)

\* What the stream consists of: console calls, and reports of dropped ones.
Payloads == [call : Nat] \cup [drops : Nat]

LEMMA PayloadKinds ==
  /\ \A b \in Payloads : /\ IsReport(b) => b \in [drops : Nat]
                         /\ ~IsReport(b) => b \in [call : Nat]
                         /\ Tells(b) \in Nat
  /\ \A n \in Nat : /\ Entry(n) \in Payloads /\ ~IsReport(Entry(n)) /\ Tells(Entry(n)) = 1
                    /\ Entry(n).call = n
                    /\ Report(n) \in Payloads /\ IsReport(Report(n)) /\ Tells(Report(n)) = n
<1>1. ASSUME NEW b \in [drops : Nat] PROVE IsReport(b) /\ Tells(b) \in Nat
  BY DEF IsReport, Tells
<1>2. ASSUME NEW b \in [call : Nat] PROVE ~IsReport(b) /\ Tells(b) = 1
  <2>1. DOMAIN b = {"call"}
    OBVIOUS
  <2> QED BY <2>1 DEF IsReport, Tells
<1>3. ASSUME NEW n \in Nat
      PROVE  /\ Entry(n) \in [call : Nat] /\ Entry(n).call = n
             /\ Report(n) \in [drops : Nat] /\ Report(n).drops = n
  BY DEF Entry, Report
<1>4. \A n \in Nat : IsReport(Report(n)) /\ Tells(Report(n)) = n
  BY <1>1, <1>3 DEF Tells
<1> QED BY <1>1, <1>2, <1>3, <1>4 DEF Payloads

\* The recursion of Told has a solution, so it can be unfolded.
LEMMA ToldUnfold ==
  ASSUME NEW s \in Seq(Payloads)
  PROVE  /\ Told(s) \in [0..Len(s) -> Nat] /\ Told(s)[0] = 0
         /\ \A k \in 1..Len(s) : Told(s)[k] = Told(s)[k-1] + Tells(s[k])
<1> DEFINE N == Len(s)
           step == [k \in 1..N |-> [n \in Nat |-> n + Tells(s[k])]]
           F(f) == f = [k \in 0..N |-> IF k = 0 THEN 0 ELSE f[k-1] + Tells(s[k])]
<1>1. N \in Nat /\ \A k \in 1..N : s[k] \in Payloads /\ Tells(s[k]) \in Nat
  BY ElementOfSeq, LenProperties, PayloadKinds
<1>2. step \in [1..N -> [Nat -> Nat]]
  BY <1>1
<1>3. PICK g \in [0..N -> Nat] : RecursiveUpto(g, N, 0, step)
  <2> HIDE DEF step, N, F
  <2>1. N \in Nat /\ 0 \in Nat
    BY <1>1
  <2> QED BY <2>1, <1>2, RecursionExists
<1>4. F(g)
  <2> DEFINE h == [k \in 0..N |-> IF k = 0 THEN 0 ELSE g[k-1] + Tells(s[k])]
  <2>1. ASSUME NEW k \in 0..N PROVE g[k] = h[k]
    <3>1. CASE k = 0
      BY <3>1, <1>3 DEF RecursiveUpto
    <3>2. CASE k # 0
      <4>1. k \in 1..N /\ k - 1 \in 0..N
        BY <3>2, <1>1
      <4>2. g[k-1] \in Nat
        BY <4>1
      <4> QED BY <4>1, <4>2, <1>3, <3>2 DEF RecursiveUpto
    <3> QED BY <3>1, <3>2
  <2>2. h \in [0..N -> {h[k] : k \in 0..N}]
    OBVIOUS
  <2> HIDE DEF h
  <2>3. g = h
    BY <2>1, <2>2
  <2> QED BY <2>3 DEF h
<1>5. F(CHOOSE f : F(f))
  <2> HIDE DEF F
  <2> QED BY <1>4
<1>6. Told(s) = (CHOOSE f : F(f))
  BY DEF Told
<1>7. F(Told(s))
  <2> HIDE DEF F
  <2> QED BY <1>5, <1>6
<1> HIDE DEF step
<1> DEFINE t == Told(s)
<1> HIDE DEF t
<1>8. t = [k \in 0..N |-> IF k = 0 THEN 0 ELSE t[k-1] + Tells(s[k])]
  BY <1>7 DEF t
<1>9. t[0] = 0 /\ \A k \in 1..N : t[k] = t[k-1] + Tells(s[k])
  BY <1>1, <1>8
<1> DEFINE T == {k \in 0..N : t[k] \in Nat}
<1>10. 0 \in T
  BY <1>1, <1>9
<1>11. ASSUME NEW k \in 0..N, k \in T, k < N PROVE k + 1 \in T
  <2>1. k + 1 \in 0..N /\ k + 1 \in 1..N /\ (k + 1) - 1 = k
    BY <1>1, <1>11
  <2>2. t[k+1] = t[k] + Tells(s[k+1]) /\ t[k] \in Nat /\ Tells(s[k+1]) \in Nat
    BY <1>1, <1>9, <1>11, <2>1
  <2> QED BY <2>1, <2>2
<1> HIDE DEF T
<1>12. 0..N \subseteq T
  BY <1>1, <1>10, <1>11, RangeInduction
<1>13. t \in [0..N -> Nat]
  BY <1>8, <1>12 DEF T
<1> QED BY <1>9, <1>13 DEF t

\* A payload more leaves what the earlier ones tell, and adds its own.
LEMMA ToldAppend ==
  ASSUME NEW s \in Seq(Payloads), NEW b \in Payloads
  PROVE  /\ \A k \in 0..Len(s) : Told(Append(s, b))[k] = Told(s)[k]
         /\ Told(Append(s, b))[Len(s) + 1] = Told(s)[Len(s)] + Tells(b)
<1> DEFINE N == Len(s)
           r == Append(s, b)
<1>1. /\ N \in Nat /\ r \in Seq(Payloads) /\ Len(r) = N + 1 /\ r[N+1] = b
      /\ \A k \in 1..N : r[k] = s[k]
  BY AppendProperties, LenProperties
<1>2. /\ Told(s)[0] = 0 /\ \A k \in 1..N : Told(s)[k] = Told(s)[k-1] + Tells(s[k])
  BY ToldUnfold
<1> HIDE DEF r
<1>3. Told(r)[0] = 0 /\ \A k \in 1..(N+1) : Told(r)[k] = Told(r)[k-1] + Tells(r[k])
  BY <1>1, ToldUnfold
<1> DEFINE T == {k \in 0..N : Told(r)[k] = Told(s)[k]}
<1>4. 0 \in T
  BY <1>1, <1>2, <1>3
<1>5. ASSUME NEW k \in 0..N, k \in T, k < N PROVE k + 1 \in T
  <2>1. k + 1 \in 0..N /\ k + 1 \in 1..N /\ k + 1 \in 1..(N+1) /\ (k + 1) - 1 = k
    BY <1>1, <1>5
  <2>2. Told(r)[k+1] = Told(r)[k] + Tells(r[k+1]) /\ Told(s)[k+1] = Told(s)[k] + Tells(s[k+1])
    BY <1>2, <1>3, <2>1
  <2> QED BY <1>1, <1>5, <2>1, <2>2
<1> HIDE DEF T
<1>6. 0..N \subseteq T
  BY <1>1, <1>4, <1>5, RangeInduction
<1>7. \A k \in 0..N : Told(r)[k] = Told(s)[k]
  BY <1>6 DEF T
<1>8. N + 1 \in 1..(N+1) /\ (N + 1) - 1 = N /\ N \in 0..N
  BY <1>1
<1>9. Told(r)[N+1] = Told(s)[N] + Tells(b)
  BY <1>1, <1>3, <1>7, <1>8
<1> QED BY <1>7, <1>9 DEF r

\* The calls numbered below k.
Below(un, k) == {x \in un : x < k}

\* Each call in stream s, one of c, has before it those it should, where the
\* calls un have no string.
Counted(s, c, un) ==
  /\ s \in Seq(Payloads)
  /\ \A i \in 1..Len(s) : ~IsReport(s[i]) =>
       /\ s[i].call \in 1..c
       /\ s[i].call - 1 = Told(s)[i-1] + Cardinality(Below(un, s[i].call))

Total(s) == Told(s)[Len(s)]

LEMMA CountedAppend ==
  ASSUME NEW s, NEW c \in Nat, NEW un, Counted(s, c, un), NEW b \in Payloads,
         NEW d \in Nat, c <= d,
         ~IsReport(b) => b.call \in 1..d /\ b.call - 1 = Total(s) + Cardinality(Below(un, b.call))
  PROVE  Counted(Append(s, b), d, un) /\ Total(Append(s, b)) = Total(s) + Tells(b)
<1> DEFINE N == Len(s)
           r == Append(s, b)
<1>1. /\ s \in Seq(Payloads) /\ N \in Nat /\ r \in Seq(Payloads) /\ Len(r) = N + 1
      /\ r[N+1] = b /\ \A k \in 1..N : r[k] = s[k]
  BY AppendProperties, LenProperties DEF Counted
<1>2. /\ \A k \in 0..N : Told(r)[k] = Told(s)[k]
      /\ Told(r)[N+1] = Told(s)[N] + Tells(b)
  BY <1>1, ToldAppend
<1> HIDE DEF r
<1>3. ASSUME NEW i \in 1..Len(r), ~IsReport(r[i])
      PROVE  r[i].call \in 1..d /\ r[i].call - 1 = Told(r)[i-1] + Cardinality(Below(un, r[i].call))
  <2>1. CASE i = N + 1
    <3>1. i - 1 = N /\ r[i] = b /\ N \in 0..N
      BY <1>1, <2>1
    <3>2. Told(r)[i-1] = Total(s)
      BY <1>2, <3>1 DEF Total
    <3> QED BY <1>3, <3>1, <3>2
  <2>2. CASE i # N + 1
    <3>1. i \in 1..N /\ i - 1 \in 0..N
      BY <1>1, <2>2
    <3>2. r[i] = s[i] /\ Told(r)[i-1] = Told(s)[i-1]
      BY <1>1, <1>2, <3>1
    <3>3. s[i].call \in 1..c
          /\ s[i].call - 1 = Told(s)[i-1] + Cardinality(Below(un, s[i].call))
      BY <1>3, <3>1, <3>2 DEF Counted
    <3> QED BY <3>2, <3>3
  <2> QED BY <2>1, <2>2
<1>4. Counted(r, d, un)
  BY <1>1, <1>3 DEF Counted
<1>5. Total(r) = Total(s) + Tells(b)
  BY <1>1, <1>2 DEF Total
<1> QED BY <1>4, <1>5 DEF r

\* A call more, in the stream, without a string, or dropped.
LEMMA CountedMore ==
  ASSUME NEW s, NEW c \in Nat, NEW un, un \subseteq 1..c, Counted(s, c, un)
  PROVE  /\ Counted(s, c + 1, un) /\ Counted(s, c + 1, un \cup {c + 1})
         /\ un \cup {c + 1} \subseteq 1..(c + 1)
         /\ Cardinality(un \cup {c + 1}) = Cardinality(un) + 1
         /\ Below(un, c + 1) = un
         /\ Cardinality(un) \in Nat /\ Total(s) \in Nat
<1>1. Counted(s, c + 1, un)
  BY DEF Counted
<1>2. ASSUME NEW k \in 1..c PROVE Below(un \cup {c + 1}, k) = Below(un, k)
  BY DEF Below
<1>3. Counted(s, c + 1, un \cup {c + 1})
  <2>1. ASSUME NEW i \in 1..Len(s), ~IsReport(s[i])
        PROVE  /\ s[i].call \in 1..(c + 1)
               /\ s[i].call - 1 = Told(s)[i-1] + Cardinality(Below(un \cup {c + 1}, s[i].call))
    <3>1. s[i].call \in 1..c
          /\ s[i].call - 1 = Told(s)[i-1] + Cardinality(Below(un, s[i].call))
      BY <2>1 DEF Counted
    <3>2. Below(un \cup {c + 1}, s[i].call) = Below(un, s[i].call)
      BY <1>2, <3>1
    <3> QED BY <3>1, <3>2
  <2> QED BY <2>1 DEF Counted
<1>4. IsFiniteSet(un)
  <2>1. IsFiniteSet(1..c)
    BY FS_Interval
  <2> QED BY <2>1, FS_Subset
<1>5. c + 1 \notin un
  OBVIOUS
<1>6. Cardinality(un \cup {c + 1}) = Cardinality(un) + 1
  BY <1>4, <1>5, FS_AddElement
<1>7. Below(un, c + 1) = un
  <2>1. \A x \in un : x < c + 1
    OBVIOUS
  <2> QED BY <2>1 DEF Below
<1>8. Cardinality(un) \in Nat
  BY <1>4, FS_CardinalityType
<1>9. Total(s) \in Nat
  BY ToldUnfold, LenProperties DEF Total, Counted
<1> QED BY <1>1, <1>3, <1>6, <1>7, <1>8, <1>9

\* The limit is reached while calls are dropped, and the stream and the count
\* of those account for every call.
LogInv ==
  /\ posted \in Seq(Payloads) /\ pendingLogs \in Seq(Payloads)
  /\ calls \in Nat /\ dropped \in Nat /\ unserialized \subseteq 1..calls
  /\ auth = "given" => pendingLogs = <<>>
  /\ dropped > 0 => rateBucketCount >= RateLimitMax
  /\ Counted(Stream, calls, unserialized)
  /\ calls = Total(Stream) + dropped + Cardinality(unserialized)

LEMMA LogInvInit == LogInit => LogInv
<1> SUFFICES ASSUME LogInit PROVE LogInv
  OBVIOUS
<1> USE DEF LogInit
<1>1. Stream = <<>> /\ <<>> \in Seq(Payloads) /\ Len(<<>>) = 0
  BY ConcatEmptySeq DEF Stream
<1>2. Told(<<>>)[0] = 0
  BY <1>1, ToldUnfold
<1>3. Total(Stream) = 0
  BY <1>1, <1>2 DEF Total
<1>4. Counted(Stream, 0, {})
  BY <1>1 DEF Counted
<1>5. Cardinality({}) = 0
  BY FS_EmptySet
<1> QED BY <1>1, <1>3, <1>4, <1>5 DEF LogInv

\* Entries go to the end of the stream, whether they are posted or wait.
LEMMA EnqueueAppends ==
  ASSUME LogInv, NEW entries \in Seq(Payloads), Enqueue(entries), auth' = auth
  PROVE  /\ posted' \in Seq(Payloads) /\ pendingLogs' \in Seq(Payloads)
         /\ auth' = "given" => pendingLogs' = <<>>
         /\ Stream' = Stream \o entries
<1>1. CASE auth = "given"
  <2>1. posted' = posted \o entries /\ pendingLogs' = <<>> /\ pendingLogs = <<>>
    BY <1>1 DEF Enqueue, LogInv
  <2>2. posted' \in Seq(Payloads)
    BY <2>1, ConcatProperties DEF LogInv
  <2>3. Stream = posted /\ Stream' = posted'
    BY <2>1, <2>2, ConcatEmptySeq DEF Stream, LogInv
  <2> QED BY <2>1, <2>2, <2>3
<1>2. CASE auth # "given"
  <2>1. pendingLogs' = pendingLogs \o entries /\ posted' = posted
    BY <1>2 DEF Enqueue
  <2>2. pendingLogs' \in Seq(Payloads)
    BY <2>1, ConcatProperties DEF LogInv
  <2>3. (posted \o pendingLogs) \o entries = posted \o (pendingLogs \o entries)
    BY ConcatAssociative DEF LogInv
  <2> QED BY <1>2, <2>1, <2>2, <2>3 DEF Stream, LogInv
<1> QED BY <1>1, <1>2

\* What is dropped and not reported, after the report if the window is over.
Lost(over) == IF over THEN 0 ELSE dropped

\* The report at the end of a window tells of what was dropped in it.
LEMMA ReportsCounted ==
  ASSUME LogInv, NEW over \in BOOLEAN
  PROVE  /\ Reports(over) \in Seq(Payloads) /\ Lost(over) \in Nat
         /\ Counted(Stream \o Reports(over), calls, unserialized)
         /\ calls = Total(Stream \o Reports(over)) + Lost(over) + Cardinality(unserialized)
<1> DEFINE n == dropped
<1>1. /\ Stream \in Seq(Payloads) /\ n \in Nat /\ calls \in Nat
      /\ Counted(Stream, calls, unserialized)
      /\ calls = Total(Stream) + n + Cardinality(unserialized)
      /\ Cardinality(unserialized) \in Nat /\ Total(Stream) \in Nat
  <2>1. /\ n \in Nat /\ calls \in Nat /\ Counted(Stream, calls, unserialized)
        /\ unserialized \subseteq 1..calls
        /\ calls = Total(Stream) + n + Cardinality(unserialized)
    BY DEF LogInv
  <2>2. Stream \in Seq(Payloads)
    BY <2>1 DEF Counted
  <2> HIDE DEF n
  <2>3. Cardinality(unserialized) \in Nat /\ Total(Stream) \in Nat
    BY <2>1, CountedMore
  <2> QED BY <2>1, <2>2, <2>3
<1>2. CASE over /\ dropped > 0
  <2>1. Reports(over) = <<Report(n)>> /\ Report(n) \in Payloads
    BY <1>1, <1>2, PayloadKinds DEF Reports, ReportedDrops
  <2>2. Stream \o Reports(over) = Append(Stream, Report(n))
    BY <1>1, <2>1, AppendIsConcat
  <2>3. IsReport(Report(n)) /\ Tells(Report(n)) = n
    BY <1>1, PayloadKinds
  <2>4. /\ Counted(Append(Stream, Report(n)), calls, unserialized)
        /\ Total(Append(Stream, Report(n))) = Total(Stream) + n
    BY <1>1, <2>1, <2>3, CountedAppend
  <2>5. <<Report(n)>> \in Seq(Payloads)
    BY <2>1
  <2>6. calls = (Total(Stream) + n) + 0 + Cardinality(unserialized)
    BY <1>1
  <2>7. Lost(over) = 0
    BY <1>2 DEF Lost
  <2>8. Reports(over) \in Seq(Payloads)
    BY <2>1, <2>5
  <2> QED BY <2>2, <2>4, <2>6, <2>7, <2>8
<1>3. CASE ~(over /\ dropped > 0)
  <2>1. Reports(over) = <<>>
    BY <1>3 DEF Reports, ReportedDrops
  <2>2. Stream \o Reports(over) = Stream
    BY <1>1, <2>1, ConcatEmptySeq
  <2>3. Lost(over) = n
    BY <1>1, <1>3 DEF Lost
  <2>4. Reports(over) \in Seq(Payloads)
    BY <2>1
  <2> QED BY <1>1, <2>2, <2>3, <2>4
<1> QED BY <1>2, <1>3

LEMMA SendLogKeeps ==
  ASSUME LogInv, SendLog
  PROVE  LogInv'
<1> DEFINE over == logClock - rateBucketStart >= RateLimitWindow
           un == unserialized
           c == calls
           count == IF over THEN 0 ELSE rateBucketCount
<1>1. /\ c \in Nat /\ un \subseteq 1..c /\ dropped \in Nat
      /\ dropped > 0 => rateBucketCount >= RateLimitMax
  BY DEF LogInv
<1>2. PICK s : s = Stream \o Reports(over)
  OBVIOUS
<1>3. /\ Reports(over) \in Seq(Payloads) /\ Lost(over) \in Nat
      /\ Counted(s, c, un) /\ c = Total(s) + Lost(over) + Cardinality(un)
  <2>1. over \in BOOLEAN
    OBVIOUS
  <2> HIDE DEF over
  <2> QED BY <1>2, <2>1, ReportsCounted
<1>4. /\ Counted(s, c + 1, un) /\ Counted(s, c + 1, un \cup {c + 1})
      /\ un \cup {c + 1} \subseteq 1..(c + 1)
      /\ Cardinality(un \cup {c + 1}) = Cardinality(un) + 1
      /\ Below(un, c + 1) = un
      /\ Cardinality(un) \in Nat /\ Total(s) \in Nat
  <2>1. c \in Nat /\ un \subseteq 1..c
    BY <1>1
  <2>2. Counted(s, c, un)
    BY <1>3
  <2> HIDE DEF c, un, over
  <2> QED BY <2>1, <2>2, CountedMore
<1>5. Lost(over) > 0 => count >= RateLimitMax
  BY <1>1 DEF Lost
<1>6. calls' = c + 1 /\ auth' = auth
  BY DEF SendLog
<1>7. \/ /\ count >= RateLimitMax
         /\ dropped' = Lost(over) + 1 /\ rateBucketCount' = count
         /\ Enqueue(Reports(over)) /\ unserialized' = un
      \/ /\ ~(count >= RateLimitMax)
         /\ dropped' = Lost(over) /\ rateBucketCount' = count + 1
         /\ \/ Enqueue(Reports(over) \o <<Entry(c + 1)>>) /\ unserialized' = un
            \/ Enqueue(Reports(over)) /\ unserialized' = un \cup {c + 1}
  BY <1>6 DEF SendLog, Lost
<1> HIDE DEF c, un, over, count
<1>8. ASSUME Enqueue(Reports(over))
      PROVE  /\ posted' \in Seq(Payloads) /\ pendingLogs' \in Seq(Payloads)
             /\ auth' = "given" => pendingLogs' = <<>>
             /\ Stream' = s
  BY <1>2, <1>3, <1>6, <1>8, EnqueueAppends
<1>9. CASE /\ count >= RateLimitMax
           /\ dropped' = Lost(over) + 1 /\ rateBucketCount' = count
           /\ Enqueue(Reports(over)) /\ unserialized' = un
  <2>1. dropped' \in Nat /\ un \subseteq 1..(c + 1) /\ c + 1 \in Nat
    BY <1>1, <1>3, <1>4, <1>9
  <2>2. c + 1 = Total(s) + (Lost(over) + 1) + Cardinality(un)
    BY <1>3, <1>4
  <2> QED BY <1>4, <1>6, <1>8, <1>9, <2>1, <2>2 DEF LogInv
<1>10. CASE /\ ~(count >= RateLimitMax)
            /\ dropped' = Lost(over) /\ rateBucketCount' = count + 1
            /\ Enqueue(Reports(over)) /\ unserialized' = un \cup {c + 1}
  <2>1. Lost(over) = 0 /\ c + 1 \in Nat
    BY <1>1, <1>3, <1>5, <1>10
  <2>2. c + 1 = Total(s) + Lost(over) + (Cardinality(un) + 1)
    BY <1>3, <1>4
  <2>3. dropped' = 0
    BY <1>10, <2>1
  <2> QED BY <1>4, <1>6, <1>8, <1>10, <2>1, <2>2, <2>3 DEF LogInv
<1>11. CASE /\ ~(count >= RateLimitMax)
            /\ dropped' = Lost(over) /\ rateBucketCount' = count + 1
            /\ Enqueue(Reports(over) \o <<Entry(c + 1)>>) /\ unserialized' = un
  <2> DEFINE b == Entry(c + 1)
             entries == Reports(over) \o <<b>>
  <2>1. c + 1 \in Nat
    BY <1>1
  <2>2. b \in Payloads /\ ~IsReport(b) /\ Tells(b) = 1 /\ b.call = c + 1
    BY <2>1, PayloadKinds
  <2> HIDE DEF b
  <2>3. <<b>> \in Seq(Payloads) /\ entries \in Seq(Payloads)
    BY <1>3, <2>2, ConcatProperties
  <2>4. Lost(over) = 0 /\ dropped' = 0
    BY <1>3, <1>5, <1>11
  <2>5. /\ posted' \in Seq(Payloads) /\ pendingLogs' \in Seq(Payloads)
        /\ auth' = "given" => pendingLogs' = <<>>
        /\ Stream' = Stream \o entries
    <3>1. Enqueue(entries)
      BY <1>11 DEF b
    <3> HIDE DEF entries
    <3> QED BY <1>6, <2>3, <3>1, EnqueueAppends
  <2>6. Stream' = Append(s, b)
    <3>1. Stream \in Seq(Payloads) /\ s \in Seq(Payloads)
      BY <1>3 DEF LogInv, Counted
    <3>2. Stream \o (Reports(over) \o <<b>>) = (Stream \o Reports(over)) \o <<b>>
      BY <1>3, <2>3, <3>1, ConcatAssociative
    <3>3. s \o <<b>> = Append(s, b)
      BY <2>2, <3>1, AppendIsConcat
    <3> QED BY <1>2, <2>5, <3>2, <3>3
  <2>7. b.call \in 1..(c + 1) /\ b.call - 1 = Total(s) + Cardinality(Below(un, b.call))
    <3>1. b.call - 1 = c /\ c + 1 \in 1..(c + 1)
      BY <1>1, <2>2
    <3>2. c = Total(s) + Cardinality(un)
      BY <1>3, <1>4, <2>4
    <3> QED BY <1>4, <2>2, <3>1, <3>2
  <2>8. Counted(Append(s, b), c + 1, un) /\ Total(Append(s, b)) = Total(s) + 1
    BY <1>1, <1>3, <2>1, <2>2, <2>7, CountedAppend
  <2>9. c + 1 = (Total(s) + 1) + 0 + Cardinality(un) /\ un \subseteq 1..(c + 1)
    BY <1>1, <1>3, <1>4, <2>4
  <2>10. Counted(Stream', c + 1, un) /\ c + 1 = Total(Stream') + dropped' + Cardinality(un)
    BY <2>4, <2>6, <2>8, <2>9
  <2>11. calls' = c + 1 /\ unserialized' = un
    BY <1>6, <1>11
  <2>12. ~(dropped' > 0) /\ dropped' \in Nat
    BY <2>4
  <2> QED BY <2>1, <2>5, <2>9, <2>10, <2>11, <2>12 DEF LogInv
<1> QED BY <1>7, <1>9, <1>10, <1>11

LEMMA LogInvStep == LogInv /\ (LogNext \/ UNCHANGED logVars) => LogInv'
<1> SUFFICES ASSUME LogInv, LogNext \/ UNCHANGED logVars PROVE LogInv'
  OBVIOUS
<1>1. ASSUME NEW answer \in {"given", "empty"}, Authenticated(answer) PROVE LogInv'
  <2>1. /\ posted' = posted \o pendingLogs /\ pendingLogs' = <<>>
        /\ UNCHANGED <<rateBucketCount, dropped, calls, unserialized>>
    BY <1>1 DEF Authenticated
  <2>2. posted' \in Seq(Payloads) /\ pendingLogs' \in Seq(Payloads)
    BY <2>1, ConcatProperties DEF LogInv
  <2>3. Stream' = Stream
    BY <2>1, <2>2, ConcatEmptySeq DEF Stream
  <2> QED BY <2>1, <2>2, <2>3 DEF LogInv
<1>2. CASE AuthFails
  <2>1. auth' = "failed"
        /\ UNCHANGED <<posted, pendingLogs, rateBucketCount, dropped, calls, unserialized>>
    BY <1>2 DEF AuthFails
  <2>2. Stream' = Stream
    BY <2>1 DEF Stream
  <2> QED BY <2>1, <2>2 DEF LogInv
<1>3. CASE SendLog
  BY <1>3, SendLogKeeps
<1>4. CASE LogTick \/ UNCHANGED logVars
  <2>1. UNCHANGED <<auth, posted, pendingLogs, rateBucketCount, dropped, calls, unserialized>>
    BY <1>4 DEF LogTick, logVars
  <2>2. Stream' = Stream
    BY <2>1 DEF Stream
  <2> QED BY <2>1, <2>2 DEF LogInv
<1> QED BY <1>1, <1>2, <1>3, <1>4 DEF LogNext

\* No console call is lost in silence, nor out of order: the stream accounts
\* for each, with any rate limit and any number of calls, and nothing waits
\* once there is a key (devtools-snippet.ts:78-150).
THEOREM LogsKept == Spec => []LogsAccountedFor
<1>1. Init => LogInv
  BY LogInvInit DEF Init
<1>2. LogInv /\ [Next]_vars => LogInv'
  BY OnePart, LogInvStep
<1>3. LogInv => LogsAccountedFor
  <2> SUFFICES ASSUME LogInv PROVE LogsAccountedFor
    OBVIOUS
  <2>1. /\ Counted(Stream, calls, unserialized)
        /\ calls = Total(Stream) + dropped + Cardinality(unserialized)
        /\ auth = "given" => pendingLogs = <<>>
    BY DEF LogInv
  <2>2. ASSUME NEW i \in DOMAIN Stream, ~IsReport(Stream[i])
        PROVE  Stream[i].call - 1
                 = Told(Stream)[i-1] + Cardinality(Unserialized(Stream[i].call))
    <3>1. i \in 1..Len(Stream)
      BY <2>1, <2>2, LenProperties DEF Counted
    <3>2. Unserialized(Stream[i].call) = Below(unserialized, Stream[i].call)
      BY DEF Unserialized, Below
    <3> QED BY <2>1, <2>2, <3>1, <3>2 DEF Counted
  <2> QED BY <2>1, <2>2 DEF LogsAccountedFor, Total
<1>4. QED
  BY <1>1, <1>2, <1>3, PTL DEF Spec

=============================================================================
