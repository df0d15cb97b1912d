---------------------------- MODULE DeployFiles ----------------------------
(***************************************************************************)
(* deployProject up to the ipfs:// address of its script: zip the project  *)
(* (deploy/bundle.ts), prepend the devtools snippet (acurast-devtools),    *)
(* copy to temp_script.js and pin it (ipfs/upload.ts). Several deployments *)
(* of one directory, in one process or in several, and a machine that may  *)
(* stop. The content of a file is the deployment it was made from and how  *)
(* often the snippet was prepended.                                        *)
(***************************************************************************)
EXTENDS Naturals

CONSTANTS
  Deploys,      \* calls of deployProject(), or of uploadScript({script})
  ProjectName,  \* config.projectName of each
  None,
  MaxStops      \* bound: times the machine stops

ASSUME FilesAssumption == None \notin [of : Deploys, snippets : Nat] \cup {"ENOENT"}

VARIABLES
  kind,      \* what each deploys: an ipfs:// address, files, or a text
  bundles,   \* <bundleFolder>/<projectName>.zip
  tempFile,  \* temp_script.js
  fileAt,    \* how far each deployment is
  sent,      \* what it read of temp_script.js, or the address it was given
  reason,    \* why it failed
  met,       \* history: deployments that shared a file while both needed it
  stops

fileVars == <<kind, bundles, tempFile, fileAt, sent, reason, met, stops>>

Kinds == {"ipfs", "files", "devtools", "text"}
Bundling == {"bundled", "injected"}
Uploading == {"posting", "sent"}

FilesInit ==
  /\ kind \in [Deploys -> Kinds]
  /\ bundles = [n \in {ProjectName[d] : d \in Deploys} |-> None]
  /\ tempFile = None
  /\ fileAt = [d \in Deploys |-> "idle"]
  /\ sent = [d \in Deploys |-> None]
  /\ reason = [d \in Deploys |-> None]
  /\ met = {} /\ stops = 0

Content(d, n) == [of |-> d, snippets |-> n]

\* The deployments at one of these steps, and d, share a file from now on.
Meets(d, others) == met' = IF others = {} THEN met ELSE met \cup others \cup {d}

FileStep(d, s) == fileAt' = [fileAt EXCEPT ![d] = s]
FileFails(d, why) == FileStep(d, "failed") /\ reason' = [reason EXCEPT ![d] = why]

-----------------------------------------------------------------------------
\* resolveScript() of an address: nothing is zipped, and no snippet prepended.
PassThrough(d) ==
  /\ fileAt[d] = "idle" /\ kind[d] = "ipfs"
  /\ FileStep(d, "done")
  /\ sent' = [sent EXCEPT ![d] = Content(d, 0)]
  /\ UNCHANGED <<kind, bundles, tempFile, reason, met, stops>>

\* Mutant: a zip that is there already is taken as it is.
ZippedOnce(d, old) == IF old = None THEN Content(d, 0) ELSE old

\* writeZip() replaces the file.
Zipped(d, old) == Content(d, 0)

\* zipFolder(), which refuses a missing file, as resolveScript() does a folder
\* without entrypoint.
Bundle(d) ==
  LET n == ProjectName[d] IN
  /\ fileAt[d] = "idle" /\ kind[d] \in {"files", "devtools"}
  /\ \/ FileFails(d, "input") /\ UNCHANGED <<bundles, met>>
     \/ /\ FileStep(d, "bundled")
        /\ bundles' = [bundles EXCEPT ![n] = Zipped(d, @)]
        /\ Meets(d, {e \in Deploys \ {d} : ProjectName[e] = n /\ fileAt[e] \in Bundling})
        /\ UNCHANGED reason
  /\ UNCHANGED <<kind, tempFile, sent, stops>>

\* transformBundle(), here injectDevtoolsSnippet(): the zip is read, changed
\* and written in one go. It throws when the entrypoint is not in the zip.
Inject(d) ==
  LET n == ProjectName[d] IN
  /\ fileAt[d] = "bundled" /\ kind[d] = "devtools"
  /\ \/ FileFails(d, "entrypoint") /\ UNCHANGED bundles
     \/ /\ FileStep(d, "injected")
        /\ bundles' = [bundles EXCEPT ![n].snippets = @ + 1]
        /\ UNCHANGED reason
  /\ UNCHANGED <<kind, tempFile, sent, met, stops>>

\* uploadScript() up to the post: the copy, or the text, replaces the file.
WriteTemp(d) ==
  /\ \/ fileAt[d] = "bundled" /\ kind[d] = "files"
     \/ fileAt[d] = "injected"
     \/ fileAt[d] = "idle" /\ kind[d] = "text"
  /\ FileStep(d, "posting")
  /\ tempFile' = IF kind[d] = "text" THEN Content(d, 0) ELSE bundles[ProjectName[d]]
  /\ Meets(d, {e \in Deploys \ {d} : fileAt[e] \in Uploading})
  /\ UNCHANGED <<kind, bundles, sent, reason, stops>>

\* unlinkSync() in the catch, which throws an error of its own when the file
\* is gone.
UploadFails(d, why) ==
  /\ FileFails(d, IF tempFile = None THEN "ENOENT" ELSE why)
  /\ tempFile' = None

\* The stream that createReadStream() made opens and is read, at one moment.
ReadTemp(d) ==
  /\ fileAt[d] = "posting"
  /\ IF tempFile = None
     THEN UploadFails(d, "post") /\ UNCHANGED sent
     ELSE /\ FileStep(d, "sent")
          /\ sent' = [sent EXCEPT ![d] = tempFile]
          /\ UNCHANGED <<tempFile, reason>>
  /\ UNCHANGED <<kind, bundles, met, stops>>

\* The post is answered. unlinkSync() is inside the try: when it throws, the
\* catch unlinks once more, and a script that is pinned counts as failed.
Pinned(d) ==
  /\ fileAt[d] = "sent"
  /\ IF tempFile = None
     THEN UploadFails(d, "post")
     ELSE FileStep(d, "done") /\ tempFile' = None /\ UNCHANGED reason
  /\ UNCHANGED <<kind, bundles, sent, met, stops>>

PostFails(d) ==
  /\ fileAt[d] \in Uploading
  /\ UploadFails(d, "post")
  /\ UNCHANGED <<kind, bundles, sent, met, stops>>

\* The machine stops; the files stay.
MachineStops ==
  /\ stops < MaxStops /\ stops' = stops + 1
  /\ fileAt' = [d \in Deploys |-> IF fileAt[d] \in Bundling \cup Uploading THEN "lost"
                                                                        ELSE fileAt[d]]
  /\ UNCHANGED <<kind, bundles, tempFile, sent, reason, met>>

-----------------------------------------------------------------------------
Own(d) == Content(d, IF kind[d] = "devtools" THEN 1 ELSE 0)

\* A deployment that shared no file with another one while both needed it
\* pins its own script, with the snippet once if it asked for it, and fails
\* for a reason of its own; whatever earlier ones, or a machine that stopped,
\* left on the disk (bundle.ts:48, "they operated on stale content"). And the
\* temporary file is gone when nobody uploads, unless the machine stopped.
OwnScriptPinned ==
  /\ \A d \in Deploys \ met : /\ fileAt[d] = "done" => sent[d] = Own(d)
                              /\ reason[d] # "ENOENT"
  /\ tempFile # None => \E d \in Deploys : fileAt[d] \in Uploading \cup {"lost"}
=============================================================================
