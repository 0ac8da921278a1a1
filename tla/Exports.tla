------------------------------ MODULE Exports -------------------------------
(***************************************************************************)
(* AppendOnlyExportWriter on the host filesystem: an artifact leaves the   *)
(* sandbox as a new directory with one file in it, and a line in the       *)
(* manifest of the run.                                                    *)
(*                                                                         *)
(* A step is one system call.  A file that is open for writing is empty or *)
(* short until its last byte is written; a line of the manifest is one     *)
(* write.  Paths that the boundary policy rejects never come this far.     *)
(***************************************************************************)
EXTENDS Naturals, Sequences

CONSTANTS
    Writers,   \* callers of export_bytes
    Ids,       \* export ids
    Names,     \* names of files below the outbox
    Payloads,
    None,      \* Python's None
    Serial,    \* TRUE: an export ends before the next one begins
    MayFail,   \* TRUE: a system call may raise an I/O error
    MayCrash,  \* TRUE: the host may stop and be started again
    MaxLines   \* bound on the lines of the manifest, for TLC

Artifact == [id : Ids, name : Names]
Contents == Payloads \cup {"none", "partial"}
Export == [id : Ids, name : Names, payload : Payloads]

ASSUME ExportAssumption ==
    /\ Payloads \cap {"none", "partial"} = {}
    /\ None \notin Export
    /\ Serial \in BOOLEAN /\ MayFail \in BOOLEAN /\ MayCrash \in BOOLEAN
    /\ MaxLines \in Nat

VARIABLES
    dirs,      \* the export ids that have a directory
    file,      \* what each artifact's file holds
    manifest,  \* the lines of manifest.jsonl
    pc,        \* where each writer's call is
    export,    \* and what it exports
    receipts   \* the exports whose ExportReceipt was returned

vars == <<dirs, file, manifest, pc, export, receipts>>

Locations == {"idle", "mkdir", "prepare", "open", "write", "list"}

TypeOK ==
    /\ dirs \subseteq Ids
    /\ file \in [Artifact -> Contents]
    /\ manifest \in Seq(Artifact)
    /\ pc \in [Writers -> Locations]
    /\ export \in [Writers -> Export \cup {None}]
    /\ receipts \subseteq Export

Init ==
    /\ dirs = {}
    /\ file = [a \in Artifact |-> "none"]
    /\ manifest = <<>>
    /\ pc = [w \in Writers |-> "idle"]
    /\ export = [w \in Writers |-> None]
    /\ receipts = {}

ArtifactOf(e) == [id |-> e.id, name |-> e.name]

Goto(w, location) ==
    /\ pc' = [pc EXCEPT ![w] = location]
    /\ UNCHANGED export

Return(w) ==
    /\ pc' = [pc EXCEPT ![w] = "idle"]
    /\ export' = [export EXCEPT ![w] = None]

-----------------------------------------------------------------------------
(* export_bytes *)

(* Mutant: the file, not the directory, is looked for. *)
BeginIfNoFile(w, e) ==
    /\ pc[w] = "idle"
    /\ Serial => \A v \in Writers : pc[v] = "idle"
    /\ file[ArtifactOf(e)] = "none"
    /\ pc' = [pc EXCEPT ![w] = "mkdir"]
    /\ export' = [export EXCEPT ![w] = e]
    /\ UNCHANGED <<dirs, file, manifest, receipts>>

(* An export id that has a directory is denied. *)
BeginExport(w, e) ==
    /\ pc[w] = "idle"
    /\ Serial => \A v \in Writers : pc[v] = "idle"
    /\ e.id \notin dirs
    /\ pc' = [pc EXCEPT ![w] = "mkdir"]
    /\ export' = [export EXCEPT ![w] = e]
    /\ UNCHANGED <<dirs, file, manifest, receipts>>

(* ensure_directory: one that is there by now will do. *)
EnsureDirectory(w) ==
    /\ pc[w] = "mkdir"
    /\ dirs' = dirs \cup {export[w].id}
    /\ Goto(w, "prepare")
    /\ UNCHANGED <<file, manifest, receipts>>

(* _prepare_file, of write_bytes without overwrite. *)
PrepareFile(w) ==
    /\ pc[w] = "prepare"
    /\ IF file[ArtifactOf(export[w])] = "none" THEN Goto(w, "open") ELSE Return(w)
    /\ UNCHANGED <<dirs, file, manifest, receipts>>

OpenFile(w) ==
    /\ pc[w] = "open"
    /\ file' = [file EXCEPT ![ArtifactOf(export[w])] = "partial"]
    /\ Goto(w, "write")
    /\ UNCHANGED <<dirs, manifest, receipts>>

WriteFile(w) ==
    /\ pc[w] = "write"
    /\ file' = [file EXCEPT ![ArtifactOf(export[w])] = export[w].payload]
    /\ Goto(w, "list")
    /\ UNCHANGED <<dirs, manifest, receipts>>

(* Mutant: the manifest is opened for writing, not for appending. *)
RewriteManifest(w) ==
    /\ pc[w] = "list"
    /\ Len(manifest) < MaxLines
    /\ manifest' = <<ArtifactOf(export[w])>>
    /\ receipts' = receipts \cup {export[w]}
    /\ Return(w)
    /\ UNCHANGED <<dirs, file>>

(* append_manifest_entry, after which the caller has its receipt. *)
AppendManifestEntry(w) ==
    /\ pc[w] = "list"
    /\ Len(manifest) < MaxLines
    /\ manifest' = Append(manifest, ArtifactOf(export[w]))
    /\ receipts' = receipts \cup {export[w]}
    /\ Return(w)
    /\ UNCHANGED <<dirs, file>>

-----------------------------------------------------------------------------

(* A system call raises, and nothing that was done is undone. *)
Raises(w) ==
    /\ MayFail
    /\ pc[w] \in {"mkdir", "open", "write", "list"}
    /\ Return(w)
    /\ UNCHANGED <<dirs, file, manifest, receipts>>

Crash ==
    /\ MayCrash
    /\ pc' = [w \in Writers |-> "idle"]
    /\ export' = [w \in Writers |-> None]
    /\ UNCHANGED <<dirs, file, manifest, receipts>>

Next ==
    \/ Crash
    \/ \E w \in Writers :
          \/ \E e \in Export : BeginExport(w, e)
          \/ EnsureDirectory(w) \/ PrepareFile(w) \/ OpenFile(w) \/ WriteFile(w)
          \/ AppendManifestEntry(w) \/ Raises(w)

Spec == Init /\ [][Next]_vars

-----------------------------------------------------------------------------
(* Properties *)

(* A receipt stays true: its artifact is on the host with the bytes that   *)
(* were exported, and it is listed, whatever was exported, failed or       *)
(* retried since.                                                          *)
ReceiptsHold ==
    \A r \in receipts :
        /\ file[ArtifactOf(r)] = r.payload
        /\ \E i \in DOMAIN manifest : manifest[i] = ArtifactOf(r)

(* What the manifest lists was exported in whole, and an export id is      *)
(* listed once and has one file.                                           *)
ListedIsWhole ==
    \A i \in DOMAIN manifest :
        /\ file[manifest[i]] \in Payloads
        /\ \A j \in DOMAIN manifest : manifest[j].id = manifest[i].id => j = i
        /\ \A a \in Artifact :
              a.id = manifest[i].id /\ file[a] # "none" => a = manifest[i]

=============================================================================
