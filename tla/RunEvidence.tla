----------------------------- MODULE RunEvidence -----------------------------
(***************************************************************************)
(* The evidence of one run: its reproducibility manifest, the link of each *)
(* cycle to the audit ledger and to the window of the log that holds its   *)
(* entries, and the lookup that a proof of the cycle starts from.  The     *)
(* host logs a cycle's entries, appends its event to the ledger and, when  *)
(* both have returned, links the cycle to what they returned.              *)
(*                                                                         *)
(* create_run_manifest and link_cycle_to_audit are one step each: what     *)
(* they read before they write their file never changes once it is there.  *)
(***************************************************************************)
EXTENDS AuditLedger

CONSTANTS
    EntriesPerBatch,   \* those that a cycle logs
    MaxEntries,        \* bound: the lines a log may grow to
    Torn,              \* what a write that broke off has left
    Manifests          \* what the manifest of the run may say

VARIABLES
    bundle, entries, open, batch, first,   \* the log bundle
    manifest,                              \* the file of the run's manifest
    link                                   \* the file of each cycle's link

(* The ledger has one event of each cycle, and the event stands for the    *)
(* cycle.                                                                  *)
INSTANCE LogCapture WITH Cycles <- Events

EvidenceConstants == LogConstants /\ {None, Torn} \cap Manifests = {}

ASSUME EvidenceAssumption == EvidenceConstants

logVars == <<bundle, entries, open, batch, first>>
papers == <<manifest, link>>
evidenceVars == <<logVars, vars, papers>>

(* The window of a link; its audit_event_refs are the event of its cycle.  *)
CycleAuditLink == [start : Nat \ {0}, end : Nat \ {0}]

(* The file of the manifest: absent, broken off, or what it says.          *)
RunStartManifest == {None, Torn} \cup Manifests

EvidenceTypeOK ==
    /\ LogTypeOK /\ TypeOK
    /\ manifest \in RunStartManifest
    /\ link \in [Events -> CycleAuditLink \cup {None, Torn}]

EvidenceInit ==
    /\ LogInit /\ Init
    /\ manifest = None
    /\ link = [c \in Events |-> None]

-----------------------------------------------------------------------------
(* Mutant: a file that is there is written again. *)
LeftOver(old, new) == {new} \cup IF MayFail THEN {old, Torn} ELSE {}

(* What write_json may leave where old was: it writes over nothing, and    *)
(* may break off.                                                          *)
Left(old, new) ==
    IF old # None THEN {old} ELSE {new} \cup IF MayFail THEN {None, Torn} ELSE {}

CreateRunManifest(m) ==
    /\ manifest' \in Left(manifest, m)
    /\ UNCHANGED <<logVars, vars, link>>

(* Mutant: the manifest is looked for, and not read. *)
ManifestExists == manifest # None

(* read_run_manifest *)
ManifestReads == manifest \notin {None, Torn}

Linkable(c) ==
    batch[c] = "returned" /\ pc[c] = "returned" /\ ManifestReads

LinkCycleToAudit(c) ==
    /\ Linkable(c)
    /\ \E l \in Left(link[c], LogAppendReceipt(c)) : link' = [link EXCEPT ![c] = l]
    /\ UNCHANGED <<logVars, vars, manifest>>

(* The process stops.  None of its calls goes on, whatever they write.     *)
LedgerStops ==
    \/ Crash
    \/ (\A c \in Events : pc[c] # "write") /\ UNCHANGED vars

EvidenceStops ==
    \/ UNCHANGED papers
    \/ manifest = None /\ manifest' = Torn /\ UNCHANGED link
    \/ /\ \E c \in Events : /\ Linkable(c) /\ link[c] = None
                            /\ link' = [link EXCEPT ![c] = Torn]
       /\ UNCHANGED manifest

HostCrash == MayCrash /\ LogStops /\ LedgerStops /\ EvidenceStops

EvidenceNext ==
    \/ LogNext /\ UNCHANGED <<vars, papers>>
    \/ /\ \E c \in Events : \/ ReadLast(c)
                            \/ Write(c) \/ WriteFails(c)
       /\ UNCHANGED <<logVars, papers>>
    \/ \E m \in Manifests : CreateRunManifest(m)
    \/ \E c \in Events : LinkCycleToAudit(c)
    \/ HostCrash

EvidenceSpec == EvidenceInit /\ [][EvidenceNext]_evidenceVars

-----------------------------------------------------------------------------
(* Properties *)

Linked == {c \in Events : link[c] \notin {None, Torn}}

(* lookup_cycle_proof_evidence returns, and does not raise. *)
Provable(c) ==
    /\ manifest \in Manifests /\ c \in Linked
    /\ Verifies(file) /\ \E i \in 1 .. Len(file) : file[i].event = c
    /\ entries # <<>>

(* One call at a time, the window a link names holds the entries of its    *)
(* cycle and no others, each number once, as long as the log can be read:  *)
(* whatever broke off before and was logged again, and whatever is logged  *)
(* or breaks off later.                                                    *)
WindowIsOwn ==
    Serial /\ LogReadable =>
        \A c \in Linked : \A n \in link[c].start .. link[c].end :
            \E i \in 1 .. Len(entries) :
                /\ entries[i] = [by |-> c, sequence |-> n]
                /\ \A j \in 1 .. Len(entries) :
                      entries[j].sequence = n => j = i

(* A cycle that was linked can be proven whenever the audit chain verifies.*)
LinkedIsProvable ==
    Verifies(file) => \A c \in Linked : Provable(c)

(* What has been proven stays so, by the same manifest and the same link,  *)
(* whatever is tried again, unless the audit chain itself is broken.       *)
ProvenStays ==
    [][\A c \in Events : Provable(c) =>
          /\ UNCHANGED <<manifest, link[c]>>
          /\ Provable(c)' \/ ~Verifies(file)']_evidenceVars

===============================================================================
