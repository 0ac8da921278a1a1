--------------------------- MODULE Exports_proofs ---------------------------
(***************************************************************************)
(* One export at a time, receipts stay true and the manifest lists what is *)
(* whole, for any number of writers, ids, names and payloads, whatever     *)
(* raises and whenever the host stops.                                     *)
(***************************************************************************)
EXTENDS Exports, TLAPS

(* At most one writer is in a call. *)
OneCall ==
    \A v, w \in Writers : pc[v] # "idle" /\ pc[w] # "idle" => v = w

(* A file is in the directory of its export id. *)
FilesHaveDirs ==
    \A a \in Artifact : file[a] # "none" => a.id \in dirs

(* What a call knows at each of its locations: its id is not listed, and   *)
(* there is no other file under it.                                        *)
CallFits(w) ==
    /\ export[w] \in Export
    /\ (pc[w] = "mkdir") <=> (export[w].id \notin dirs)
    /\ \A i \in DOMAIN manifest : manifest[i].id # export[w].id
    /\ \A a \in Artifact :
          a.id = export[w].id /\ file[a] # "none" =>
              a = ArtifactOf(export[w]) /\ pc[w] \in {"write", "list"}
    /\ pc[w] = "list" => file[ArtifactOf(export[w])] = export[w].payload

CallsFit == \A w \in Writers : pc[w] # "idle" => CallFits(w)

ExportInv ==
    TypeOK /\ OneCall /\ FilesHaveDirs /\ CallsFit /\ ListedIsWhole /\ ReceiptsHold

-----------------------------------------------------------------------------

LEMMA ArtifactFields ==
    ASSUME NEW e \in Export
    PROVE  /\ ArtifactOf(e) \in Artifact
           /\ ArtifactOf(e).id = e.id
           /\ e.payload \in Payloads
           /\ e.payload # "none"
BY ExportAssumption DEF ArtifactOf, Artifact, Export

LEMMA InitInv == Init => ExportInv
BY DEF Init, ExportInv, TypeOK, OneCall, FilesHaveDirs, CallsFit, ListedIsWhole,
       ReceiptsHold, Contents, Locations

(* A step that leaves the files, the manifest and the receipts alone.      *)
LEMMA NothingExported ==
    ASSUME ExportInv, UNCHANGED <<file, manifest, receipts>>
    PROVE  ListedIsWhole' /\ ReceiptsHold'
BY DEF ExportInv, ListedIsWhole, ReceiptsHold

(* A call ends, or all do.                                                 *)
LEMMA CallsEnd ==
    ASSUME ExportInv, UNCHANGED <<dirs, file, manifest, receipts>>,
           pc' \in [Writers -> Locations],
           export' \in [Writers -> Export \cup {None}],
           \A v \in Writers : pc'[v] # "idle" =>
               pc'[v] = pc[v] /\ export'[v] = export[v]
    PROVE  ExportInv'
<1>1. TypeOK' /\ OneCall' /\ FilesHaveDirs'
  BY DEF ExportInv, TypeOK, OneCall, FilesHaveDirs
<1>2. CallsFit'
  BY DEF ExportInv, CallsFit, CallFits
<1>3. ListedIsWhole' /\ ReceiptsHold'
  BY NothingExported
<1> QED
  BY <1>1, <1>2, <1>3 DEF ExportInv

(* What the steps of one call have in common.                              *)
LEMMA OthersAreIdle ==
    ASSUME ExportInv, NEW w \in Writers, pc[w] # "idle"
    PROVE  /\ \A v \in Writers : v # w => pc[v] = "idle"
           /\ CallFits(w) /\ export[w] \in Export
BY DEF ExportInv, OneCall, CallsFit, CallFits

(* A call goes on to its next location.                                    *)
LEMMA CallGoesOn ==
    ASSUME ExportInv, NEW w \in Writers, pc[w] # "idle",
           NEW l \in Locations, Goto(w, l)
    PROVE  /\ pc' \in [Writers -> Locations] /\ pc'[w] = l
           /\ OneCall'
           /\ CallFits(w)' => CallsFit'
<1>1. \A v \in Writers : v # w => pc[v] = "idle"
  BY OthersAreIdle
<1>2. pc' \in [Writers -> Locations] /\ pc'[w] = l
      /\ \A v \in Writers : v # w => pc'[v] = "idle"
  BY <1>1 DEF Goto, ExportInv, TypeOK
<1> QED
  BY <1>2 DEF OneCall, CallsFit

LEMMA BeginStep ==
    ASSUME Serial, ExportInv, NEW w \in Writers, NEW e \in Export,
           BeginExport(w, e)
    PROVE  ExportInv'
<1>1. /\ pc' \in [Writers -> Locations] /\ export' \in [Writers -> Export \cup {None}]
      /\ \A v \in Writers : v # w => pc'[v] = "idle"
      /\ pc'[w] = "mkdir" /\ export'[w] = e
  BY DEF BeginExport, ExportInv, TypeOK, Locations
<1>2. TypeOK' /\ OneCall' /\ FilesHaveDirs'
  BY <1>1 DEF BeginExport, ExportInv, TypeOK, OneCall, FilesHaveDirs
<1>3. \A a \in Artifact : a.id = e.id => file[a] = "none"
  BY DEF BeginExport, ExportInv, FilesHaveDirs
<1>4. \A i \in DOMAIN manifest : manifest[i].id # e.id
  <2> SUFFICES ASSUME NEW i \in DOMAIN manifest, manifest[i].id = e.id
               PROVE  FALSE
    OBVIOUS
  <2>1. manifest[i] \in Artifact
    BY DEF ExportInv, TypeOK
  <2>2. file[manifest[i]] # "none"
    BY ExportAssumption DEF ExportInv, ListedIsWhole
  <2> QED
    BY <1>3, <2>1, <2>2
<1>5. CallFits(w)'
  BY <1>1, <1>3, <1>4 DEF CallFits, BeginExport
<1>6. CallsFit'
  BY <1>1, <1>5 DEF CallsFit
<1>7. ListedIsWhole' /\ ReceiptsHold'
  BY NothingExported DEF BeginExport
<1> QED
  BY <1>2, <1>6, <1>7 DEF ExportInv

LEMMA DirectoryStep ==
    ASSUME ExportInv, NEW w \in Writers, EnsureDirectory(w)
    PROVE  ExportInv'
<1>1. pc[w] = "mkdir" /\ Goto(w, "prepare") /\ "prepare" \in Locations
  BY DEF EnsureDirectory, Locations
<1>2. CallFits(w) /\ export[w] \in Export
  BY <1>1, OthersAreIdle
<1>3. /\ pc' \in [Writers -> Locations] /\ pc'[w] = "prepare"
      /\ OneCall' /\ (CallFits(w)' => CallsFit')
  BY <1>1, CallGoesOn
<1>4. TypeOK' /\ FilesHaveDirs'
  BY <1>2, <1>3 DEF EnsureDirectory, ExportInv, TypeOK, FilesHaveDirs, Goto, Export
<1>5. CallFits(w)'
  BY <1>1, <1>2, <1>3 DEF EnsureDirectory, CallFits, Goto
<1>6. ListedIsWhole' /\ ReceiptsHold'
  BY NothingExported DEF EnsureDirectory
<1> QED
  BY <1>3, <1>4, <1>5, <1>6 DEF ExportInv

LEMMA PrepareStep ==
    ASSUME ExportInv, NEW w \in Writers, PrepareFile(w)
    PROVE  ExportInv'
<1>1. pc[w] = "prepare" /\ "open" \in Locations
  BY DEF PrepareFile, Locations
<1>2. CallFits(w) /\ export[w] \in Export
  BY <1>1, OthersAreIdle
<1>3. ArtifactOf(export[w]) \in Artifact
      /\ ArtifactOf(export[w]).id = export[w].id
  BY <1>2, ArtifactFields
<1>4. Goto(w, "open")
  BY <1>1, <1>2, <1>3 DEF PrepareFile, CallFits
<1>5. /\ pc' \in [Writers -> Locations] /\ pc'[w] = "open"
      /\ OneCall' /\ (CallFits(w)' => CallsFit')
  BY <1>1, <1>4, CallGoesOn
<1>6. TypeOK' /\ FilesHaveDirs'
  BY <1>4, <1>5 DEF PrepareFile, ExportInv, TypeOK, FilesHaveDirs, Goto
<1>7. CallFits(w)'
  BY <1>1, <1>2, <1>4, <1>5 DEF PrepareFile, CallFits, Goto
<1>8. ListedIsWhole' /\ ReceiptsHold'
  BY NothingExported DEF PrepareFile
<1> QED
  BY <1>5, <1>6, <1>7, <1>8 DEF ExportInv

(* The two steps that change the file of the call.                         *)
LEMMA FileStep ==
    ASSUME ExportInv, NEW w \in Writers, pc[w] \in {"open", "write"},
           NEW l \in {"write", "list"}, Goto(w, l),
           NEW c \in Contents \ {"none"},
           l = "list" => c = export[w].payload,
           file' = [file EXCEPT ![ArtifactOf(export[w])] = c],
           export[w].id \in dirs,
           UNCHANGED <<dirs, manifest, receipts>>
    PROVE  ExportInv'
<1> DEFINE a0 == ArtifactOf(export[w])
<1>1. CallFits(w) /\ export[w] \in Export /\ l \in Locations
  BY OthersAreIdle DEF Locations
<1>2. a0 \in Artifact /\ a0.id = export[w].id
  BY <1>1, ArtifactFields
<1>3. /\ pc' \in [Writers -> Locations] /\ pc'[w] = l
      /\ OneCall' /\ (CallFits(w)' => CallsFit')
  BY <1>1, CallGoesOn
<1> HIDE DEF a0
<1>4. /\ file' \in [Artifact -> Contents] /\ file'[a0] = c
      /\ \A a \in Artifact : a # a0 => file'[a] = file[a]
  BY <1>2 DEF ExportInv, TypeOK, a0
<1>5. TypeOK'
  BY <1>3, <1>4 DEF ExportInv, TypeOK, Goto
<1>6. FilesHaveDirs'
  BY <1>2, <1>4 DEF ExportInv, FilesHaveDirs
<1>7. CallFits(w)'
  BY <1>1, <1>2, <1>3, <1>4 DEF CallFits, Goto, a0
<1>8. \A i \in DOMAIN manifest : manifest[i] \in Artifact /\ manifest[i].id # a0.id
  BY <1>1, <1>2 DEF CallFits, ExportInv, TypeOK
<1>9. ListedIsWhole'
  <2> SUFFICES ASSUME NEW i \in DOMAIN manifest
               PROVE  /\ file'[manifest[i]] \in Payloads
                      /\ \A j \in DOMAIN manifest :
                            manifest[j].id = manifest[i].id => j = i
                      /\ \A a \in Artifact :
                            a.id = manifest[i].id /\ file'[a] # "none"
                                => a = manifest[i]
    BY DEF ListedIsWhole
  <2> QED
    BY <1>4, <1>8 DEF ExportInv, ListedIsWhole
<1>10. ReceiptsHold'
  BY <1>4, <1>8, ArtifactFields DEF ExportInv, TypeOK, ReceiptsHold
<1> QED
  BY <1>3, <1>5, <1>6, <1>7, <1>9, <1>10 DEF ExportInv

LEMMA OpenStep ==
    ASSUME ExportInv, NEW w \in Writers, OpenFile(w)
    PROVE  ExportInv'
<1>1. CallFits(w)
  BY OthersAreIdle DEF OpenFile
<1>2. export[w].id \in dirs
  BY <1>1 DEF CallFits, OpenFile
<1>3. "partial" \in Contents \ {"none"}
  BY DEF Contents
<1> QED
  BY <1>2, <1>3, FileStep DEF OpenFile

LEMMA WriteStep ==
    ASSUME ExportInv, NEW w \in Writers, WriteFile(w)
    PROVE  ExportInv'
<1>1. CallFits(w) /\ export[w] \in Export
  BY OthersAreIdle DEF WriteFile
<1>2. export[w].id \in dirs
  BY <1>1 DEF CallFits, WriteFile
<1>3. export[w].payload \in Contents \ {"none"}
  BY <1>1, ArtifactFields DEF Contents
<1> QED
  BY <1>2, <1>3, FileStep DEF WriteFile

LEMMA ListStep ==
    ASSUME ExportInv, NEW w \in Writers, AppendManifestEntry(w)
    PROVE  ExportInv'
<1> DEFINE a0 == ArtifactOf(export[w])
           n == Len(manifest) + 1
<1>1. /\ \A v \in Writers : v # w => pc[v] = "idle"
      /\ CallFits(w) /\ export[w] \in Export
  BY OthersAreIdle DEF AppendManifestEntry
<1>2. /\ a0 \in Artifact /\ a0.id = export[w].id
      /\ file[a0] = export[w].payload /\ file[a0] \in Payloads
  BY <1>1, ArtifactFields DEF AppendManifestEntry, CallFits
<1>3. /\ manifest' \in Seq(Artifact) /\ n \in Nat  /\ n \in 1 .. n
      /\ DOMAIN manifest = 1 .. n - 1 /\ DOMAIN manifest' = 1 .. n
      /\ manifest'[n] = a0
      /\ \A i \in 1 .. n - 1 : manifest'[i] = manifest[i] /\ i # n
  BY <1>2 DEF AppendManifestEntry, ExportInv, TypeOK
<1> HIDE DEF a0, n
<1>4. /\ pc' \in [Writers -> Locations] /\ export' \in [Writers -> Export \cup {None}]
      /\ \A v \in Writers : pc'[v] = "idle"
  BY <1>1 DEF AppendManifestEntry, Return, ExportInv, TypeOK, Locations
<1>5. TypeOK'
  BY <1>1, <1>3, <1>4 DEF AppendManifestEntry, ExportInv, TypeOK
<1>6. OneCall' /\ FilesHaveDirs' /\ CallsFit'
  BY <1>4 DEF AppendManifestEntry, ExportInv, OneCall, FilesHaveDirs, CallsFit
<1>7. \A i \in 1 .. n - 1 : manifest'[i].id # a0.id
  BY <1>1, <1>2, <1>3 DEF CallFits
<1>8. \A a \in Artifact : a.id = a0.id /\ file[a] # "none" => a = a0
  BY <1>1, <1>2 DEF CallFits, a0
<1>9. file' = file
  BY DEF AppendManifestEntry
<1>10. ListedIsWhole'
  <2> SUFFICES ASSUME NEW i \in 1 .. n
               PROVE  /\ file[manifest'[i]] \in Payloads
                      /\ \A j \in 1 .. n :
                            manifest'[j].id = manifest'[i].id => j = i
                      /\ \A a \in Artifact :
                            a.id = manifest'[i].id /\ file[a] # "none"
                                => a = manifest'[i]
    BY <1>3, <1>9 DEF ListedIsWhole
  <2>1. CASE i = n
    <3>1. \A j \in 1 .. n : j = n \/ j \in 1 .. n - 1
      BY <1>3
    <3> QED
      BY <1>2, <1>3, <1>7, <1>8, <2>1, <3>1
  <2>2. CASE i # n
    <3>1. i \in 1 .. n - 1
      BY <1>3, <2>2
    <3>2. \A j \in 1 .. n : j = n \/ j \in 1 .. n - 1
      BY <1>3
    <3> QED
      BY <1>3, <1>7, <3>1, <3>2 DEF ExportInv, ListedIsWhole
  <2> QED
    BY <2>1, <2>2
<1>11. ReceiptsHold'
  <2> SUFFICES ASSUME NEW r \in receipts \cup {export[w]}
               PROVE  /\ file[ArtifactOf(r)] = r.payload
                      /\ \E i \in 1 .. n : manifest'[i] = ArtifactOf(r)
    BY <1>3, <1>9 DEF ReceiptsHold, AppendManifestEntry
  <2>1. CASE r = export[w]
    BY <1>2, <1>3, <2>1 DEF a0
  <2>2. CASE r \in receipts
    BY <1>3, <2>2 DEF ExportInv, ReceiptsHold
  <2> QED
    BY <2>1, <2>2
<1> QED
  BY <1>5, <1>6, <1>10, <1>11 DEF ExportInv

-----------------------------------------------------------------------------

LEMMA NextInv ==
    ASSUME Serial, ExportInv, [Next]_vars
    PROVE  ExportInv'
<1>1. CASE UNCHANGED vars
  BY <1>1, CallsEnd DEF vars, ExportInv, TypeOK
<1>2. CASE Crash
  BY <1>2, CallsEnd DEF Crash, Locations
<1>3. ASSUME NEW w \in Writers, Raises(w)
      PROVE  ExportInv'
  BY <1>3, CallsEnd DEF Raises, Return, ExportInv, TypeOK, Locations
<1> QED
  BY <1>1, <1>2, <1>3, BeginStep, DirectoryStep, PrepareStep, OpenStep,
     WriteStep, ListStep DEF Next

LEMMA InvHolds ==
    ASSUME Serial
    PROVE  Spec => []ExportInv
BY InitInv, NextInv, PTL DEF Spec

(* Every reachable state is well typed.                                    *)
THEOREM TypeCorrect ==
    ASSUME Serial
    PROVE  Spec => []TypeOK
<1>1. ExportInv => TypeOK
  BY DEF ExportInv
<1> QED
  BY <1>1, InvHolds, PTL

(* No later export, failure or crash makes a receipt of export_bytes false. *)
THEOREM ReceiptsStayTrue ==
    ASSUME Serial
    PROVE  Spec => []ReceiptsHold
<1>1. ExportInv => ReceiptsHold
  BY DEF ExportInv
<1> QED
  BY <1>1, InvHolds, PTL

(* The manifest lists whole artifacts, each export id once.                *)
THEOREM ManifestIsWhole ==
    ASSUME Serial
    PROVE  Spec => []ListedIsWhole
<1>1. ExportInv => ListedIsWhole
  BY DEF ExportInv
<1> QED
  BY <1>1, InvHolds, PTL

=============================================================================
