----------------------------- MODULE LogArchive -----------------------------
(***************************************************************************)
(* Stored log events and the firmware artifacts that decode them: ingest   *)
(* of bundles (core/logging/ingest.ts), import of artifacts and backfill   *)
(* of the events stored before (core/logging/artifact.ts, api/logging.ts), *)
(* and releases, which import an artifact too (core/ota/release.ts).  An   *)
(* event is linked to the artifact of the firmware its device last         *)
(* reported; messages are rendered from that artifact when they are read.  *)
(***************************************************************************)
EXTENDS Naturals, Sequences

CONSTANTS
    ArcDevices, ArcProjects, ArcBuilds,
    ArcHome,      \* project of each device
    ArcRequests,  \* uploads and bindings
    ArcMaxRows,   \* bound on the events stored
    ArcReports,   \* bound on the firmware reports
    ArcFaults     \* bound on failed statements and requests that die

\* A missing artifact is NULL, which is no build.
ASSUME ArchiveAssumption ==
    /\ ArcHome \in [ArcDevices -> ArcProjects]
    /\ "none" \notin ArcBuilds
    /\ ArcMaxRows \in Nat

VARIABLES
    arcFw,       \* device_firmware_state: build last reported, or "none"
    arcArts,     \* firmware_artifacts, with their strings: <<project, build>>
    arcReleases, \* firmware_releases: <<project, artifact's build or "none">>
    arcRows,     \* raw_log_events, in order of id
    arcIngest,   \* the bundle being stored for each device
    arcReq,      \* uploads and bindings under way
    arcCovered,  \* history: <<device, build>> a finished backfill looked for
    arcEver,     \* history: <<device, build>> reported or bound
    arcReported, arcFailed

arcVars == <<arcFw, arcArts, arcReleases, arcRows, arcIngest, arcReq, arcCovered, arcEver,
             arcReported, arcFailed>>

NoIngest == [pc |-> "idle"]
NoRequest == [pc |-> "new"]

ArchiveInit ==
    /\ arcFw = [d \in ArcDevices |-> "none"]
    /\ arcArts = {} /\ arcReleases = {} /\ arcRows = <<>>
    /\ arcIngest = [d \in ArcDevices |-> NoIngest]
    /\ arcReq = [u \in ArcRequests |-> NoRequest]
    /\ arcCovered = {} /\ arcEver = {}
    /\ arcReported = 0 /\ arcFailed = 0

\* upsert of device_firmware_state.
SetFirmware(d, b) ==
    /\ arcFw' = [arcFw EXCEPT ![d] = b]
    /\ arcEver' = arcEver \cup {<<d, b>>}

\* A stat message reports the firmware of d.
ReportFirmware(d, b) ==
    /\ arcReported < ArcReports /\ arcReported' = arcReported + 1
    /\ SetFirmware(d, b)
    /\ UNCHANGED <<arcArts, arcReleases, arcRows, arcIngest, arcReq, arcCovered, arcFailed>>

-----------------------------------------------------------------------------
\* resolveArtifactId: the artifact of the device's firmware in its project;
\* none when there is none or the query fails.
ResolveArtifactId(d) ==
    /\ arcIngest[d].pc = "idle" /\ Len(arcRows) < ArcMaxRows
    /\ \E failed \in BOOLEAN :
         LET known == <<ArcHome[d], arcFw[d]>> \in arcArts IN
         /\ failed => arcFailed < ArcFaults
         /\ arcFailed' = IF failed THEN arcFailed + 1 ELSE arcFailed
         /\ arcIngest' = [arcIngest EXCEPT ![d] =
              [pc |-> "resolved", fw |-> arcFw[d], known |-> known /\ ~failed,
               art |-> IF known /\ ~failed THEN arcFw[d] ELSE "none"]]
    /\ UNCHANGED <<arcFw, arcArts, arcReleases, arcRows, arcReq, arcCovered, arcEver, arcReported>>

\* The row of one packet (the same from ingestLogPacket and ingestLogBundle).
RawLogEvent(d) ==
    LET in == arcIngest[d] IN
    [dev |-> d, fw |-> in.fw, known |-> in.known, art |-> in.art,
     late |-> <<d, in.fw>> \in arcCovered]

\* ingestLogPacket and ingestLogBundle: one statement stores every packet of
\* the bundle that parses, or it fails and stores none.
IngestLogBundle(d) ==
    LET row == RawLogEvent(d)
    IN /\ arcIngest[d].pc = "resolved"
       /\ arcIngest' = [arcIngest EXCEPT ![d] = NoIngest]
       /\ \/ /\ \E n \in 1 .. ArcMaxRows - Len(arcRows) :
                   arcRows' = arcRows \o [i \in 1 .. n |-> row]
             /\ UNCHANGED arcFailed
          \/ /\ arcFailed < ArcFaults /\ arcFailed' = arcFailed + 1
             /\ UNCHANGED arcRows
       /\ UNCHANGED <<arcFw, arcArts, arcReleases, arcReq, arcCovered, arcEver, arcReported>>

-----------------------------------------------------------------------------
UnchangedByRequests == UNCHANGED <<arcRows, arcIngest, arcReported>>

\* POST /firmware-artifacts: has the build been imported before?
UploadArtifact(u) ==
    /\ arcReq[u].pc = "new"
    /\ \E p \in ArcProjects, b \in ArcBuilds :
         arcReq' = [arcReq EXCEPT ![u] = [pc |-> "import", proj |-> p, build |-> b,
                                          existed |-> <<p, b>> \in arcArts]]
    /\ UnchangedByRequests
    /\ UNCHANGED <<arcFw, arcArts, arcReleases, arcCovered, arcEver, arcFailed>>

\* importArtifact: one transaction creates the artifact and its strings, or
\* finds them, also when another request wins the race for the unique index.
\* Only the request that saw no artifact before backfills.
ImportArtifact(u) ==
    LET q == arcReq[u] IN
    /\ q.pc = "import"
    /\ arcArts' = arcArts \cup {<<q.proj, q.build>>}
    /\ arcReq' = [arcReq EXCEPT ![u] =
         IF q.existed THEN [pc |-> "done"] ELSE [pc |-> "backfill", proj |-> q.proj, build |-> q.build]]
    /\ UnchangedByRequests
    /\ UNCHANGED <<arcFw, arcReleases, arcCovered, arcEver, arcFailed>>

\* POST /firmware-releases: the optional ELF is imported (and nothing is
\* backfilled), then the image is stored unless the project has it.
CreateFirmwareRelease(u) ==
    /\ arcReq[u].pc = "new"
    /\ \E p \in ArcProjects, b \in ArcBuilds \cup {"none"} :
         /\ arcArts' = IF b = "none" THEN arcArts ELSE arcArts \cup {<<p, b>>}
         /\ arcReq' = [arcReq EXCEPT ![u] = [pc |-> "release", proj |-> p, build |-> b]]
    /\ UnchangedByRequests
    /\ UNCHANGED <<arcFw, arcReleases, arcCovered, arcEver, arcFailed>>

\* The image of each project is the same one: the first release stays.
StoreRelease(u) ==
    LET q == arcReq[u] IN
    /\ q.pc = "release"
    /\ arcReleases' = IF \E r \in arcReleases : r[1] = q.proj THEN arcReleases
                      ELSE arcReleases \cup {<<q.proj, q.build>>}
    /\ arcReq' = [arcReq EXCEPT ![u] = [pc |-> "done"]]
    /\ UnchangedByRequests
    /\ UNCHANGED <<arcFw, arcArts, arcCovered, arcEver, arcFailed>>

\* POST /devices/:id/firmware-state: an artifact of the device's project is
\* bound to it, then the events stored before are looked for.
BindArtifact(u) ==
    /\ arcReq[u].pc = "new"
    /\ \E d \in ArcDevices, b \in ArcBuilds :
         /\ <<ArcHome[d], b>> \in arcArts
         /\ SetFirmware(d, b)
         /\ arcReq' = [arcReq EXCEPT ![u] = [pc |-> "backfill", proj |-> ArcHome[d], build |-> b]]
    /\ UnchangedByRequests
    /\ UNCHANGED <<arcArts, arcReleases, arcCovered, arcFailed>>

\* (mutant) A build is looked for in every project.
DevicesOfAnyProject(proj, build) == {d \in ArcDevices : arcFw[d] = build}

\* backfillDecodeState, first query: devices of the project whose latest
\* report is this build.
DevicesOfBuild(proj, build) == {d \in ArcDevices : arcFw[d] = build /\ ArcHome[d] = proj}

BackfillReads(u) ==
    LET q == arcReq[u] IN
    /\ q.pc = "backfill"
    /\ arcReq' = [arcReq EXCEPT ![u] =
         [pc |-> "update", proj |-> q.proj, build |-> q.build,
          devices |-> DevicesOfBuild(q.proj, q.build)]]
    /\ UnchangedByRequests
    /\ UNCHANGED <<arcFw, arcArts, arcReleases, arcCovered, arcEver, arcFailed>>

\* backfillDecodeState, the UPDATE: every unlinked event of those devices.
BackfillDecodeState(u) ==
    LET q == arcReq[u] IN
    /\ q.pc = "update"
    /\ arcRows' = [i \in DOMAIN arcRows |->
         IF arcRows[i].art = "none" /\ arcRows[i].dev \in q.devices
         THEN [arcRows[i] EXCEPT !.art = q.build] ELSE arcRows[i]]
    /\ arcCovered' = arcCovered \cup {<<d, q.build>> : d \in q.devices}
    /\ arcReq' = [arcReq EXCEPT ![u] = [pc |-> "done"]]
    /\ UNCHANGED <<arcFw, arcArts, arcReleases, arcIngest, arcEver, arcReported, arcFailed>>

\* The process dies, or a statement of the request fails.
RequestDies(u) ==
    /\ arcReq[u].pc \notin {"new", "done"} /\ arcFailed < ArcFaults
    /\ arcFailed' = arcFailed + 1
    /\ arcReq' = [arcReq EXCEPT ![u] = [pc |-> "done"]]
    /\ UnchangedByRequests
    /\ UNCHANGED <<arcFw, arcArts, arcReleases, arcCovered, arcEver>>

-----------------------------------------------------------------------------
ArchiveNext ==
    \/ \E d \in ArcDevices :
          \/ ResolveArtifactId(d) \/ IngestLogBundle(d)
          \/ \E b \in ArcBuilds : ReportFirmware(d, b)
    \/ \E u \in ArcRequests :
          \/ UploadArtifact(u) \/ ImportArtifact(u) \/ CreateFirmwareRelease(u) \/ StoreRelease(u)
          \/ BindArtifact(u) \/ BackfillReads(u) \/ BackfillDecodeState(u) \/ RequestDies(u)

ArchiveSpec == ArchiveInit /\ [][ArchiveNext]_arcVars

-----------------------------------------------------------------------------
\* An event is linked to an artifact of its device's project: of the build the
\* device was known to run when the event came in, if the artifact was there,
\* and never to another one after that; else, of the build of a backfill that
\* found the device on it later (the newest firmware then, by the design of
\* backfillDecodeState, not always the event's).  And once a backfill has looked
\* for the build of an event, the event is left without a link only if its
\* ingest looked before the import, or failed to look, and stored after it.
EventsLinked ==
    \A i \in DOMAIN arcRows :
       LET row == arcRows[i] IN
       /\ row.known => row.art = row.fw /\ row.art # "none"
       /\ row.art # "none" => /\ <<ArcHome[row.dev], row.art>> \in arcArts
                              /\ <<row.dev, row.art>> \in arcEver
                              /\ row.known \/ <<row.dev, row.art>> \in arcCovered
       /\ row.art = "none" /\ <<row.dev, row.fw>> \in arcCovered => row.late
=============================================================================
