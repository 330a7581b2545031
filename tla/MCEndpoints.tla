----------------------------- MODULE MCEndpoints -----------------------------
(***************************************************************************)
(* Small instances of the parts of an agent whose promise is what never    *)
(* happens: its connection to the relay, its sessions, the transfers of    *)
(* files, the clipboard, the audio, the viewers' input, the capture loop   *)
(* with its recordings and their files, the rectangles of a changed        *)
(* screen, and the remembered consent decisions.                           *)
(*                                                                         *)
(* A behaviour is one part's, chosen by part; the others keep a first      *)
(* state.                                                                  *)
(***************************************************************************)
EXTENDS FileTransfer, FileExport, HostAudio, CaptureLoop, DirtyRects, SignalingClient,
        ClipboardSync, AgentSessions, InputSink, Recording, ConsentStore

CONSTANTS xfer1, xfer2, name1, none, export1, click1, click2, noOne, size1, size2, rec1, rec2,
          barClick, reader, captureLoop, upd1, upd2, readLoop, viewer, token1, token2, clipFile,
          nothing, control, peer1, peer2, noPeer, spot, origin, noEvent,
          device1, device2, request1, request2, absent, torn, unloaded

VARIABLE part

MCXfers  == {xfer1, xfer2}
MCMine   == {<<name1, 0>>}
MCNames  == {name1}
MCExports  == {export1}
MCClicks   == {click1, click2}
MCSizes    == {size1, size2}
MCRecorders == {rec1, rec2}
MCBarClicks == {barClick}
MCUpdaters  == {upd1, upd2}
MCViewers   == {viewer}
MCTokens    == {token1, token2}
MCFiles     == {clipFile}
MCControllers == {control}
MCPeers       == {peer1, peer2}
MCSpots       == {spot}
MCDevices     == {device1, device2}
MCRequests    == {request1, request2}

transferVars == <<filesVars, exportVars>>
mediaVars    == <<audioVars, captureVars, rectVars>>
hostVars     == <<clientVars, clipVars, agentVars>>
inputVars    == <<sinkVars, recFileVars, storeVars>>
partsVars    == <<part, transferVars, mediaVars, hostVars, inputVars>>

Init ==
  /\ part \in {"files", "export", "audio", "capture", "rects", "client", "clip", "agent",
              "input", "recording", "store"}
  /\ FilesInit /\ ExportInit /\ AudioInit /\ CaptureInit /\ RectsInit /\ ClientInit
  /\ ClipInit /\ AgentInit /\ SinkInit /\ RecFileInit /\ StoreInit
  /\ part # "rects" => dirty = {}
  /\ part # "clip" => clip.kind = "text"
  /\ part # "store" => decisions = absent
  /\ part # "capture" => encSize = size1

Next ==
  \/ part = "files" /\ FilesNext
     /\ UNCHANGED <<part, exportVars, mediaVars, hostVars, inputVars>>
  \/ part = "export" /\ ExportNext
     /\ UNCHANGED <<part, filesVars, mediaVars, hostVars, inputVars>>
  \/ part = "audio" /\ AudioNext
     /\ UNCHANGED <<part, transferVars, captureVars, rectVars, hostVars, inputVars>>
  \/ part = "capture" /\ CaptureNext
     /\ UNCHANGED <<part, transferVars, audioVars, rectVars, hostVars, inputVars>>
  \/ part = "rects" /\ RectsNext
     /\ UNCHANGED <<part, transferVars, audioVars, captureVars, hostVars, inputVars>>
  \/ part = "client" /\ ClientNext
     /\ UNCHANGED <<part, transferVars, mediaVars, clipVars, agentVars, inputVars>>
  \/ part = "clip" /\ ClipNext
     /\ UNCHANGED <<part, transferVars, mediaVars, clientVars, agentVars, inputVars>>
  \/ part = "agent" /\ AgentNext
     /\ UNCHANGED <<part, transferVars, mediaVars, clientVars, clipVars, inputVars>>
  \/ part = "input" /\ SinkNext
     /\ UNCHANGED <<part, transferVars, mediaVars, hostVars, recFileVars, storeVars>>
  \/ part = "recording" /\ RecFileNext
     /\ UNCHANGED <<part, transferVars, mediaVars, hostVars, sinkVars, storeVars>>
  \/ part = "store" /\ StoreNext
     /\ UNCHANGED <<part, transferVars, mediaVars, hostVars, sinkVars, recFileVars>>

Spec == Init /\ [][Next]_partsVars

\* Once both announcements of a viewer's files have been heard of, the clipboard is followed
\* only if nothing else was sent or announced.
SetsMeetAlone ==
  (\A t \in Tokens : asm[t] # Nothing \/ upto[t] # [f \in Files |-> 0]) =>
    seq = 0 /\ sending = [v \in Viewers |-> 0] /\ sent = Nothing /\ last["text"] # ViewerText

\* The type invariants of the eleven parts, each in its own behaviours.
EndpointsTypeOK ==
  /\ part = "files" => FilesTypeOK
  /\ part = "export" => ExportTypeOK
  /\ part = "audio" => AudioTypeOK
  /\ part = "capture" => CaptureTypeOK
  /\ part = "rects" => RectsTypeOK
  /\ part = "client" => ClientTypeOK
  /\ part = "clip" => ClipTypeOK
  /\ part = "agent" => AgentTypeOK
  /\ part = "input" => SinkTypeOK
  /\ part = "recording" => RecFileTypeOK
  /\ part = "store" => StoreTypeOK

\* What a side reports or shows as complete is complete, in both directions, and nothing
\* half received lies about that nobody has to finish or to remove (filerecv.go, "end",
\* fail, closeAll and ExportFileStreaming; file_transfer_service.dart, handleMessage).
TransfersAreWhole == SavedIsWhole /\ PartialIsHeld /\ DoneIsWhole
=============================================================================
