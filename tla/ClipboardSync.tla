----------------------------- MODULE ClipboardSync -----------------------------
(***************************************************************************)
(* The clipboard between a host and its viewers, in the capture worker     *)
(* (agent/session/clipboard.go, clipfiles_windows.go).  Text and images    *)
(* are polled and sent when they change; files are announced, and their    *)
(* bytes follow when the other side asks.                                  *)
(*                                                                         *)
(* Five goroutines meet on one clipboard: the reader, which applies what a *)
(* viewer sends, the two pollers, the lane of file messages, and one per   *)
(* set of files that is being staged.  Each holds its mutex over a read or *)
(* a write of the echo guards only.  A chunk that the transport gives to   *)
(* another worker, because the desktop was switched, is lost to this one.  *)
(* All sets of files share one folder, so a name is one path for them all, *)
(* and a write that fails leaves there what it got to.  What a text says   *)
(* and how an image is coded is left out: an item of the clipboard is what *)
(* it is and who put it there.                                             *)
(***************************************************************************)
EXTENDS Naturals, FiniteSets

CONSTANTS Viewers,    \* each may send an image
          Tokens,     \* the viewers' announcements of files
          Files,      \* the names of the files of each announcement, no two alike
          Chunks,     \* the chunks of a file and of an image
          MaxOut,     \* host announcements that are kept (8 in the code)
          MaxSeq,     \* bound: host announcements
          Nothing

ASSUME ClipAssumption == /\ Chunks \in Nat \ {0} /\ MaxOut \in Nat \ {0} /\ MaxSeq \in Nat

Item(kind, by, what) == [kind |-> kind, by |-> by, what |-> what]

HostItems   == {Item(k, "host", "h") : k \in {"text", "image", "files"}}
ViewerText  == Item("text", "viewer", "v")
Images      == {Item("image", "viewer", vs) : vs \in [1 .. Chunks -> Viewers]}
Sets        == [by : Tokens, files : SUBSET Files]     \* files written, for the clipboard
Stagings    == {Item("files", "viewer", s) : s \in Sets}
Items       == HostItems \cup {ViewerText} \cup Images \cup Stagings

VARIABLES
  clip,     \* what is on the host's clipboard
  news,     \* its sequence number differs from clipSync.lastSeq
  last,     \* clipSync.last, lastImgHash and clipFiles.lastRead
  inbound,  \* what the reader has noted in last and not yet written
  poll,     \* where the poller is, and what it has read
  sent,     \* what was sent to the viewers last
  sending,  \* the chunks of its image that a viewer has sent
  image,    \* imgParts: who sent each; Nothing between two images
  seq, out, \* clipFiles.seq and outFiles
  upto,     \* the chunks of a file that a viewer has sent
  asm,      \* inAsm
  disk,     \* the chunks under a name in NeevClip, and whose they are; Nothing's at first
  staging   \* sets of files that are on their way to the clipboard

textVars  == <<inbound, poll>>
imageVars == <<sending, image>>
outVars   == <<seq, out>>
fileVars  == <<upto, asm, disk, staging>>
clipVars  == <<clip, news, last, textVars, sent, imageVars, outVars, fileVars>>

ClipInit ==
  /\ clip \in HostItems /\ news = TRUE
  /\ last = [k \in {"text", "image", "files"} |->
               IF k = "text" /\ clip.kind = "text" THEN clip ELSE Nothing]
  /\ inbound = Nothing /\ poll = [at |-> "rest", read |-> Nothing] /\ sent = Nothing
  /\ sending = [v \in Viewers |-> 0] /\ image = Nothing
  /\ seq = 0 /\ out = {}
  /\ upto = [t \in Tokens |-> [f \in Files |-> 0]]
  /\ asm = [t \in Tokens |-> Nothing]
  /\ disk = [f \in Files |-> [by |-> Nothing, chunks |-> {}]] /\ staging = {}

PutClip(item) == clip' = item /\ news' = TRUE

\* What reading one kind of the clipboard gives.
Read(kind) == IF clip.kind = kind THEN clip ELSE Nothing

\* The host's user copies something.
HostCopies ==
  /\ \E item \in HostItems : PutClip(item)
  /\ UNCHANGED <<last, textVars, sent, imageVars, outVars, fileVars>>

-----------------------------------------------------------------------------
\* The reader: what a viewer sends on the control channel.

\* handleInbound notes the text first, and then writes it.
InboundText ==
  /\ inbound = Nothing /\ inbound' = ViewerText /\ last' = [last EXCEPT !["text"] = ViewerText]
  /\ UNCHANGED <<clip, news, poll, sent, imageVars, outVars, fileVars>>

\* recvImageChunk: chunk 0 begins afresh, any other must be the one due next.
InboundChunk(v) ==
  /\ inbound = Nothing /\ sending[v] < Chunks
  /\ LET i     == sending[v]
         parts == IF i = 0 THEN <<v>>
                  ELSE IF image # Nothing /\ DOMAIN image = 1 .. i
                       THEN [j \in 1 .. i + 1 |-> IF j <= i THEN image[j] ELSE v]
                       ELSE Nothing
         whole == parts # Nothing /\ i + 1 = Chunks
         got   == Item("image", "viewer", parts)
     IN /\ sending' = [sending EXCEPT ![v] = @ + 1]
        /\ image' = IF whole THEN Nothing ELSE parts
        /\ IF whole THEN inbound' = got /\ last' = [last EXCEPT !["image"] = got]
                    ELSE UNCHANGED <<inbound, last>>
  /\ UNCHANGED <<clip, news, poll, sent, outVars, fileVars>>

\* clipboard.WriteAll and writeClipboardImagePNG, which may fail.
InboundWrite ==
  /\ inbound # Nothing /\ inbound' = Nothing
  /\ \/ PutClip(inbound)
     \/ UNCHANGED <<clip, news>>
  /\ UNCHANGED <<last, poll, sent, imageVars, outVars, fileVars>>

-----------------------------------------------------------------------------
\* clipSync.poll: the image when anything has changed, else the text.

PollBegins ==
  /\ poll.at = "rest" /\ news' = FALSE
  /\ poll' = [poll EXCEPT !.at = IF news THEN "image" ELSE "text"]
  /\ UNCHANGED <<clip, last, inbound, sent, imageVars, outVars, fileVars>>

PollReads ==
  /\ poll.at \in {"image", "text"} /\ poll.read = Nothing
  /\ poll' = IF Read(poll.at) # Nothing THEN [poll EXCEPT !.read = Read(poll.at)]
             ELSE [poll EXCEPT !.at = IF poll.at = "image" THEN "text" ELSE "rest"]
  /\ UNCHANGED <<clip, news, last, inbound, sent, imageVars, outVars, fileVars>>

\* Compared with what was seen or set last, and sent when it is another.
PollSends ==
  /\ poll.read # Nothing
  /\ IF poll.read # last[poll.at]
     THEN /\ last' = [last EXCEPT ![poll.at] = poll.read] /\ sent' = poll.read
          /\ poll' = [at |-> "rest", read |-> Nothing]
     ELSE /\ poll' = [at |-> IF poll.at = "image" THEN "text" ELSE "rest", read |-> Nothing]
          /\ UNCHANGED <<last, sent>>
  /\ UNCHANGED <<clip, news, inbound, imageVars, outVars, fileVars>>

-----------------------------------------------------------------------------
\* Files of the host.

\* clipFiles.poll and announce: over the limit an arbitrary entry goes.  An announcement
\* whose files are all folders or too large is not made.
FilesPoll ==
  /\ Read("files") # last["files"] /\ last' = [last EXCEPT !["files"] = Read("files")]
  /\ \/ UNCHANGED <<seq, out, sent>>
     \/ /\ Read("files") # Nothing /\ seq < MaxSeq
        /\ seq' = seq + 1 /\ sent' = Read("files")
        /\ out' \in IF Cardinality(out) < MaxOut THEN {out \cup {seq + 1}}
                    ELSE {(out \cup {seq + 1}) \ {k} : k \in out \cup {seq + 1}}
  /\ UNCHANGED <<clip, news, textVars, imageVars, fileVars>>

-----------------------------------------------------------------------------
\* Files of a viewer: announced, asked for at once, received in chunks, staged.

Announced(t) ==
  /\ asm[t] = Nothing /\ upto[t] = [f \in Files |-> 0]
  /\ asm' = [asm EXCEPT ![t] = [parts   |-> [f \in Files |-> {}], got |-> [f \in Files |-> 0],
                                done    |-> {}, written |-> {}]]
  /\ UNCHANGED <<clip, news, last, textVars, sent, imageVars, outVars, upto, disk, staging>>

\* os.WriteFile of data, and whether it returns no error.  It may fail before the file is
\* opened, which truncates it, or at any point after that.
WriteFile(t, f, data, ok) ==
  \E k \in IF ok THEN {Chunks} ELSE 0 .. Chunks :
    \/ disk' = [disk EXCEPT ![f] = [by |-> t, chunks |-> data \cap (0 .. k - 1)]]
    \/ ~ok /\ UNCHANGED disk

\* finishFile: once for each file; the last one hands what was written to a goroutine.
\* data is the chunks the file is made of, Nothing when it has failed.
FinishFile(t, f, a, data) ==
  IF f \in a.done THEN asm' = [asm EXCEPT ![t] = a] /\ UNCHANGED <<disk, staging>>
  ELSE \E ok \in IF data = Nothing THEN {FALSE} ELSE BOOLEAN :
         LET b == [a EXCEPT !.done = @ \cup {f}, !.written = IF ok THEN @ \cup {f} ELSE @]
         IN /\ IF data = Nothing THEN UNCHANGED disk ELSE WriteFile(t, f, data, ok)
            /\ asm' = [asm EXCEPT ![t] = IF b.done = Files THEN Nothing ELSE b]
            /\ staging' = IF b.done = Files /\ b.written # {}
                          THEN staging \cup {[by |-> t, files |-> b.written]} ELSE staging

\* Mutant of RecvChunk: recvBytes that takes any chunk of a file that has begun.
RecvChunkAny(t, f) ==
  /\ asm[t] # Nothing /\ upto[t][f] < Chunks
  /\ upto' = [upto EXCEPT ![t][f] = @ + 1]
  /\ LET n     == upto[t][f]
         parts == asm[t].parts[f] \cup {n}
         a     == [asm[t] EXCEPT !.parts[f] = parts, !.got[f] = n + 1]
     IN IF n + 1 = Chunks THEN FinishFile(t, f, a, parts)
        ELSE asm' = [asm EXCEPT ![t] = a] /\ UNCHANGED <<disk, staging>>
  /\ UNCHANGED <<clip, news, last, textVars, sent, imageVars, outVars>>

\* recvBytes: only the chunk due next counts.
RecvChunk(t, f) ==
  /\ asm[t] # Nothing /\ upto[t][f] < Chunks
  /\ upto' = [upto EXCEPT ![t][f] = @ + 1]
  /\ LET n    == upto[t][f]
         a    == IF n # asm[t].got[f] THEN asm[t]
                 ELSE [asm[t] EXCEPT !.parts[f] = @ \cup {n}, !.got[f] = @ + 1]
     IN IF a.got[f] = Chunks THEN FinishFile(t, f, a, a.parts[f])
        ELSE asm' = [asm EXCEPT ![t] = a] /\ UNCHANGED <<disk, staging>>
  /\ UNCHANGED <<clip, news, last, textVars, sent, imageVars, outVars>>

\* The viewer could not read it.
RecvFailed(t, f) ==
  /\ asm[t] # Nothing /\ upto[t][f] < Chunks
  /\ upto' = [upto EXCEPT ![t][f] = Chunks] /\ FinishFile(t, f, asm[t], Nothing)
  /\ UNCHANGED <<clip, news, last, textVars, sent, imageVars, outVars>>

\* The transport gave the chunk to the worker of another desktop.
ChunkElsewhere(t, f) ==
  /\ asm[t] # Nothing /\ upto[t][f] < Chunks
  /\ upto' = [upto EXCEPT ![t][f] = @ + 1]
  /\ UNCHANGED <<clip, news, last, textVars, sent, imageVars, outVars, asm, disk, staging>>

\* clipAgentWriteFiles, in a goroutine of its own.
Stage(s) ==
  /\ staging' = staging \ {s}
  /\ \/ PutClip(Item("files", "viewer", s))
     \/ UNCHANGED <<clip, news>>
  /\ UNCHANGED <<last, textVars, sent, imageVars, outVars, upto, asm, disk>>

PollSteps == PollBegins \/ PollReads \/ PollSends

ClipNext ==
  \/ HostCopies \/ InboundText \/ InboundWrite \/ PollSteps \/ FilesPoll
  \/ \E v \in Viewers : InboundChunk(v)
  \/ \E t \in Tokens : Announced(t)
  \/ \E s \in staging : Stage(s)
  \/ \E t \in Tokens, f \in Files : RecvChunk(t, f) \/ RecvFailed(t, f) \/ ChunkElsewhere(t, f)

ClipSpec == ClipInit /\ [][ClipNext]_clipVars

-----------------------------------------------------------------------------
ClipTypeOK ==
  /\ clip \in Items /\ news \in BOOLEAN /\ inbound \in {Nothing, ViewerText} \cup Images
  /\ DOMAIN last = {"text", "image", "files"}
  /\ \A k \in DOMAIN last : last[k] = Nothing \/ (last[k] \in Items /\ last[k].kind = k)
  /\ poll.at \in {"rest", "image", "text"} /\ (sent = Nothing \/ sent \in Items)
  /\ sending \in [Viewers -> 0 .. Chunks] /\ out \subseteq 1 .. seq /\ seq <= MaxSeq
  /\ staging \subseteq Sets

\* The sets of files that are on the clipboard or about to be.
Handed == staging \cup {s \in Sets : clip = Item("files", "viewer", s)}

\* A file of a viewer that is put on the host's clipboard has all the chunks of its own
\* announcement on the disk, although the transport may hand some of them to another
\* worker and writes may fail, until another announcement's file of that name is written
\* there (clipfiles_windows.go, recvBytes and finishFile).
StagedIsWhole ==
  \A s \in Handed : \A f \in s.files :
    disk[f].by \in Tokens /\ (disk[f].by = s.by => disk[f].chunks = 0 .. Chunks - 1)
=============================================================================
