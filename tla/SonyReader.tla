------------------------------ MODULE SonyReader ----------------------------
(***************************************************************************)
(* Copying a file of the reader over the vendor SCSI commands: `prsctl     *)
(* get` and `prsctl dump` (prsctl/main.rs over SonyExtendedTransport and   *)
(* SgDevice), and the handle-based ReaderClient (sony-x50/client.rs).      *)
(*                                                                         *)
(* Sizes and offsets count sectors of 512 bytes; a chunk is ChunkSectors   *)
(* of them, and the content of sector s is s.  The reader resets and       *)
(* wedges: any command may fail, done or not done.                         *)
(***************************************************************************)
EXTENDS Naturals, Sequences

CONSTANTS
  Sectors,       \* the size of the file
  ChunkAttempts, \* of read_with_retry for a chunk (3)
  Reconnects,    \* attempts to open the transport (8)
  Recoveries     \* of `get`, one after the other (8)

ASSUME SonyReaderAssumption ==
  /\ {Sectors, ChunkAttempts, Reconnects} \subseteq Nat \ {0} /\ Recoveries \in Nat

VARIABLES
  tool,     \* "get", "dump" or "copy", the last with a handle
  stage,    \* what it does next
  attempt,  \* of opening the transport, or of the read at hand
  recovery, \* of `get`, since a read succeeded
  size,     \* of the file, as reported when the tool connected
  offset,   \* of the chunk at hand
  part,     \* the sectors of it that are done
  bySector, \* it is read sector by sector
  command,  \* the phase of the read: "send", "status", "data"
  asked,    \* the range the reader was last asked for
  handle,   \* "none", "held", "closed", "lost"
  image,    \* the sectors of the output file
  badmap    \* the sectors of the map of unreadable ranges

readVars == <<attempt, recovery, offset, part, bySector, command>>
fileVars == <<image, badmap>>
sonyVars == <<tool, stage, size, asked, handle, readVars, fileVars>>

ChunkSectors == 2
Zeros == 0

Least(m, n) == IF m < n THEN m ELSE n
ChunkEnd == Least(offset + ChunkSectors, size)

\* The arguments of file_read.
Wanted == [from |-> offset + part, count |-> IF bySector THEN 1 ELSE ChunkEnd - offset]
Nothing == [from |-> 0, count |-> 0]
Content(range) == [n \in 1 .. range.count |-> range.from + n]

\* How a command ends: the driver takes it or not, the device, the host and
\* the driver report a status, and some of the bytes were moved.
Completions == [accepted : BOOLEAN, statuses : {"good", "bad"}, moved : {"all", "some"}]

\* SgDevice::execute and execute_bsg.
Executed(completion) == completion.accepted /\ completion.statuses = "good"

\* receive_command_bytes, of an answer of known length.
Arrived(completion) == Executed(completion) /\ completion.moved = "all"

\* initialize and file_size: a reader that is starting reports a size of zero.
ReportedSizes == {0, Sectors}

SonyInit ==
  /\ tool \in {"get", "dump", "copy"} /\ stage = "connect" /\ size = 0
  /\ attempt = 1 /\ recovery = 0 /\ offset = 0 /\ part = 0 /\ bySector = FALSE
  /\ command = "send" /\ asked = Nothing /\ handle = "none"
  /\ image = <<>> /\ badmap = {}

-----------------------------------------------------------------------------
(* Opening the transport and the files.                                    *)

\* open_transport_with_retry, open_transport, open_read and size.
Connect ==
  /\ stage = "connect"
  /\ \/ /\ size' \in ReportedSizes /\ (tool = "dump" => size' # 0)
        /\ stage' = "create" /\ attempt' = 1
        /\ handle' = IF tool = "copy" THEN "held" ELSE handle
     \/ /\ tool = "dump" /\ attempt < Reconnects /\ attempt' = attempt + 1
        /\ UNCHANGED <<stage, size, handle>>
     \/ /\ tool = "dump" => attempt = Reconnects
        /\ stage' = "failed" /\ UNCHANGED <<attempt, size, handle>>
     \* The handle client has a handle, and is not told the size.
     \/ /\ tool = "copy" /\ stage' = "closing failed" /\ handle' = "held"
        /\ UNCHANGED <<attempt, size>>
  /\ UNCHANGED <<tool, asked, recovery, offset, part, bySector, command, fileVars>>

\* create_new for the output and the map, and the first line of the map.
Create ==
  /\ stage = "create"
  /\ \/ size # 0 /\ stage' = "read"
     \/ size = 0 /\ stage' = IF tool = "copy" THEN "closing" ELSE "done"
     \/ tool # "copy" /\ stage' = "failed"
  /\ UNCHANGED <<tool, size, asked, handle, readVars, fileVars>>

\* A reconnection of `get` or of read_with_retry after a failed read.
Reopen ==
  /\ stage = "reopen" /\ asked' \in {asked, Nothing}
  /\ \/ /\ tool = "get" /\ stage' = "read" /\ attempt' = 1 /\ UNCHANGED bySector
     \* The reader does not answer, or reports another size.
     \/ /\ tool = "get" /\ attempt < Reconnects /\ attempt' = attempt + 1
        /\ UNCHANGED <<stage, bySector>>
     \/ /\ tool = "get" /\ attempt = Reconnects /\ stage' = "failed"
        /\ UNCHANGED <<attempt, bySector>>
     \* The old transport serves on when there is no new one.
     \/ /\ tool = "dump" /\ ~bySector /\ attempt < ChunkAttempts
        /\ attempt' = attempt + 1 /\ stage' = "read" /\ UNCHANGED bySector
     \/ /\ tool = "dump" /\ ~bySector /\ attempt = ChunkAttempts
        /\ bySector' = TRUE /\ attempt' = 1 /\ stage' = "read"
     \/ tool = "dump" /\ bySector /\ stage' = "map" /\ UNCHANGED <<attempt, bySector>>
  /\ UNCHANGED <<tool, size, handle, recovery, offset, part, command, fileVars>>

-----------------------------------------------------------------------------
(* Reading.                                                                *)

\* Mutant: each reconnection begins the count anew.
FaultyNextRecovery == 1

NextRecovery == recovery + 1

\* An error of file_read.
ReadFailed ==
  /\ command' = "send"
  /\ \/ /\ tool = "get" /\ recovery < Recoveries /\ recovery' = NextRecovery
        /\ attempt' = 1 /\ stage' = "reopen"
     \/ tool = "get" /\ recovery = Recoveries /\ stage' = "failed" /\ UNCHANGED <<attempt, recovery>>
     \/ tool = "dump" /\ stage' = "reopen" /\ UNCHANGED <<attempt, recovery>>
     \/ tool = "copy" /\ stage' = "closing failed" /\ UNCHANGED <<attempt, recovery>>
  /\ UNCHANGED <<offset, part, bySector, fileVars>>

\* The request of a read, or set_position of the handle client.
SendRead ==
  /\ stage = "read" /\ command = "send"
  /\ \E sending \in Completions :
       \/ /\ Executed(sending)
          /\ asked' = Wanted /\ command' = IF tool = "copy" THEN "data" ELSE "status"
          /\ UNCHANGED <<stage, attempt, recovery, offset, part, bySector, fileVars>>
       \/ ~Executed(sending) /\ asked' \in {asked, Wanted} /\ ReadFailed
  /\ UNCHANGED <<tool, size, handle>>

\* The status of a read: of an unreadable range it is not zero.
ReadStatus ==
  /\ stage = "read" /\ command = "status"
  /\ \E status \in Completions, zero \in BOOLEAN :
       \/ /\ Arrived(status) /\ zero /\ command' = "data"
          /\ UNCHANGED <<stage, attempt, recovery, offset, part, bySector, fileVars>>
       \/ (Arrived(status) => ~zero) /\ ReadFailed
  /\ UNCHANGED <<tool, size, asked, handle>>

\* Where the tool goes on after `count` sectors: a chunk that was read sector
\* by sector is done as a whole.
NextOffset(count) ==
  IF ~bySector THEN offset + count
  ELSE IF offset + part + count = ChunkEnd THEN ChunkEnd ELSE offset

\* The sectors are written, which may fail.
Keep(sectors) ==
  \/ /\ image' = image \o sectors /\ offset' = NextOffset(Len(sectors))
     /\ bySector' = (bySector /\ offset' = offset)
     /\ part' = IF bySector' THEN part + Len(sectors) ELSE 0
     /\ command' = "send" /\ attempt' = 1 /\ recovery' = 0
     /\ stage' = IF offset' < size THEN "read" ELSE IF tool = "copy" THEN "closing" ELSE "done"
     /\ UNCHANGED badmap
  \/ /\ stage' = IF tool = "copy" THEN "closing failed" ELSE "failed"
     /\ UNCHANGED <<readVars, fileVars>>

\* The data phase.  Only the handle client takes less than it asked for.
ReadSectors ==
  /\ stage = "read" /\ command = "data"
  /\ \/ \E count \in 1 .. Wanted.count :
          /\ tool = "copy" \/ count = Wanted.count
          /\ Keep(SubSeq(Content(asked), 1, count))
     \/ \E data \in Completions : ~Arrived(data) /\ ReadFailed
  /\ UNCHANGED <<tool, size, asked, handle>>

\* Mutant: an error of the map is not looked at.
FaultyMapSector ==
  /\ stage = "map" /\ stage' = "zero"
  /\ badmap' \in {badmap, badmap \union {Wanted.from + 1}}
  /\ UNCHANGED <<tool, size, asked, handle, readVars, image>>

\* An unreadable sector is mapped, then filled with zeros.
MapSector ==
  /\ stage = "map"
  /\ \/ badmap' = badmap \union {Wanted.from + 1} /\ stage' = "zero"
     \/ stage' = "failed" /\ UNCHANGED badmap
  /\ UNCHANGED <<tool, size, asked, handle, readVars, image>>

ZeroSector ==
  /\ stage = "zero" /\ Keep(<<Zeros>>)
  /\ UNCHANGED <<tool, size, asked, handle>>

\* copy_path: whatever came of the copy, the handle is closed.
Close ==
  /\ stage \in {"closing", "closing failed"}
  /\ \/ handle' = "closed" /\ stage' = IF stage = "closing" THEN "done" ELSE "failed"
     \/ handle' = "lost" /\ stage' = "failed"
  /\ UNCHANGED <<tool, size, asked, readVars, fileVars>>

SonyNext ==
  \/ Connect \/ Create \/ Reopen
  \/ SendRead \/ ReadStatus \/ ReadSectors \/ MapSector \/ ZeroSector \/ Close

\* Every command ends: SgDevice gives each ten seconds.
SonyFairness == WF_sonyVars(SonyNext)

SonySpec == SonyInit /\ [][SonyNext]_sonyVars /\ SonyFairness

-----------------------------------------------------------------------------
(* Properties.                                                             *)

SonyTypeOK ==
  /\ tool \in {"get", "dump", "copy"} /\ size \in ReportedSizes
  /\ stage \in {"connect", "create", "read", "reopen", "map", "zero", "closing",
                "closing failed", "done", "failed"}
  /\ command \in {"send", "status", "data"} /\ bySector \in BOOLEAN
  /\ attempt \in 1 .. (ChunkAttempts + Reconnects) /\ recovery \in 0 .. Recoveries
  /\ offset \in 0 .. Sectors /\ part \in 0 .. ChunkSectors
  /\ handle \in {"none", "held", "closed", "lost"}
  /\ image \in Seq(0 .. Sectors) /\ badmap \subseteq 1 .. Sectors

\* Whenever the tool stops, at any failure or kill, each sector of the output
\* is that sector of the file, or one of zeros that the map lists; the map
\* lists none but those; and a tool that ends well has copied the whole file
\* of the size it was told, and a dump has not been told none.
ImageIsAccounted ==
  /\ \A n \in DOMAIN image : image[n] = n \/ (image[n] = Zeros /\ n \in badmap)
  /\ \A n \in badmap : n = Len(image) + 1 \/ (n \in DOMAIN image /\ image[n] = Zeros)
  /\ stage = "done" => Len(image) = size /\ (tool = "dump" => size = Sectors)

\* Reads that fail and readers that stay away do not keep a tool for ever,
\* and it does not end with a handle it has not tried to close.
TransferEnds == <>(stage \in {"done", "failed"} /\ handle # "held")

=============================================================================
